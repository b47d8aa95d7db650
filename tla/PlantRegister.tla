--------------------------- MODULE PlantRegister ---------------------------
(***************************************************************************)
(* What claim, release and PUT /plant promise to clients that take turns   *)
(* on a plant (routers/plant.py): a plant is held by one device at a time, *)
(* is replaced together with its facilities, in one step, by the device    *)
(* that holds it, and without force only if the client knows what it       *)
(* replaces.                                                               *)
(***************************************************************************)
EXTENDS Integers

CONSTANTS Users, Internal, Devices, Plants, Facilities, Requests

VARIABLES
    version,  \* of each plant, 0 while there is none
    holder,   \* who has claimed it, from which device and on which day
    access,   \* who may use it
    owner,    \* the plant each facility was created in, 0 while there is none
    live,     \* the facilities that are there and not deleted
    day,      \* the day it is
    asked     \* what the client of each request waits for

vars == <<version, holder, access, owner, live, day, asked>>

Nobody == [user |-> 0, device |-> 0, day |-> 0]
Nothing == [op |-> "idle", plant |-> 0, user |-> 0, device |-> 0, day |-> 0,
            live |-> {}, gone |-> {}, base |-> 0]

Init ==
    /\ version = [p \in Plants |-> 0]
    /\ holder = [p \in Plants |-> Nobody]
    /\ access = [p \in Plants |-> {}]
    /\ owner = [f \in Facilities |-> 0]
    /\ live = {}
    /\ day = 1
    /\ asked = [r \in Requests |-> Nothing]

Asked(r, question) ==
    /\ asked' = [asked EXCEPT ![r] = question]
    /\ UNCHANGED <<version, holder, access, owner, live, day>>

AskClaim(r) == \E p \in Plants, d \in Devices : \E u \in access[p] :
    Asked(r, [Nothing EXCEPT !.op = "claim", !.plant = p, !.user = u,
                             !.device = d, !.day = day])

AskRelease(r) == \E p \in Plants :
    access[p] # {} /\ Asked(r, [Nothing EXCEPT !.op = "release", !.plant = p])

\* The body names the facilities to keep and those to delete; base is the
\* version its client knows, or 0 to force the save.
AskCreate(r) == \E p \in Plants, u \in Users, d \in Devices,
                   keep, gone \in SUBSET Facilities :
    /\ version[p] = 0
    /\ Asked(r, [Nothing EXCEPT !.op = "create", !.plant = p, !.user = u,
                                !.device = d, !.live = keep, !.gone = gone])

AskSave(r) == \E p \in Plants, d \in Devices,
                 keep, gone \in SUBSET Facilities : \E base \in 0..version[p] :
    /\ access[p] # {}
    /\ Asked(r, [Nothing EXCEPT !.op = "save", !.plant = p, !.device = d,
                                !.live = keep, !.gone = gone, !.base = base])

Ask(r) ==
    /\ asked[r] = Nothing
    /\ AskClaim(r) \/ AskRelease(r) \/ AskCreate(r) \/ AskSave(r)

\* r has what it asked for: its plant has a later version.
Done(r, op) ==
    LET p == asked[r].plant
        v == version'[p] IN
    /\ asked[r].op = op
    /\ v > version[p]
    /\ version' = [version EXCEPT ![p] = v]
    /\ asked' = [asked EXCEPT ![r] = Nothing]
    /\ UNCHANGED day

\* A claim that another user holds lasts until its day is over.
Claim(r) ==
    LET p == asked[r].plant  u == asked[r].user IN
    /\ Done(r, "claim")
    /\ holder[p].user \in {0, u} \/ holder[p].day < day
    /\ holder' = [holder EXCEPT ![p] =
                     [user |-> u, device |-> asked[r].device,
                      day |-> asked[r].day]]
    /\ UNCHANGED <<access, owner, live>>

Release(r) ==
    /\ Done(r, "release")
    /\ holder' = [holder EXCEPT ![asked[r].plant] = Nobody]
    /\ UNCHANGED <<access, owner, live>>

\* The plant has the facilities of the body, and what it had besides them is
\* deleted.
Replace(r) ==
    LET p == asked[r].plant
        listed == asked[r].live \cup asked[r].gone IN
    /\ \A f \in listed : owner[f] \in {0, p}
    /\ owner' = [f \in Facilities |-> IF f \in listed THEN p ELSE owner[f]]
    /\ live' = {f \in live : owner[f] # p} \cup (asked[r].live \ asked[r].gone)

Create(r) ==
    /\ Done(r, "create") /\ Replace(r)
    /\ version[asked[r].plant] = 0
    /\ access' = [access EXCEPT ![asked[r].plant] =
                     Internal \cup {asked[r].user}]
    /\ UNCHANGED holder

Save(r) ==
    LET p == asked[r].plant IN
    /\ Done(r, "save") /\ Replace(r)
    /\ holder[p].device = asked[r].device
    /\ asked[r].base # 0 =>
           /\ asked[r].base = version[p]
           /\ {f \in live : owner[f] = p} \subseteq asked[r].live \cup asked[r].gone
    /\ UNCHANGED <<holder, access>>

\* The request is refused or fails.
Drop(r) ==
    /\ asked[r] # Nothing
    /\ asked' = [asked EXCEPT ![r] = Nothing]
    /\ UNCHANGED <<version, holder, access, owner, live, day>>

NewDay ==
    /\ day' = day + 1
    /\ UNCHANGED <<version, holder, access, owner, live, asked>>

Next ==
    \/ NewDay
    \/ \E r \in Requests :
           \/ Ask(r) \/ Claim(r) \/ Release(r) \/ Create(r) \/ Save(r) \/ Drop(r)

Spec == Init /\ [][Next]_vars
=============================================================================
