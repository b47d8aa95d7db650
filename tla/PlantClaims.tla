---------------------------- MODULE PlantClaims ----------------------------
(***************************************************************************)
(* Plants with their facilities (lesiv.plant, lesiv.facility) and the      *)
(* claims that reserve a plant for the device that edits it: POST          *)
(* /plant/by_id/{id}/claim, POST .../release and PUT /plant.               *)
(*                                                                         *)
(* A request is one transaction at READ COMMITTED, run statement by        *)
(* statement between those of other requests.  From its upsert or UPDATE   *)
(* of the plant row to its commit a request holds that row locked; what it *)
(* writes is published at the commit.  A claim or a release commits as     *)
(* soon as it has written.                                                 *)
(*                                                                         *)
(* The users are the inspectors with access level MODIFY or VERIFY: others *)
(* get a 403 and change nothing.  A request answered with a 4xx changes    *)
(* nothing, and is a step only where it ends a transaction.  "force"       *)
(* stands for the setting disable_optimistic_locking as well.  Names and   *)
(* is_deleted of the plant are left out.  Claims become stale at 00:00     *)
(* UTC, so a time is a day and, for versions, the order of the requests'   *)
(* reads of the clock.                                                     *)
(***************************************************************************)
EXTENDS Integers, FiniteSets

CONSTANTS
    Users,       \* inspectors that may modify plants
    Internal,    \* those with is_internal
    Devices,     \* device ids
    Plants,      \* ids of plants
    Facilities,  \* ids of facilities
    Requests,    \* slots for the requests in flight
    MaxStamps,   \* bound of a run: versions ever given out
    MaxDay       \* bound of a run: the last day

\* SQL NULL; also the version of a plant that has no row
Null == 0

ASSUME IdsAssumption == Null \notin Users \cup Devices \cup Plants
ASSUME InternalAssumption == Internal \subseteq Users
ASSUME BoundsAssumption == MaxStamps \in Nat /\ MaxDay \in Nat

VARIABLES
    plant,     \* lesiv.plant
    facility,  \* lesiv.facility; a facility of plant Null has no row
    access,    \* lesiv.inspector_plant_access: who has access to a plant
    now,       \* the clock: the version the next request will take
    day,       \* the day it is, in UTC
    req,       \* the requests in flight
    serial     \* rigid: requests for the same plant wait for each other

vars == <<plant, facility, access, now, day, req, serial>>

Plant ==
    [modified : Nat,                      \* server_modified_at
     creator  : Users \cup {Null},        \* created_by_user_id
     device   : Devices \cup {Null},      \* claimed_by_device_id
     user     : Users \cup {Null},        \* claimed_by_user_id
     claimed  : Nat]                      \* the day of claimed_at
Facility == [plant : Plants \cup {Null}, deleted : BOOLEAN]
Steps == {"idle", "claim", "release", "owner", "check", "upsert", "sync",
          "commit"}
Request ==
    [pc       : Steps,
     user     : Users \cup {Null},        \* who claims or creates: sub ...
     device   : Devices \cup {Null},      \* ... and dev of the access token
     plant    : Plants \cup {Null},
     live     : SUBSET Facilities,        \* the body: facilities to keep ...
     gone     : SUBSET Facilities,        \* ... and those with is_deleted
     base     : Nat,                      \* server_modified_at, if not forced
     new      : BOOLEAN,                  \* is_new_plant
     stamp    : Nat,                      \* the clock as the request read it,
     day      : Nat,                      \* and the day
     existing : SUBSET Facilities]        \* existing_ids of _sync_facilities

NoPlant == [modified |-> Null, creator |-> Null, device |-> Null,
            user |-> Null, claimed |-> Null]
NoFacility == [plant |-> Null, deleted |-> FALSE]
Idle == [pc |-> "idle", user |-> Null, device |-> Null, plant |-> Null,
         live |-> {}, gone |-> {}, base |-> Null, new |-> FALSE,
         stamp |-> Null, day |-> Null, existing |-> {}]

Busy(r) == req[r].pc # "idle"
Exists(p) == plant[p].modified # Null
Listed(r) == req[r].live \cup req[r].gone
FacilitiesOf(p) == {f \in Facilities : facility[f].plant = p}

\* Another request has written the plant row and not committed yet.
Locked(r, p) ==
    \E q \in Requests \ {r} :
        req[q].pc \in {"sync", "commit"} /\ req[q].plant = p

\* What "serial" asks of the clients
Alone(r, p, facilities) ==
    serial => \A q \in Requests \ {r} :
        Busy(q) => req[q].plant # p /\ Listed(q) \cap facilities = {}

RolledBack(r) ==
    /\ req' = [req EXCEPT ![r] = Idle]
    /\ UNCHANGED <<plant, facility, access, now, day, serial>>
-----------------------------------------------------------------------------
(* Claim and release                                                       *)

\* Mutant: a claim is stale on the day it was made.
StaleToday(p) == plant[p].claimed <= day

\* is_claim_stale: a claim lasts until the day ends
Stale(p) == plant[p].claimed < day

MayClaim(u, p) == plant[p].user \in {Null, u} \/ Stale(p)

\* claim: get_by_id, the decision and the clock
ClaimRead(r, u, d, p) ==
    /\ ~Busy(r) /\ now <= MaxStamps /\ Alone(r, p, {})
    /\ u \in access[p] /\ Exists(p) /\ MayClaim(u, p)
    /\ now' = now + 1
    /\ req' = [req EXCEPT ![r] =
                [Idle EXCEPT !.pc = "claim", !.user = u, !.device = d,
                             !.plant = p, !.stamp = now, !.day = day]]
    /\ UNCHANGED <<plant, facility, access, day, serial>>

\* Mutant: device_id and user_id of claim are passed in the wrong order.
ClaimSwapped(r) ==
    /\ req[r].pc = "claim" /\ ~Locked(r, req[r].plant)
    /\ plant' = [plant EXCEPT ![req[r].plant] =
                  [@ EXCEPT !.device = req[r].user, !.user = req[r].device,
                            !.claimed = req[r].day, !.modified = req[r].stamp]]
    /\ req' = [req EXCEPT ![r] = Idle]
    /\ UNCHANGED <<facility, access, now, day, serial>>

\* claim_plant, over whatever claim the row holds by now
ClaimWrite(r) ==
    /\ req[r].pc = "claim" /\ ~Locked(r, req[r].plant)
    /\ plant' = [plant EXCEPT ![req[r].plant] =
                  [@ EXCEPT !.device = req[r].device, !.user = req[r].user,
                            !.claimed = req[r].day, !.modified = req[r].stamp]]
    /\ req' = [req EXCEPT ![r] = Idle]
    /\ UNCHANGED <<facility, access, now, day, serial>>

\* release: whoever holds the claim
ReleaseRead(r, u, p) ==
    /\ ~Busy(r) /\ now <= MaxStamps /\ Alone(r, p, {})
    /\ u \in access[p]
    /\ now' = now + 1
    /\ req' = [req EXCEPT ![r] = [Idle EXCEPT !.pc = "release", !.plant = p,
                                              !.stamp = now]]
    /\ UNCHANGED <<plant, facility, access, day, serial>>

\* Mutant: release leaves the version alone.
ReleaseSilently(r) ==
    /\ req[r].pc = "release" /\ ~Locked(r, req[r].plant)
    /\ plant' = [plant EXCEPT ![req[r].plant] =
                  [@ EXCEPT !.device = Null, !.user = Null, !.claimed = Null]]
    /\ req' = [req EXCEPT ![r] = Idle]
    /\ UNCHANGED <<facility, access, now, day, serial>>

\* release_plant
ReleaseWrite(r) ==
    /\ req[r].pc = "release" /\ ~Locked(r, req[r].plant)
    /\ plant' = [plant EXCEPT ![req[r].plant] =
                  [@ EXCEPT !.device = Null, !.user = Null, !.claimed = Null,
                            !.modified = req[r].stamp]]
    /\ req' = [req EXCEPT ![r] = Idle]
    /\ UNCHANGED <<facility, access, now, day, serial>>
-----------------------------------------------------------------------------
(* PUT /plant                                                              *)

\* upsert_plant: get_by_id and, for a plant that exists, the access check
SaveRead(r, u, d, p, live, gone, base, force) ==
    /\ ~Busy(r) /\ now <= MaxStamps /\ Alone(r, p, live \cup gone)
    /\ Exists(p) => u \in access[p]
    /\ req' = [req EXCEPT ![r] =
                [Idle EXCEPT !.pc = "owner", !.device = d, !.plant = p,
                             !.user = IF Exists(p) THEN Null ELSE u,
                             !.live = live, !.gone = gone,
                             !.base = IF force THEN Null ELSE base,
                             !.new = ~Exists(p)]]
    /\ UNCHANGED <<plant, facility, access, now, day, serial>>

\* Mutant: a plant has to be claimed, by whomever.
OwnerCheckClaimed(r) ==
    /\ req[r].pc = "owner"
    /\ IF Exists(req[r].plant) /\ plant[req[r].plant].device = Null
       THEN RolledBack(r)
       ELSE /\ req' = [req EXCEPT ![r].pc = "check"]
            /\ UNCHANGED <<plant, facility, access, now, day, serial>>

\* validate_plant_ownership reads the plant again.
OwnerCheck(r) ==
    /\ req[r].pc = "owner"
    /\ IF Exists(req[r].plant) /\ plant[req[r].plant].device # req[r].device
       THEN RolledBack(r)
       ELSE /\ req' = [req EXCEPT ![r].pc = "check"]
            /\ UNCHANGED <<plant, facility, access, now, day, serial>>

\* Mutant: the facilities are not compared.
ConflictsVersion(p, base, listed) == base # plant[p].modified

\* validate_object: the version, and live facilities the client does not list
Conflicts(p, base, listed) ==
    \/ base # plant[p].modified
    \/ \E f \in FacilitiesOf(p) : ~facility[f].deleted /\ f \notin listed

\* save reads the plant once more, and the clock.
VersionCheck(r) ==
    /\ req[r].pc = "check"
    /\ LET p == req[r].plant  forced == req[r].base = Null IN
       IF Exists(p) /\ ~forced /\ Conflicts(p, req[r].base, Listed(r))
       THEN RolledBack(r)
       ELSE /\ now' = now + 1
            /\ req' = [req EXCEPT ![r].pc = "upsert", ![r].stamp = now]
            /\ UNCHANGED <<plant, facility, access, day, serial>>

\* upsert_plant waits for the row, and holds it from here on.
UpsertPlant(r) ==
    /\ req[r].pc = "upsert" /\ ~Locked(r, req[r].plant)
    /\ req' = [req EXCEPT ![r].pc = "sync"]
    /\ UNCHANGED <<plant, facility, access, now, day, serial>>

\* _sync_facilities: get_facility_ids, and the check for facilities of other
\* plants
SyncRead(r) ==
    /\ req[r].pc = "sync"
    /\ LET p == req[r].plant IN
       IF \E f \in Listed(r) : facility[f].plant \notin {Null, p}
       THEN RolledBack(r)
       ELSE /\ req' = [req EXCEPT ![r].pc = "commit",
                                  ![r].existing = FacilitiesOf(p)]
            /\ UNCHANGED <<plant, facility, access, now, day, serial>>

\* Mutant: created_by_user_id is in DO UPDATE SET.
UpsertedCreator(r) ==
    [plant[req[r].plant] EXCEPT !.modified = req[r].stamp,
                                !.creator = req[r].user]

\* The row upsert_plant leaves: claim and creator of an old row stay.
UpsertedPlant(r) ==
    LET row == plant[req[r].plant] IN
    [row EXCEPT !.modified = req[r].stamp,
                !.creator = IF row.modified = Null THEN req[r].user ELSE @]

\* The row upsert_facility leaves: the plant of an old row stays.
UpsertedFacility(r, f) ==
    [plant |-> IF facility[f].plant = Null THEN req[r].plant
               ELSE facility[f].plant,
     deleted |-> f \in req[r].gone]

\* Mutant: no grant to the creator.
GrantedInternal(r) == IF req[r].new THEN Internal ELSE {}

\* grant_plant_access_to_internal_inspectors and grant_plant_access, if the
\* plant was new when the request started
Granted(r) == IF req[r].new THEN Internal \cup {req[r].user} ELSE {}

\* The facilities and grants are written, and the transaction commits.
Commit(r) ==
    /\ req[r].pc = "commit"
    /\ plant' = [plant EXCEPT ![req[r].plant] = UpsertedPlant(r)]
    /\ facility' = [f \in Facilities |->
                       IF f \in Listed(r) THEN UpsertedFacility(r, f)
                       ELSE IF f \in req[r].existing
                            THEN [facility[f] EXCEPT !.deleted = TRUE]
                            ELSE facility[f]]
    /\ access' = [access EXCEPT ![req[r].plant] = @ \cup Granted(r)]
    /\ req' = [req EXCEPT ![r] = Idle]
    /\ UNCHANGED <<now, day, serial>>

\* The process, its connection or its client is gone.
Crash(r) == Busy(r) /\ RolledBack(r)

NewDay ==
    /\ day < MaxDay
    /\ day' = day + 1
    /\ UNCHANGED <<plant, facility, access, now, req, serial>>
-----------------------------------------------------------------------------
Init ==
    /\ plant = [p \in Plants |-> NoPlant]
    /\ facility = [f \in Facilities |-> NoFacility]
    /\ access = [p \in Plants |-> {}]
    /\ now = 1
    /\ day = 1
    /\ req = [r \in Requests |-> Idle]
    /\ serial \in BOOLEAN

Serve(r) ==
    \/ ClaimWrite(r) \/ ReleaseWrite(r)
    \/ OwnerCheck(r) \/ VersionCheck(r) \/ UpsertPlant(r) \/ SyncRead(r)
    \/ Commit(r)

\* The version a client sends is the one the plant has, or an older one.
Send(r) ==
    \E u \in Users, d \in Devices, p \in Plants :
        \/ ClaimRead(r, u, d, p)
        \/ ReleaseRead(r, u, p)
        \/ \E listed \in SUBSET Facilities : \E gone \in SUBSET listed :
           \E base \in {plant[p].modified} \cup 1..(plant[p].modified - 1) :
           \E force \in BOOLEAN :
               SaveRead(r, u, d, p, listed \ gone, gone, base, force)

Next == NewDay \/ \E r \in Requests : Send(r) \/ Serve(r) \/ Crash(r)

Spec == Init /\ [][Next]_vars
-----------------------------------------------------------------------------
(* Properties                                                              *)

\* Every variable has its type.
TypeOK ==
    /\ plant \in [Plants -> Plant]
    /\ facility \in [Facilities -> Facility]
    /\ access \in [Plants -> SUBSET Users]
    /\ now \in Nat
    /\ day \in Nat
    /\ req \in [Requests -> Request]
    /\ serial \in BOOLEAN

\* The creator of a plant never changes (queries/plant.sql: "set once on
\* creation and never changed afterwards") and a facility never moves to
\* another plant (routers/plant.py: 'Never allows "stealing" facilities'), also
\* when two clients create them at the same time.
OriginsStay ==
    [][/\ \A p \in Plants : Exists(p) => plant'[p].creator = plant[p].creator
       /\ \A f \in Facilities : facility[f].plant # Null =>
              facility'[f].plant = facility[f].plant]_vars

\* The internal inspectors and the creator have access to every plant from the
\* moment it is there; while clients take turns nobody else has.
AccessFollowsCreation ==
    \A p \in Plants : Exists(p) =>
        LET granted == Internal \cup {plant[p].creator} IN
        granted \subseteq access[p] /\ (serial => access[p] \subseteq granted)

\* The claim of a user who has not released it passes to another user only
\* when it is stale.
ClaimKept ==
    \A p \in Plants :
        (plant[p].user # Null /\ plant'[p].user \notin {Null, plant[p].user})
            => plant[p].claimed < day

\* Taking turns, nobody takes over a claim that is not stale.
ClaimExclusive == [][serial => ClaimKept]_vars

\* Taking turns, a plant that exists is changed only from the device that
\* holds its claim at the moment the change is published.
OnlyClaimantSaves ==
    [][serial => \A r \in Requests : Commit(r) =>
           ~Exists(req[r].plant) \/ plant[req[r].plant].device = req[r].device
      ]_vars

\* Taking turns, a save without force overwrites only the version its client
\* had, and deletes no facility its client did not list.
NothingLost ==
    [][serial => \A r \in Requests : (Commit(r) /\ req[r].base # Null) =>
           /\ plant[req[r].plant].modified \in {Null, req[r].base}
           /\ \A f \in Facilities \ Listed(r) : facility'[f] = facility[f]
                                                \/ facility[f].deleted]_vars

\* Taking turns, whatever changes in a plant or in its facilities gives the
\* plant a later version, so that a client that asks for later ones sees it.
ChangesVersioned ==
    [][serial => \A p \in Plants :
           (plant'[p] # plant[p]
            \/ \E f \in FacilitiesOf(p) : facility'[f] # facility[f]) =>
               plant'[p].modified > plant[p].modified]_vars

\* What the client of r waits for
Pending(r) ==
    LET q == req[r] IN
    [op |-> CASE q.pc \in {"idle", "claim", "release"} -> q.pc
              [] OTHER -> IF q.new THEN "create" ELSE "save",
     plant |-> q.plant, user |-> q.user, device |-> q.device, day |-> q.day,
     live |-> q.live, gone |-> q.gone, base |-> q.base]

Register == INSTANCE PlantRegister WITH
    version <- [p \in Plants |-> plant[p].modified],
    holder <- [p \in Plants |-> [user |-> plant[p].user,
                                 device |-> plant[p].device,
                                 day |-> plant[p].claimed]],
    owner <- [f \in Facilities |-> facility[f].plant],
    live <- {f \in Facilities : facility[f].plant # Null
                                /\ ~facility[f].deleted},
    asked <- [r \in Requests |-> Pending(r)]

\* Taking turns, each claim, release and save is one step on a register of
\* plants: what it has checked, statement by statement and without locks,
\* holds at the moment it takes effect, and a save, forced or not, leaves the
\* plant with exactly the facilities it was asked for.
ActsAsRegister ==
    Register!Init /\ [][serial => Register!Next]_(Register!vars)

\* routers/plant.py, claim_plant: "Returns 409 if plant is claimed by another
\* user and claim is not stale."  Without turns it does not hold: see README.
ClaimRefused == [][ClaimKept]_vars
=============================================================================
