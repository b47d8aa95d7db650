------------------------- MODULE PlantClaimsProofs -------------------------
(***************************************************************************)
(* Proofs about PlantClaims, for any users, devices, plants, facilities    *)
(* and number of requests.                                                 *)
(*                                                                         *)
(* The inductive invariant IInv says of the tables that versions come from *)
(* the clock, that what refers to a plant refers to one that is there, and *)
(* that its creator and the internal inspectors have access; and of every  *)
(* request in flight what its checks have established: for good where the  *)
(* code makes sure of it (Fields), and while clients take turns where      *)
(* nobody else may change what was checked (Ours).                         *)
(***************************************************************************)
EXTENDS PlantClaims, TLAPS

\* Versions come from the clock; access, facilities and creators
Tables ==
    /\ now >= 1
    /\ \A p \in Plants : plant[p].modified < now
    /\ \A p \in Plants : access[p] # {} => Exists(p)
    /\ \A p \in Plants : Exists(p) =>
           /\ plant[p].creator # Null
           /\ Internal \cup {plant[p].creator} \subseteq access[p]
    /\ \A f \in Facilities : facility[f].plant # Null =>
           Exists(facility[f].plant)

Saving(r) == req[r].pc \in {"owner", "check", "upsert", "sync", "commit"}
Stamped(r) == req[r].pc \in {"claim", "release", "upsert", "sync", "commit"}

\* What holds of every request, whatever the others do
Fields(r) ==
    /\ IF Busy(r) THEN req[r].plant \in Plants ELSE req[r] = Idle
    /\ Stamped(r) => req[r].stamp # Null /\ req[r].stamp < now
    /\ req[r].pc \in {"claim", "release"} => Exists(req[r].plant)
    /\ Saving(r) => IF req[r].new THEN req[r].user # Null
                                  ELSE Exists(req[r].plant)
    /\ req[r].pc = "commit" => req[r].existing \subseteq FacilitiesOf(req[r].plant)

\* What Alone has made true of two requests
Apart(q, r) ==
    Busy(q) /\ Busy(r) => /\ req[q].plant # req[r].plant
                          /\ Listed(q) \cap Listed(r) = {}

\* What the checks of a request have established about its plant
Ours(r) ==
    LET p == req[r].plant IN
    /\ req[r].pc = "claim" => MayClaim(req[r].user, p)
    /\ Stamped(r) => plant[p].modified < req[r].stamp
    /\ Saving(r) => (req[r].new <=> ~Exists(p))
    /\ req[r].pc \in {"check", "upsert", "sync", "commit"} =>
           ~Exists(p) \/ plant[p].device = req[r].device
    /\ (req[r].pc \in {"upsert", "sync", "commit"} /\ req[r].base # Null) =>
           /\ plant[p].modified \in {Null, req[r].base}
           /\ \A f \in FacilitiesOf(p) : f \in Listed(r) \/ facility[f].deleted
    /\ req[r].pc = "commit" =>
           /\ FacilitiesOf(p) \subseteq req[r].existing
           /\ \A f \in Listed(r) : facility[f].plant \in {Null, p}

\* Nobody but the creator and the internal inspectors has access.
AccessTight ==
    \A p \in Plants : Exists(p) =>
        access[p] \subseteq Internal \cup {plant[p].creator}

InTurn ==
    /\ \A q, r \in Requests : q # r => Apart(q, r)
    /\ \A r \in Requests : Ours(r)
    /\ AccessTight

IInv ==
    /\ TypeOK
    /\ Tables
    /\ \A r \in Requests : Fields(r)
    /\ serial => InTurn
-----------------------------------------------------------------------------
(* Types                                                                   *)

\* A slot that serves no request has its type.
LEMMA IdleType == Idle \in Request
BY DEF Idle, Request, Steps, Null

\* A step that changes one request to another row keeps the types.
LEMMA RowType ==
    ASSUME TypeOK, NEW r \in Requests, NEW row \in Request,
           req' = [req EXCEPT ![r] = row], now' \in Nat,
           UNCHANGED <<plant, facility, access, day, serial>>
    PROVE  TypeOK'
BY DEF TypeOK

\* So does one that changes the row of a plant as well.
LEMMA PlantType ==
    ASSUME TypeOK, NEW r \in Requests, NEW p, NEW row \in Plant,
           req' = [req EXCEPT ![r] = Idle],
           plant' = [plant EXCEPT ![p] = row],
           UNCHANGED <<facility, access, now, day, serial>>
    PROVE  TypeOK'
BY IdleType DEF TypeOK

\* The rows a commit leaves have their types: who creates a plant is a user.
LEMMA CommitType ==
    ASSUME TypeOK, NEW r \in Requests, Fields(r), Commit(r)
    PROVE  TypeOK'
<1>1. req[r] \in Request
  BY DEF TypeOK
<1>2. plant' \in [Plants -> Plant]
  <2>1. req[r].plant \in Plants => plant[req[r].plant] \in Plant
    BY DEF TypeOK
  <2>2. req[r].plant \in Plants => UpsertedPlant(r) \in Plant
    BY <1>1, <2>1 DEF UpsertedPlant, Plant, Request
  <2>3. plant' = [plant EXCEPT ![req[r].plant] = UpsertedPlant(r)]
    BY DEF Commit
  <2> QED
    BY <2>2, <2>3 DEF TypeOK
<1>3. facility' \in [Facilities -> Facility]
  <2>1. ASSUME NEW f \in Facilities
        PROVE  UpsertedFacility(r, f) \in Facility
    BY <1>1 DEF UpsertedFacility, Facility, Request, TypeOK
  <2>2. ASSUME NEW f \in Facilities
        PROVE  [facility[f] EXCEPT !.deleted = TRUE] \in Facility
    BY DEF Facility, TypeOK
  <2>3. \A f \in Facilities : facility[f] \in Facility
    BY DEF TypeOK
  <2> QED
    BY <2>1, <2>2, <2>3 DEF Commit
<1>4. access' \in [Plants -> SUBSET Users]
  <2>1. access' = [access EXCEPT ![req[r].plant] = @ \cup Granted(r)]
    BY DEF Commit
  <2>2. Granted(r) \subseteq Users
    BY <1>1, InternalAssumption DEF Granted, Request, Fields, Saving, Commit
  <2> QED
    BY <2>1, <2>2 DEF TypeOK
<1> QED
  BY <1>2, <1>3, <1>4, IdleType DEF Commit, TypeOK
\* Every step keeps the types.
LEMMA TypeStep ==
    ASSUME IInv, [Next]_vars
    PROVE  TypeOK'
<1> USE DEF IInv
<1>1. ASSUME NEW r \in Requests, RolledBack(r) PROVE TypeOK'
  BY <1>1, IdleType, RowType DEF RolledBack, TypeOK
<1>2. now \in Nat /\ now + 1 \in Nat /\ day \in Nat
  BY DEF TypeOK
<1>3. ASSUME NEW r \in Requests, NEW u \in Users, NEW d \in Devices,
             NEW p \in Plants, ClaimRead(r, u, d, p)
      PROVE  TypeOK'
  <2> DEFINE row == [Idle EXCEPT !.pc = "claim", !.user = u, !.device = d,
                                 !.plant = p, !.stamp = now, !.day = day]
  <2>1. row \in Request
    BY <1>2 DEF Idle, Request, Steps, Null
  <2>2. req' = [req EXCEPT ![r] = row] /\ now' = now + 1
        /\ UNCHANGED <<plant, facility, access, day, serial>>
    BY <1>3 DEF ClaimRead
  <2> HIDE DEF row
  <2> QED
    BY <1>2, <2>1, <2>2, RowType
<1>4. ASSUME NEW r \in Requests, NEW u \in Users, NEW p \in Plants,
             ReleaseRead(r, u, p)
      PROVE  TypeOK'
  <2> DEFINE row == [Idle EXCEPT !.pc = "release", !.plant = p, !.stamp = now]
  <2>1. row \in Request
    BY <1>2 DEF Idle, Request, Steps, Null
  <2>2. req' = [req EXCEPT ![r] = row] /\ now' = now + 1
        /\ UNCHANGED <<plant, facility, access, day, serial>>
    BY <1>4 DEF ReleaseRead
  <2> HIDE DEF row
  <2> QED
    BY <1>2, <2>1, <2>2, RowType
<1>5. ASSUME NEW r \in Requests, NEW u \in Users, NEW d \in Devices,
             NEW p \in Plants, NEW live \in SUBSET Facilities,
             NEW gone \in SUBSET Facilities, NEW base \in Nat,
             NEW force \in BOOLEAN, SaveRead(r, u, d, p, live, gone, base, force)
      PROVE  TypeOK'
  <2> DEFINE row == [Idle EXCEPT !.pc = "owner", !.device = d, !.plant = p,
                                 !.user = IF Exists(p) THEN Null ELSE u,
                                 !.live = live, !.gone = gone,
                                 !.base = IF force THEN Null ELSE base,
                                 !.new = ~Exists(p)]
  <2>1. Exists(p) \in BOOLEAN
    BY DEF Exists
  <2>2. row \in Request
    BY <2>1 DEF Idle, Request, Steps, Null
  <2>3. req' = [req EXCEPT ![r] = row]
        /\ UNCHANGED <<plant, facility, access, now, day, serial>>
    BY <1>5 DEF SaveRead
  <2> HIDE DEF row
  <2> QED
    BY <1>2, <2>2, <2>3, RowType
<1>6. ASSUME NEW r \in Requests, Send(r) PROVE TypeOK'
  <2>1. PICK u \in Users, d \in Devices, p \in Plants :
          \/ ClaimRead(r, u, d, p)
          \/ ReleaseRead(r, u, p)
          \/ \E listed \in SUBSET Facilities : \E gone \in SUBSET listed :
             \E base \in {plant[p].modified} \cup 1..(plant[p].modified - 1) :
             \E force \in BOOLEAN :
                 SaveRead(r, u, d, p, listed \ gone, gone, base, force)
    BY <1>6 DEF Send
  <2>2. plant[p].modified \in Nat
    BY DEF TypeOK, Plant
  <2>3. {plant[p].modified} \cup 1..(plant[p].modified - 1) \subseteq Nat
    BY <2>2
  <2>4. ASSUME NEW listed \in SUBSET Facilities, NEW gone \in SUBSET listed,
               NEW base \in {plant[p].modified} \cup 1..(plant[p].modified - 1),
               NEW force \in BOOLEAN,
               SaveRead(r, u, d, p, listed \ gone, gone, base, force)
        PROVE  TypeOK'
    <3>1. gone \in SUBSET Facilities /\ listed \ gone \in SUBSET Facilities
          /\ base \in Nat
      BY <2>3
    <3> QED
      BY <1>5, <2>4, <3>1
  <2> QED
    BY <1>3, <1>4, <2>1, <2>4
<1>7. ASSUME NEW r \in Requests, ClaimWrite(r) PROVE TypeOK'
  <2> DEFINE row == [plant[req[r].plant] EXCEPT
                 !.device = req[r].device, !.user = req[r].user,
                 !.claimed = req[r].day, !.modified = req[r].stamp]
  <2>1. req[r] \in Request /\ req[r].plant \in Plants
    BY <1>7 DEF TypeOK, Fields, Busy, ClaimWrite
  <2>2. row \in Plant
    <3>1. plant[req[r].plant] \in Plant
      BY <2>1 DEF TypeOK
    <3> QED
      BY <2>1, <3>1 DEF Request, Plant
  <2>3. /\ plant' = [plant EXCEPT ![req[r].plant] = row]
        /\ req' = [req EXCEPT ![r] = Idle]
        /\ UNCHANGED <<facility, access, now, day, serial>>
    BY <1>7 DEF ClaimWrite
  <2> HIDE DEF row
  <2> QED
    BY <2>2, <2>3, PlantType
<1>8. ASSUME NEW r \in Requests, ReleaseWrite(r) PROVE TypeOK'
  <2> DEFINE row == [plant[req[r].plant] EXCEPT
                 !.device = Null, !.user = Null, !.claimed = Null,
                 !.modified = req[r].stamp]
  <2>1. req[r] \in Request /\ req[r].plant \in Plants
    BY <1>8 DEF TypeOK, Fields, Busy, ReleaseWrite
  <2>2. row \in Plant
    <3>1. plant[req[r].plant] \in Plant
      BY <2>1 DEF TypeOK
    <3> QED
      BY <2>1, <3>1 DEF Request, Plant, Null
  <2>3. /\ plant' = [plant EXCEPT ![req[r].plant] = row]
        /\ req' = [req EXCEPT ![r] = Idle]
        /\ UNCHANGED <<facility, access, now, day, serial>>
    BY <1>8 DEF ReleaseWrite
  <2> HIDE DEF row
  <2> QED
    BY <2>2, <2>3, PlantType
<1>9. ASSUME NEW r \in Requests, OwnerCheck(r) PROVE TypeOK'
  <2>1. [req[r] EXCEPT !.pc = "check"] \in Request
    BY DEF TypeOK, Request, Steps
  <2> QED
    BY <1>1, <1>2, <1>9, <2>1, RowType DEF OwnerCheck
<1>10. ASSUME NEW r \in Requests, VersionCheck(r) PROVE TypeOK'
  <2>1. [req[r] EXCEPT !.pc = "upsert", !.stamp = now] \in Request
    BY <1>2 DEF TypeOK, Request, Steps
  <2>2. \/ RolledBack(r)
        \/ /\ req' = [req EXCEPT ![r] =
                        [req[r] EXCEPT !.pc = "upsert", !.stamp = now]]
           /\ now' = now + 1
           /\ UNCHANGED <<plant, facility, access, day, serial>>
    BY <1>10 DEF VersionCheck, TypeOK
  <2> QED
    BY <1>1, <1>2, <2>1, <2>2, RowType
<1>11. ASSUME NEW r \in Requests, UpsertPlant(r) PROVE TypeOK'
  <2>1. [req[r] EXCEPT !.pc = "sync"] \in Request
    BY DEF TypeOK, Request, Steps
  <2> QED
    BY <1>2, <1>11, <2>1, RowType DEF UpsertPlant
<1>12. ASSUME NEW r \in Requests, SyncRead(r) PROVE TypeOK'
  <2> DEFINE row == [req[r] EXCEPT !.pc = "commit",
                                   !.existing = FacilitiesOf(req[r].plant)]
  <2>1. row \in Request
    BY DEF TypeOK, Request, Steps, FacilitiesOf
  <2>2. \/ RolledBack(r)
        \/ /\ req' = [req EXCEPT ![r] = row]
           /\ UNCHANGED <<plant, facility, access, now, day, serial>>
    BY <1>12 DEF SyncRead, TypeOK
  <2> HIDE DEF row
  <2> QED
    BY <1>1, <1>2, <2>1, <2>2, RowType
<1>13. ASSUME NEW r \in Requests, Commit(r) PROVE TypeOK'
  BY <1>13, CommitType
<1>14. CASE NewDay
  BY <1>2, <1>14 DEF NewDay, TypeOK
<1>15. CASE UNCHANGED vars
  BY <1>15 DEF vars, TypeOK
<1> QED
  BY <1>1, <1>6, <1>7, <1>8, <1>9, <1>10, <1>11, <1>12, <1>13, <1>14, <1>15
  DEF Next, Serve, Crash
-----------------------------------------------------------------------------
(* Steps that publish nothing                                              *)

\* What such a step leaves alone
Quiet ==
    /\ now <= now' /\ day <= day'
    /\ UNCHANGED <<plant, facility, access, serial>>

\* It keeps what holds of every request it does not touch; a claim that may be
\* taken over may be so later on as well.
LEMMA OthersQuiet ==
    ASSUME IInv, TypeOK', Quiet, NEW q \in Requests, req'[q] = req[q]
    PROVE  Fields(q)' /\ (serial => Ours(q)')
<1>1. Fields(q) /\ req[q] \in Request
  BY DEF IInv, TypeOK
<1>2. now \in Nat /\ now' \in Nat /\ day \in Nat /\ day' \in Nat
      /\ req[q].stamp \in Nat
  BY <1>1 DEF IInv, TypeOK, Request
<1>3. Fields(q)'
  BY <1>1, <1>2 DEF Quiet, Fields, Busy, Stamped, Saving, Exists, FacilitiesOf
<1>4. ASSUME serial PROVE Ours(q)'
  <2>1. Ours(q)
    BY <1>4 DEF IInv, InTurn
  <2>2. ASSUME req[q].pc = "claim" PROVE MayClaim(req[q].user, req[q].plant)'
    <3>1. MayClaim(req[q].user, req[q].plant) /\ req[q].plant \in Plants
      BY <1>1, <2>1, <2>2 DEF Ours, Fields, Busy
    <3>2. plant[req[q].plant].claimed \in Nat
      BY <3>1 DEF IInv, TypeOK, Plant
    <3> QED
      BY <1>2, <3>1, <3>2 DEF MayClaim, Stale, Quiet
  <2> QED
    BY <2>1, <2>2 DEF Quiet, Ours, Stamped, Saving, Exists, FacilitiesOf, Listed
<1> QED
  BY <1>3, <1>4

\* The tables keep their part of the invariant.
LEMMA TablesQuiet ==
    ASSUME IInv, TypeOK', Quiet
    PROVE  Tables' /\ (serial => AccessTight')
<1>1. now \in Nat /\ now' \in Nat /\ \A p \in Plants : plant[p].modified \in Nat
  BY DEF IInv, TypeOK, Plant
<1>2. Tables'
  BY <1>1 DEF IInv, Tables, Quiet, Exists
<1>3. serial => AccessTight'
  BY DEF IInv, InTurn, AccessTight, Quiet, Exists
<1> QED
  BY <1>2, <1>3

\* A step of r that publishes nothing keeps the invariant if r does its part.
LEMMA QuietStep ==
    ASSUME IInv, TypeOK', NEW r \in Requests, Quiet,
           \A q \in Requests \ {r} : req'[q] = req[q],
           Fields(r)',
           serial => /\ Ours(r)'
                     /\ \A q \in Requests \ {r} : Apart(q, r)' /\ Apart(r, q)'
    PROVE  IInv'
<1>1. ASSUME NEW q \in Requests PROVE Fields(q)' /\ (serial => Ours(q)')
  BY OthersQuiet
<1>2. ASSUME serial' PROVE InTurn'
  <2>1. serial /\ InTurn
    BY <1>2 DEF Quiet, IInv
  <2>2. ASSUME NEW q \in Requests, NEW s \in Requests, q # s
        PROVE  Apart(q, s)'
    <3>1. CASE q = r \/ s = r
      BY <2>1, <2>2, <3>1
    <3>2. CASE q # r /\ s # r
      <4>1. req'[q] = req[q] /\ req'[s] = req[s]
        BY <3>2
      <4>2. Apart(q, s)
        BY <2>1, <2>2 DEF InTurn
      <4> QED
        BY <4>1, <4>2 DEF Apart, Busy, Listed
    <3> QED
      BY <3>1, <3>2
  <2> QED
    BY <1>1, <2>1, <2>2, TablesQuiet DEF InTurn
<1> QED
  BY <1>1, <1>2, TablesQuiet DEF IInv

\* The step keeps the plant and the body of the request.
SameBody(r) ==
    /\ Busy(r)
    /\ req'[r].plant = req[r].plant
    /\ req'[r].device = req[r].device
    /\ req'[r].user = req[r].user
    /\ req'[r].live = req[r].live
    /\ req'[r].gone = req[r].gone
    /\ req'[r].base = req[r].base
    /\ req'[r].new = req[r].new

\* A step in the middle of a request
LEMMA MiddleStep ==
    ASSUME IInv, TypeOK', NEW r \in Requests, Quiet, SameBody(r),
           \A q \in Requests \ {r} : req'[q] = req[q],
           Fields(r)', serial => Ours(r)'
    PROVE  IInv'
<1>1. ASSUME serial, NEW q \in Requests \ {r} PROVE Apart(q, r)' /\ Apart(r, q)'
  <2>1. Apart(q, r) /\ Apart(r, q)
    BY <1>1 DEF IInv, InTurn
  <2>2. req'[q] = req[q]
    OBVIOUS
  <2> QED
    BY <2>1, <2>2 DEF Apart, SameBody, Busy, Listed
<1> QED
  BY <1>1, QuietStep

\* A slot that is free satisfies the invariant.
LEMMA FreeSlot ==
    ASSUME NEW r \in Requests, req'[r] = Idle
    PROVE  Fields(r)' /\ Ours(r)' /\ \A q \in Requests : Apart(q, r)' /\ Apart(r, q)'
<1>1. req'[r].pc = "idle"
  BY DEF Idle
<1> QED
  BY <1>1 DEF Fields, Ours, Apart, Busy, Stamped, Saving

\* A rollback keeps the invariant.
LEMMA RollbackStep ==
    ASSUME IInv, TypeOK', NEW r \in Requests, RolledBack(r)
    PROVE  IInv'
<1>1. req'[r] = Idle /\ \A q \in Requests \ {r} : req'[q] = req[q]
  BY DEF RolledBack, IInv, TypeOK
<1>2. Quiet
  BY DEF RolledBack, Quiet, IInv, TypeOK
<1> QED
  BY <1>1, <1>2, FreeSlot, QuietStep

\* A new day keeps the invariant.
LEMMA NewDayStep ==
    ASSUME IInv, TypeOK', NewDay
    PROVE  IInv'
<1>1. Quiet /\ req' = req
  BY DEF NewDay, Quiet, IInv, TypeOK
<1>2. \A q \in Requests : Fields(q)' /\ (serial => Ours(q)')
  BY <1>1, OthersQuiet
<1>3. serial => \A q, r \in Requests : q # r => Apart(q, r)'
  BY <1>1 DEF IInv, InTurn, Apart, Busy, Listed
<1>4. serial' = serial
  BY <1>1 DEF Quiet
<1> QED
  BY <1>1, <1>2, <1>3, <1>4, TablesQuiet DEF IInv, InTurn
\* A request that starts takes turns with those in flight.
LEMMA StartApart ==
    ASSUME NEW r \in Requests, NEW p \in Plants, NEW listed,
           Alone(r, p, listed), serial,
           req'[r].plant = p, Listed(r)' \subseteq listed,
           NEW q \in Requests \ {r}, req'[q] = req[q]
    PROVE  Apart(q, r)' /\ Apart(r, q)'
<1>1. Busy(q) => req[q].plant # p /\ Listed(q) \cap listed = {}
  BY DEF Alone
<1>2. Busy(q)' = Busy(q) /\ Listed(q)' = Listed(q)
  BY DEF Busy, Listed
<1> QED
  BY <1>1, <1>2 DEF Apart

\* claim: only for a plant that is there, and that may be claimed
LEMMA ClaimReadStep ==
    ASSUME IInv, TypeOK', NEW r \in Requests, NEW u \in Users, NEW d \in Devices,
           NEW p \in Plants, ClaimRead(r, u, d, p)
    PROVE  IInv'
<1>1. /\ req'[r].pc = "claim" /\ req'[r].plant = p /\ req'[r].user = u
      /\ req'[r].stamp = now /\ req'[r].live = {} /\ req'[r].gone = {}
      /\ \A q \in Requests \ {r} : req'[q] = req[q]
  BY DEF ClaimRead, IInv, TypeOK, Idle
<1>2. now \in Nat /\ now' = now + 1 /\ now >= 1 /\ now # Null /\ now < now'
  BY DEF ClaimRead, IInv, TypeOK, Tables, Null
<1>3. Quiet
  BY <1>2 DEF ClaimRead, Quiet, IInv, TypeOK
<1>4. Exists(p) /\ MayClaim(u, p) /\ Alone(r, p, {}) /\ day' = day
      /\ plant[p].modified < now
  BY DEF ClaimRead, IInv, Tables
<1>5. Fields(r)'
  BY <1>1, <1>2, <1>3, <1>4 DEF Fields, Busy, Stamped, Saving, Exists, Quiet
<1>6. MayClaim(u, p)'
  BY <1>3, <1>4 DEF MayClaim, Stale, Quiet
<1>7. Ours(r)'
  BY <1>1, <1>3, <1>4, <1>6 DEF Ours, Stamped, Saving, Quiet
<1>8. Listed(r)' = {}
  BY <1>1 DEF Listed
<1> QED
  BY <1>1, <1>3, <1>4, <1>5, <1>7, <1>8, StartApart, QuietStep

\* release: who has access to a plant has access to one that is there.
LEMMA ReleaseReadStep ==
    ASSUME IInv, TypeOK', NEW r \in Requests, NEW u \in Users, NEW p \in Plants,
           ReleaseRead(r, u, p)
    PROVE  IInv'
<1>1. /\ req'[r].pc = "release" /\ req'[r].plant = p
      /\ req'[r].stamp = now /\ req'[r].live = {} /\ req'[r].gone = {}
      /\ \A q \in Requests \ {r} : req'[q] = req[q]
  BY DEF ReleaseRead, IInv, TypeOK, Idle
<1>2. now \in Nat /\ now' = now + 1 /\ now >= 1 /\ now # Null /\ now < now'
  BY DEF ReleaseRead, IInv, TypeOK, Tables, Null
<1>3. Quiet
  BY <1>2 DEF ReleaseRead, Quiet, IInv, TypeOK
<1>4. Exists(p) /\ Alone(r, p, {}) /\ plant[p].modified < now
  BY DEF ReleaseRead, IInv, Tables
<1>5. Fields(r)'
  BY <1>1, <1>2, <1>3, <1>4 DEF Fields, Busy, Stamped, Saving, Exists, Quiet
<1>6. Ours(r)'
  BY <1>1, <1>3, <1>4 DEF Ours, Stamped, Saving, Quiet
<1>7. Listed(r)' = {}
  BY <1>1 DEF Listed
<1> QED
  BY <1>1, <1>3, <1>4, <1>5, <1>6, <1>7, StartApart, QuietStep

\* upsert_plant: a plant is new or there.
LEMMA SaveReadStep ==
    ASSUME IInv, TypeOK', NEW r \in Requests, NEW u \in Users, NEW d \in Devices,
           NEW p \in Plants, NEW live, NEW gone, NEW base, NEW force,
           SaveRead(r, u, d, p, live, gone, base, force)
    PROVE  IInv'
<1>1. /\ req'[r].pc = "owner" /\ req'[r].plant = p
      /\ req'[r].user = IF Exists(p) THEN Null ELSE u
      /\ req'[r].new = ~Exists(p)
      /\ req'[r].live = live /\ req'[r].gone = gone
      /\ \A q \in Requests \ {r} : req'[q] = req[q]
  BY DEF SaveRead, IInv, TypeOK, Idle
<1>2. Quiet
  BY DEF SaveRead, Quiet, IInv, TypeOK
<1>3. u # Null
  BY IdsAssumption
<1>4. Exists(p)' = Exists(p)
  BY <1>2 DEF Exists, Quiet
<1>5. Fields(r)'
  BY <1>1, <1>3, <1>4 DEF Fields, Busy, Stamped, Saving
<1>6. Ours(r)'
  BY <1>1, <1>4 DEF Ours, Stamped, Saving
<1>7. Alone(r, p, live \cup gone) /\ Listed(r)' = live \cup gone
  BY <1>1 DEF SaveRead, Listed
<1> QED
  BY <1>1, <1>2, <1>5, <1>6, <1>7, StartApart, QuietStep

\* A request that starts
LEMMA SendStep ==
    ASSUME IInv, TypeOK', NEW r \in Requests, Send(r)
    PROVE  IInv'
<1>1. PICK u \in Users, d \in Devices, p \in Plants :
        \/ ClaimRead(r, u, d, p)
        \/ ReleaseRead(r, u, p)
        \/ \E listed \in SUBSET Facilities : \E gone \in SUBSET listed :
           \E base \in {plant[p].modified} \cup 1..(plant[p].modified - 1) :
           \E force \in BOOLEAN :
               SaveRead(r, u, d, p, listed \ gone, gone, base, force)
  BY DEF Send
<1> QED
  BY <1>1, ClaimReadStep, ReleaseReadStep, SaveReadStep

\* validate_plant_ownership: from here on the device holds the claim.
LEMMA OwnerCheckStep ==
    ASSUME IInv, TypeOK', NEW r \in Requests, OwnerCheck(r)
    PROVE  IInv'
<1> DEFINE row == [req[r] EXCEPT !.pc = "check"]
<1>1. CASE RolledBack(r)
  BY <1>1, RollbackStep
<1>2. CASE /\ ~Exists(req[r].plant) \/ plant[req[r].plant].device = req[r].device
           /\ req' = [req EXCEPT ![r] = row]
           /\ UNCHANGED <<plant, facility, access, now, day, serial>>
  <2>1. req'[r] = row /\ req[r].pc = "owner" /\ req[r] \in Request
        /\ \A q \in Requests \ {r} : req'[q] = req[q]
    BY <1>2 DEF IInv, TypeOK, OwnerCheck
  <2>2. SameBody(r) /\ req'[r].pc = "check"
    BY <2>1 DEF SameBody, Busy, Request
  <2>3. Quiet
    BY <1>2 DEF Quiet, IInv, TypeOK
  <2> HIDE DEF row
  <2>4. Fields(r)'
    <3>1. Fields(r)
      BY DEF IInv
    <3> QED
      BY <2>1, <2>2, <2>3, <3>1
      DEF Fields, Busy, Stamped, Saving, SameBody, Quiet, Exists
  <2>5. ASSUME serial PROVE Ours(r)'
    <3>1. Ours(r)
      BY <2>5 DEF IInv, InTurn
    <3> QED
      BY <1>2, <2>1, <2>2, <2>3, <3>1
      DEF Ours, Stamped, Saving, SameBody, Quiet, Exists
  <2> QED
    BY <2>1, <2>2, <2>3, <2>4, <2>5, MiddleStep
<1> QED
  BY <1>1, <1>2 DEF OwnerCheck

\* The optimistic lock: version and facilities are what the client has seen.
LEMMA VersionCheckStep ==
    ASSUME IInv, TypeOK', NEW r \in Requests, VersionCheck(r)
    PROVE  IInv'
<1> DEFINE p == req[r].plant
           row == [req[r] EXCEPT !.pc = "upsert", !.stamp = now]
<1>1. CASE RolledBack(r)
  BY <1>1, RollbackStep
<1>2. CASE /\ Exists(p) /\ req[r].base # Null => ~Conflicts(p, req[r].base, Listed(r))
           /\ req' = [req EXCEPT ![r] = row]
           /\ now' = now + 1
           /\ UNCHANGED <<plant, facility, access, day, serial>>
  <2>1. req'[r] = row /\ req[r].pc = "check" /\ req[r] \in Request
        /\ \A q \in Requests \ {r} : req'[q] = req[q]
    BY <1>2 DEF IInv, TypeOK, VersionCheck
  <2>2. SameBody(r) /\ req'[r].pc = "upsert" /\ req'[r].stamp = now
    BY <2>1 DEF SameBody, Busy, Request
  <2>3. now \in Nat /\ now >= 1 /\ now' = now + 1 /\ now # Null /\ now < now'
    BY <1>2 DEF IInv, TypeOK, Tables, Null
  <2>4. Quiet
    BY <1>2, <2>3 DEF Quiet, IInv, TypeOK
  <2> HIDE DEF row
  <2>5. Fields(r) /\ p \in Plants
    BY <2>1 DEF IInv, Fields, Busy
  <2>6. Fields(r)'
    BY <2>1, <2>2, <2>3, <2>4, <2>5
    DEF Fields, Busy, Stamped, Saving, SameBody, Quiet, Exists
  <2>7. plant[p].modified < now
    BY <2>5 DEF IInv, Tables
  <2>8. req[r].base # Null =>
            /\ plant[p].modified \in {Null, req[r].base}
            /\ \A f \in FacilitiesOf(p) :
                   f \in Listed(r) \/ facility[f].deleted
    <3>1. CASE Exists(p)
      BY <1>2, <3>1 DEF Conflicts
    <3>2. CASE ~Exists(p)
      <4>1. \A f \in FacilitiesOf(p) : Exists(p)
        BY <2>5, IdsAssumption DEF FacilitiesOf, IInv, Tables
      <4> QED
        BY <3>2, <4>1 DEF Exists
    <3> QED
      BY <3>1, <3>2
  <2>9. ASSUME serial PROVE Ours(r)'
    <3>1. Ours(r)
      BY <2>9 DEF IInv, InTurn
    <3>2. Listed(r)' = Listed(r)
      BY <2>2 DEF SameBody, Listed
    <3> QED
      BY <2>1, <2>2, <2>4, <2>7, <2>8, <3>1, <3>2
      DEF Ours, Stamped, Saving, SameBody, Quiet, Exists, FacilitiesOf
  <2> QED
    BY <2>1, <2>2, <2>4, <2>6, <2>9, MiddleStep
<1> QED
  BY <1>1, <1>2 DEF VersionCheck, IInv, TypeOK

\* upsert_plant takes the lock.
LEMMA UpsertPlantStep ==
    ASSUME IInv, TypeOK', NEW r \in Requests, UpsertPlant(r)
    PROVE  IInv'
<1> DEFINE row == [req[r] EXCEPT !.pc = "sync"]
<1>1. req'[r] = row /\ req[r].pc = "upsert" /\ req[r] \in Request
      /\ \A q \in Requests \ {r} : req'[q] = req[q]
  BY DEF IInv, TypeOK, UpsertPlant
<1>2. SameBody(r) /\ req'[r].pc = "sync" /\ req'[r].stamp = req[r].stamp
  BY <1>1 DEF SameBody, Busy, Request
<1>3. Quiet /\ now' = now
  BY DEF Quiet, IInv, TypeOK, UpsertPlant
<1> HIDE DEF row
<1>4. Fields(r)'
  <2>1. Fields(r)
    BY DEF IInv
  <2> QED
    BY <1>1, <1>2, <1>3, <2>1
    DEF Fields, Busy, Stamped, Saving, SameBody, Quiet, Exists
<1>5. ASSUME serial PROVE Ours(r)'
  <2>1. Ours(r)
    BY <1>5 DEF IInv, InTurn
  <2>2. Listed(r)' = Listed(r)
    BY <1>2 DEF SameBody, Listed
  <2> QED
    BY <1>1, <1>2, <1>3, <2>1, <2>2
    DEF Ours, Stamped, Saving, SameBody, Quiet, Exists, FacilitiesOf
<1> QED
  BY <1>1, <1>2, <1>3, <1>4, <1>5, MiddleStep

\* _sync_facilities reads the facilities of the plant, and refuses those of
\* other plants.
LEMMA SyncReadStep ==
    ASSUME IInv, TypeOK', NEW r \in Requests, SyncRead(r)
    PROVE  IInv'
<1> DEFINE p == req[r].plant
           row == [req[r] EXCEPT !.pc = "commit", !.existing = FacilitiesOf(p)]
<1>1. CASE RolledBack(r)
  BY <1>1, RollbackStep
<1>2. CASE /\ \A f \in Listed(r) : facility[f].plant \in {Null, p}
           /\ req' = [req EXCEPT ![r] = row]
           /\ UNCHANGED <<plant, facility, access, now, day, serial>>
  <2>1. req'[r] = row /\ req[r].pc = "sync" /\ req[r] \in Request
        /\ \A q \in Requests \ {r} : req'[q] = req[q]
    BY <1>2 DEF IInv, TypeOK, SyncRead
  <2>2. SameBody(r) /\ req'[r].pc = "commit" /\ req'[r].stamp = req[r].stamp
        /\ req'[r].existing = FacilitiesOf(p)
    BY <2>1 DEF SameBody, Busy, Request
  <2>3. Quiet /\ now' = now
    BY <1>2 DEF Quiet, IInv, TypeOK
  <2> HIDE DEF row
  <2>4. FacilitiesOf(req[r].plant)' = FacilitiesOf(p)
    BY <2>2, <2>3 DEF FacilitiesOf, Quiet, SameBody
  <2>5. Fields(r)'
    <3>1. Fields(r)
      BY DEF IInv
    <3> QED
      BY <2>1, <2>2, <2>3, <2>4, <3>1
      DEF Fields, Busy, Stamped, Saving, SameBody, Quiet, Exists
  <2>6. ASSUME serial PROVE Ours(r)'
    <3>1. Ours(r)
      BY <2>6 DEF IInv, InTurn
    <3>2. Listed(r)' = Listed(r)
      BY <2>2 DEF SameBody, Listed
    <3> QED
      BY <1>2, <2>1, <2>2, <2>3, <3>1, <3>2
      DEF Ours, Stamped, Saving, SameBody, Quiet, Exists, FacilitiesOf
  <2> QED
    BY <2>1, <2>2, <2>3, <2>5, <2>6, MiddleStep
<1> QED
  BY <1>1, <1>2 DEF SyncRead, IInv, TypeOK
-----------------------------------------------------------------------------
(* Steps that publish                                                      *)

\* What such a step of r does: it ends the request, gives its plant the
\* version the request has taken, and leaves other plants and the facilities
\* of other plants alone.
Publish(r) ==
    LET p == req[r].plant IN
    /\ req'[r] = Idle /\ \A q \in Requests \ {r} : req'[q] = req[q]
    /\ plant'[p].modified = req[r].stamp
    /\ \A o \in Plants \ {p} : plant'[o] = plant[o] /\ access'[o] = access[o]
    /\ \A f \in Facilities :
           \/ facility'[f].plant = facility[f].plant
           \/ /\ facility[f].plant = Null /\ f \in Listed(r)
              /\ facility'[f].plant = p
    /\ serial => \A f \in Facilities :
                     facility'[f] # facility[f] => facility'[f].plant = p
    /\ UNCHANGED <<now, day, serial>>

\* What it leaves in the row of the plant
Shared(r) ==
    LET p == req[r].plant IN
    /\ plant'[p].creator # Null
    /\ Internal \cup {plant'[p].creator} \subseteq access'[p]
    /\ serial => access'[p] \subseteq Internal \cup {plant'[p].creator}

\* Plants do not disappear.
LEMMA PublishExists ==
    ASSUME IInv, NEW r \in Requests, Publish(r), Stamped(r)
    PROVE  /\ req[r].plant \in Plants /\ plant'[req[r].plant].modified # Null
           /\ \A o \in Plants : Exists(o) => Exists(o)'
<1>1. req[r].plant \in Plants /\ req[r].stamp # Null
  BY DEF IInv, Fields, Stamped, Busy
<1>2. plant'[req[r].plant].modified # Null
  BY <1>1 DEF Publish
<1>3. ASSUME NEW o \in Plants, Exists(o) PROVE Exists(o)'
  BY <1>2, <1>3 DEF Publish, Exists
<1> QED
  BY <1>1, <1>2, <1>3

\* The tables after the step
LEMMA PublishTables ==
    ASSUME IInv, TypeOK', NEW r \in Requests, Publish(r), Stamped(r), Shared(r)
    PROVE  Tables' /\ (serial => AccessTight')
<1> PICK p : p = req[r].plant
  OBVIOUS
<1>1. p \in Plants /\ req[r].stamp < now /\ Exists(p)'
      /\ \A o \in Plants : Exists(o) => Exists(o)'
  BY PublishExists DEF IInv, Fields, Exists
<1>2. now' >= 1
  BY DEF Publish, IInv, Tables
<1>3. \A o \in Plants : plant'[o].modified < now'
  BY <1>1 DEF Publish, IInv, Tables
<1>4. ASSUME NEW o \in Plants
      PROVE  /\ access'[o] # {} => Exists(o)'
             /\ Exists(o)' => /\ plant'[o].creator # Null
                              /\ Internal \cup {plant'[o].creator} \subseteq access'[o]
             /\ serial /\ Exists(o)' =>
                    access'[o] \subseteq Internal \cup {plant'[o].creator}
  <2>1. CASE o = p
    BY <1>1, <2>1 DEF Shared
  <2>2. CASE o # p
    <3>1. plant'[o] = plant[o] /\ access'[o] = access[o]
      BY <2>2 DEF Publish
    <3>2. Exists(o)' = Exists(o)
      BY <3>1 DEF Exists
    <3>3. /\ access[o] # {} => Exists(o)
          /\ Exists(o) => /\ plant[o].creator # Null
                          /\ Internal \cup {plant[o].creator} \subseteq access[o]
          /\ serial /\ Exists(o) => access[o] \subseteq Internal \cup {plant[o].creator}
      BY DEF IInv, Tables, InTurn, AccessTight
    <3> QED
      BY <3>1, <3>2, <3>3
  <2> QED
    BY <2>1, <2>2
<1>5. ASSUME NEW f \in Facilities, facility'[f].plant # Null
      PROVE  plant'[facility'[f].plant].modified # Null
  <2>1. CASE facility'[f].plant = p
    BY <1>1, <2>1 DEF Exists
  <2>2. CASE facility'[f].plant # p
    <3>1. facility'[f].plant = facility[f].plant
      BY <2>2 DEF Publish
    <3>2. facility'[f].plant \in Plants
      BY <1>5 DEF TypeOK, Facility
    <3>3. Exists(facility[f].plant)
      BY <1>5, <3>1 DEF IInv, Tables
    <3> QED
      BY <1>1, <3>1, <3>2, <3>3 DEF Exists
  <2> QED
    BY <2>1, <2>2
<1>6. Tables'
  BY <1>2, <1>3, <1>4, <1>5 DEF Tables, Exists
<1>7. serial => AccessTight'
  BY <1>4 DEF AccessTight
<1> QED
  BY <1>6, <1>7

\* Other requests keep what holds of them ...
LEMMA PublishFields ==
    ASSUME IInv, TypeOK', NEW r \in Requests, Publish(r), Stamped(r),
           NEW q \in Requests \ {r}
    PROVE  Fields(q)'
<1>1. req'[q] = req[q] /\ now' = now /\ Fields(q)
  BY DEF Publish, IInv
<1>2. Busy(q) => (Exists(req[q].plant) => plant'[req[q].plant].modified # Null)
  BY <1>1, PublishExists DEF Fields, Exists
<1>3. req[q].pc = "commit" => req[q].existing \subseteq FacilitiesOf(req[q].plant)'
  <2> SUFFICES ASSUME req[q].pc = "commit", NEW f \in req[q].existing
               PROVE  f \in Facilities /\ facility'[f].plant = req[q].plant
    BY <1>1 DEF FacilitiesOf
  <2>1. f \in Facilities /\ facility[f].plant = req[q].plant
        /\ req[q].plant \in Plants
    BY <1>1 DEF Fields, FacilitiesOf, Busy
  <2>2. req[q].plant # Null
    BY <2>1, IdsAssumption
  <2> QED
    BY <2>1, <2>2 DEF Publish
<1> QED
  BY <1>1, <1>2, <1>3 DEF Fields, Busy, Stamped, Saving, Exists

\* ... and, taking turns, what they have established about their plants.
LEMMA PublishOurs ==
    ASSUME IInv, TypeOK', NEW r \in Requests, Publish(r), Stamped(r), serial,
           NEW q \in Requests \ {r}
    PROVE  Ours(q)'
<1>1. CASE ~Busy(q)
  <2>1. req'[q].pc = "idle"
    BY <1>1 DEF Publish, Busy
  <2> QED
    BY <2>1 DEF Ours, Stamped, Saving
<1>2. CASE Busy(q)
  <2> PICK p : p = req[q].plant
    OBVIOUS
  <2>1. req'[q] = req[q] /\ day' = day
    BY DEF Publish
  <2>2. Ours(q) /\ p \in Plants /\ p # req[r].plant
        /\ Listed(q) \cap Listed(r) = {}
    BY <1>2 DEF IInv, InTurn, Fields, Apart, Busy, Stamped
  <2>3. plant'[p] = plant[p]
    BY <2>2 DEF Publish
  <2>4. p # Null
    BY <2>2, IdsAssumption
  <2>5. \A f \in Facilities : f \in FacilitiesOf(p)' =>
            f \in FacilitiesOf(p) /\ facility'[f] = facility[f]
    BY <2>1, <2>2, <2>4 DEF FacilitiesOf, Publish
  <2>6. Listed(q)' = Listed(q) /\ Listed(q) \subseteq Facilities
    BY <2>1 DEF Listed, IInv, TypeOK, Request
  <2>7. \A f \in Listed(q) : facility[f].plant \in {Null, p} =>
            facility'[f].plant \in {Null, p}
    BY <2>2, <2>6 DEF Publish
  <2>8. Exists(p)' = Exists(p) /\ MayClaim(req[q].user, p)' = MayClaim(req[q].user, p)
    BY <2>1, <2>3 DEF Exists, MayClaim, Stale
  <2>9. \A f \in FacilitiesOf(p)' : f \in Facilities
    BY DEF FacilitiesOf
  <2> QED
    <3>1. req[q].pc = "claim" => MayClaim(req[q].user, p)'
      BY <2>2, <2>8 DEF Ours
    <3>2. /\ Stamped(q) => plant'[p].modified < req[q].stamp
          /\ Saving(q) => (req[q].new <=> ~Exists(p)')
          /\ req[q].pc \in {"check", "upsert", "sync", "commit"} =>
                 ~Exists(p)' \/ plant'[p].device = req[q].device
      BY <2>2, <2>3, <2>8 DEF Ours
    <3>3. (req[q].pc \in {"upsert", "sync", "commit"} /\ req[q].base # Null) =>
              /\ plant'[p].modified \in {Null, req[q].base}
              /\ \A f \in FacilitiesOf(p)' : f \in Listed(q) \/ facility'[f].deleted
      BY <2>2, <2>3, <2>5, <2>9 DEF Ours
    <3>4. req[q].pc = "commit" =>
              /\ FacilitiesOf(p)' \subseteq req[q].existing
              /\ \A f \in Listed(q) : facility'[f].plant \in {Null, p}
      BY <2>2, <2>5, <2>7, <2>9 DEF Ours
    <3>5. Stamped(q)' = Stamped(q) /\ Saving(q)' = Saving(q)
      BY <2>1 DEF Stamped, Saving
    <3>6. req'[q].plant = p
      BY <2>1
    <3> QED
      BY <2>1, <2>6, <3>1, <3>2, <3>3, <3>4, <3>5, <3>6
      DEF Ours, MayClaim, Stale, Exists, FacilitiesOf
<1> QED
  BY <1>1, <1>2

\* A step that publishes keeps the invariant.
LEMMA PublishStep ==
    ASSUME IInv, TypeOK', NEW r \in Requests, Publish(r), Stamped(r), Shared(r)
    PROVE  IInv'
<1>1. req'[r] = Idle /\ serial' = serial
  BY DEF Publish
<1>2. \A q \in Requests : Fields(q)'
  BY <1>1, FreeSlot, PublishFields
<1>3. ASSUME serial PROVE InTurn'
  <2>1. \A q \in Requests : Ours(q)'
    BY <1>1, <1>3, FreeSlot, PublishOurs
  <2>2. ASSUME NEW q \in Requests, NEW s \in Requests, q # s PROVE Apart(q, s)'
    <3>1. CASE q = r \/ s = r
      BY <1>1, <3>1, FreeSlot
    <3>2. CASE q # r /\ s # r
      <4>1. req'[q] = req[q] /\ req'[s] = req[s]
        BY <3>2 DEF Publish
      <4>2. Apart(q, s)
        BY <1>3, <2>2 DEF IInv, InTurn
      <4> QED
        BY <4>1, <4>2 DEF Apart, Busy, Listed
    <3> QED
      BY <3>1, <3>2
  <2> QED
    BY <1>3, <2>1, <2>2, PublishTables DEF InTurn
<1> QED
  BY <1>1, <1>2, <1>3, PublishTables DEF IInv
\* The UPDATE of a claim writes the row of a plant that is there.
LEMMA ClaimWriteEffect ==
    ASSUME IInv, NEW r \in Requests, ClaimWrite(r)
    PROVE  /\ req[r].pc = "claim" /\ req[r].plant \in Plants /\ Exists(req[r].plant)
           /\ plant' = [plant EXCEPT ![req[r].plant] =
                         [@ EXCEPT !.device = req[r].device, !.user = req[r].user,
                                   !.claimed = req[r].day,
                                   !.modified = req[r].stamp]]
           /\ plant'[req[r].plant].modified = req[r].stamp
           /\ plant'[req[r].plant].creator = plant[req[r].plant].creator
           /\ plant'[req[r].plant].user = req[r].user
           /\ Publish(r) /\ Stamped(r) /\ Shared(r)
<1>1. req[r].pc = "claim" /\ req[r].plant \in Plants /\ Exists(req[r].plant)
  BY DEF IInv, Fields, Busy, ClaimWrite
<1>2. plant \in [Plants -> Plant] /\ plant[req[r].plant] \in Plant
  BY <1>1 DEF IInv, TypeOK
<1>3. plant' = [plant EXCEPT ![req[r].plant] =
                 [@ EXCEPT !.device = req[r].device, !.user = req[r].user,
                           !.claimed = req[r].day, !.modified = req[r].stamp]]
  BY DEF ClaimWrite
<1>4. /\ plant'[req[r].plant].modified = req[r].stamp
      /\ plant'[req[r].plant].creator = plant[req[r].plant].creator
      /\ plant'[req[r].plant].user = req[r].user
      /\ \A o \in Plants \ {req[r].plant} : plant'[o] = plant[o]
  BY <1>1, <1>2, <1>3 DEF Plant
<1>5. /\ req'[r] = Idle /\ \A q \in Requests \ {r} : req'[q] = req[q]
      /\ UNCHANGED <<facility, access, now, day, serial>>
  BY DEF ClaimWrite, IInv, TypeOK
<1>6. Publish(r)
  BY <1>4, <1>5 DEF Publish
<1>7. Shared(r)
  BY <1>1, <1>4, <1>5 DEF Shared, IInv, Tables, InTurn, AccessTight
<1>8. Stamped(r)
  BY <1>1 DEF Stamped
<1> QED
  BY <1>1, <1>3, <1>4, <1>6, <1>7, <1>8

\* So does the one of a release.
LEMMA ReleaseWriteEffect ==
    ASSUME IInv, NEW r \in Requests, ReleaseWrite(r)
    PROVE  /\ req[r].pc = "release" /\ req[r].plant \in Plants
           /\ plant'[req[r].plant].modified = req[r].stamp
           /\ plant'[req[r].plant].creator = plant[req[r].plant].creator
           /\ plant'[req[r].plant].user = Null
           /\ Publish(r) /\ Stamped(r) /\ Shared(r)
<1>1. req[r].pc = "release" /\ req[r].plant \in Plants /\ Exists(req[r].plant)
  BY DEF IInv, Fields, Busy, ReleaseWrite
<1>2. plant \in [Plants -> Plant] /\ plant[req[r].plant] \in Plant
  BY <1>1 DEF IInv, TypeOK
<1>3. plant' = [plant EXCEPT ![req[r].plant] =
                 [@ EXCEPT !.device = Null, !.user = Null, !.claimed = Null,
                           !.modified = req[r].stamp]]
  BY DEF ReleaseWrite
<1>4. /\ plant'[req[r].plant].modified = req[r].stamp
      /\ plant'[req[r].plant].creator = plant[req[r].plant].creator
      /\ plant'[req[r].plant].user = Null
      /\ \A o \in Plants \ {req[r].plant} : plant'[o] = plant[o]
  BY <1>1, <1>2, <1>3 DEF Plant
<1>5. /\ req'[r] = Idle /\ \A q \in Requests \ {r} : req'[q] = req[q]
      /\ UNCHANGED <<facility, access, now, day, serial>>
  BY DEF ReleaseWrite, IInv, TypeOK
<1>6. Publish(r)
  BY <1>4, <1>5 DEF Publish
<1>7. Shared(r)
  BY <1>1, <1>4, <1>5 DEF Shared, IInv, Tables, InTurn, AccessTight
<1>8. Stamped(r)
  BY <1>1 DEF Stamped
<1> QED
  BY <1>1, <1>4, <1>6, <1>7, <1>8

\* The commit of a save: an old row keeps creator and claim, a new one gets
\* its creator, who has access from then on; facilities stay with their plant.
LEMMA CommitEffect ==
    ASSUME IInv, NEW r \in Requests, Commit(r)
    PROVE  /\ req[r].pc = "commit" /\ req[r].plant \in Plants
           /\ plant'[req[r].plant].modified = req[r].stamp
           /\ Exists(req[r].plant) => plant'[req[r].plant].creator
                                      = plant[req[r].plant].creator
           /\ plant'[req[r].plant].user = plant[req[r].plant].user
           /\ \A f \in Facilities \ Listed(r) :
                  facility'[f] = facility[f] \/ f \in req[r].existing
           /\ Publish(r) /\ Stamped(r) /\ Shared(r)
<1> PICK p : p = req[r].plant
  OBVIOUS
<1>1. req[r].pc = "commit" /\ p \in Plants /\ req[r].stamp # Null /\ Fields(r)
  BY DEF IInv, Fields, Busy, Stamped, Commit
<1>2. plant \in [Plants -> Plant] /\ plant[p] \in Plant
  BY <1>1 DEF IInv, TypeOK
<1>3. plant' = [plant EXCEPT ![p] = UpsertedPlant(r)]
      /\ access' = [access EXCEPT ![p] = @ \cup Granted(r)]
  BY DEF Commit
<1>4. /\ UpsertedPlant(r).modified = req[r].stamp
      /\ UpsertedPlant(r).creator = IF Exists(p) THEN plant[p].creator
                                    ELSE req[r].user
      /\ UpsertedPlant(r).user = plant[p].user
  BY <1>2 DEF UpsertedPlant, Plant, Exists
<1>5. /\ plant'[p] = UpsertedPlant(r)
      /\ \A o \in Plants \ {p} : plant'[o] = plant[o] /\ access'[o] = access[o]
      /\ access'[p] = access[p] \cup Granted(r)
  BY <1>1, <1>2, <1>3 DEF IInv, TypeOK
<1>6. ASSUME NEW f \in Facilities
      PROVE  /\ \/ facility'[f].plant = facility[f].plant
                \/ /\ facility[f].plant = Null /\ f \in Listed(r)
                   /\ facility'[f].plant = p
             /\ serial /\ facility'[f] # facility[f] => facility'[f].plant = p
             /\ facility'[f] = facility[f] \/ f \in Listed(r) \cup req[r].existing
  <2>1. facility'[f] = IF f \in Listed(r) THEN UpsertedFacility(r, f)
                       ELSE IF f \in req[r].existing
                            THEN [facility[f] EXCEPT !.deleted = TRUE]
                            ELSE facility[f]
    BY DEF Commit
  <2>2. CASE f \in Listed(r)
    <3>1. facility'[f].plant = IF facility[f].plant = Null THEN p
                               ELSE facility[f].plant
      BY <2>1, <2>2 DEF UpsertedFacility
    <3>2. serial => facility[f].plant \in {Null, p}
      BY <1>1, <2>2 DEF IInv, InTurn, Ours
    <3> QED
      BY <2>2, <3>1, <3>2
  <2>3. CASE f \notin Listed(r) /\ f \in req[r].existing
    <3>1. facility[f].plant = p
      BY <1>1, <2>3 DEF Fields, FacilitiesOf
    <3>2. facility[f] \in Facility
      BY DEF IInv, TypeOK
    <3>3. facility'[f].plant = facility[f].plant
      BY <2>1, <2>3, <3>2 DEF Facility
    <3> QED
      BY <2>3, <3>1, <3>3
  <2>4. CASE f \notin Listed(r) /\ f \notin req[r].existing
    BY <2>1, <2>4
  <2> QED
    BY <2>2, <2>3, <2>4
<1>7. /\ req'[r] = Idle /\ \A q \in Requests \ {r} : req'[q] = req[q]
      /\ UNCHANGED <<now, day, serial>>
  BY DEF Commit, IInv, TypeOK
<1>8. Publish(r)
  BY <1>4, <1>5, <1>6, <1>7 DEF Publish
<1>9. Shared(r)
  <2>1. CASE Exists(p)
    <3>1. plant'[p].creator = plant[p].creator
      BY <1>4, <1>5, <2>1
    <3>2. plant[p].creator # Null /\ Internal \cup {plant[p].creator} \subseteq access[p]
      BY <1>1, <2>1 DEF IInv, Tables
    <3>3. ASSUME serial PROVE access'[p] \subseteq Internal \cup {plant[p].creator}
      <4>1. ~req[r].new
        BY <1>1, <2>1, <3>3 DEF IInv, InTurn, Ours, Saving
      <4>2. access'[p] = access[p]
        BY <1>5, <4>1 DEF Granted
      <4>3. access[p] \subseteq Internal \cup {plant[p].creator}
        BY <1>1, <2>1, <3>3 DEF IInv, InTurn, AccessTight
      <4> QED
        BY <4>2, <4>3
    <3> QED
      BY <1>5, <3>1, <3>2, <3>3 DEF Shared
  <2>2. CASE ~Exists(p)
    <3>1. req[r].new /\ req[r].user # Null
      BY <1>1, <2>2 DEF Fields, Saving
    <3>2. plant'[p].creator = req[r].user
      BY <1>4, <1>5, <2>2
    <3>3. access[p] = {}
      BY <1>1, <2>2 DEF IInv, Tables
    <3>4. access'[p] = Internal \cup {req[r].user}
      BY <1>5, <3>1, <3>3 DEF Granted
    <3> QED
      BY <3>1, <3>2, <3>4 DEF Shared
  <2> QED
    BY <2>1, <2>2
<1>10. Stamped(r)
  BY <1>1 DEF Stamped
<1> QED
  BY <1>1, <1>4, <1>5, <1>6, <1>8, <1>9, <1>10
-----------------------------------------------------------------------------
(* The theorems                                                            *)

\* The initial state satisfies the invariant.
LEMMA InitInvariant == Init => IInv
<1> SUFFICES ASSUME Init PROVE IInv
  OBVIOUS
<1>1. TypeOK
  BY IdleType DEF Init, TypeOK, Plant, Facility, NoPlant, NoFacility, Null
<1>2. \A r \in Requests : req[r] = Idle /\ req[r].pc = "idle"
  BY DEF Init, Idle
<1>3. \A r \in Requests : Fields(r) /\ Ours(r)
  BY <1>2 DEF Fields, Ours, Busy, Stamped, Saving
<1>4. \A q, r \in Requests : Apart(q, r)
  BY <1>2 DEF Apart, Busy
<1>5. Tables /\ AccessTight
  BY DEF Init, Tables, AccessTight, Exists, NoPlant, NoFacility, Null
<1> QED
  BY <1>1, <1>3, <1>4, <1>5 DEF IInv, InTurn

\* Every step keeps the invariant.
LEMMA NextInvariant == IInv /\ [Next]_vars => IInv'
<1> SUFFICES ASSUME IInv, [Next]_vars PROVE IInv'
  OBVIOUS
<1>1. TypeOK'
  BY TypeStep
<1>2. CASE NewDay
  BY <1>1, <1>2, NewDayStep
<1>3. ASSUME NEW r \in Requests, Send(r) PROVE IInv'
  BY <1>1, <1>3, SendStep
<1>4. ASSUME NEW r \in Requests, Serve(r) PROVE IInv'
  <2>1. CASE ClaimWrite(r)
    BY <1>1, <2>1, ClaimWriteEffect, PublishStep
  <2>2. CASE ReleaseWrite(r)
    BY <1>1, <2>2, ReleaseWriteEffect, PublishStep
  <2>3. CASE OwnerCheck(r)
    BY <1>1, <2>3, OwnerCheckStep
  <2>4. CASE VersionCheck(r)
    BY <1>1, <2>4, VersionCheckStep
  <2>5. CASE UpsertPlant(r)
    BY <1>1, <2>5, UpsertPlantStep
  <2>6. CASE SyncRead(r)
    BY <1>1, <2>6, SyncReadStep
  <2>7. CASE Commit(r)
    BY <1>1, <2>7, CommitEffect, PublishStep
  <2> QED
    BY <1>4, <2>1, <2>2, <2>3, <2>4, <2>5, <2>6, <2>7 DEF Serve
<1>5. ASSUME NEW r \in Requests, Crash(r) PROVE IInv'
  BY <1>1, <1>5, RollbackStep DEF Crash
<1>6. CASE UNCHANGED vars
  <2>1. Quiet /\ req' = req
    BY <1>6 DEF vars, Quiet, IInv, TypeOK
  <2>2. \A q \in Requests : Fields(q)' /\ (serial => Ours(q)')
    BY <1>1, <2>1, OthersQuiet
  <2>3. serial => \A q, r \in Requests : q # r => Apart(q, r)'
    BY <2>1 DEF IInv, InTurn, Apart, Busy, Listed
  <2>4. serial' = serial
    BY <2>1 DEF Quiet
  <2> QED
    BY <1>1, <2>1, <2>2, <2>3, <2>4, TablesQuiet DEF IInv, InTurn
<1> QED
  BY <1>2, <1>3, <1>4, <1>5, <1>6 DEF Next

\* The inductive invariant holds throughout.
THEOREM Invariant == Spec => []IInv
BY InitInvariant, NextInvariant, PTL DEF Spec

\* Every variable has its type; in particular only users ever have access.
THEOREM TypeCorrect == Spec => []TypeOK
<1>1. IInv => TypeOK
  BY DEF IInv
<1> QED
  BY <1>1, Invariant, PTL

\* Creator and internal inspectors have access from the moment a plant is
\* there, also if several clients create it at once; with turns nobody else.
THEOREM AccessGranted == Spec => []AccessFollowsCreation
<1>1. IInv => AccessFollowsCreation
  BY DEF IInv, Tables, InTurn, AccessTight, AccessFollowsCreation
<1> QED
  BY <1>1, Invariant, PTL
\* A step either leaves the tables alone, or is a claim, a release or a
\* commit, which publishes.
LEMMA StepKinds ==
    ASSUME IInv, [Next]_vars
    PROVE  \/ UNCHANGED <<plant, facility, access>>
           \/ \E r \in Requests :
                  /\ ClaimWrite(r) \/ ReleaseWrite(r) \/ Commit(r)
                  /\ Publish(r) /\ Stamped(r)
<1>1. CASE NewDay
  BY <1>1 DEF NewDay
<1>2. ASSUME NEW r \in Requests, Send(r)
      PROVE  UNCHANGED <<plant, facility, access>>
  <2>1. PICK u \in Users, d \in Devices, p \in Plants :
          \/ ClaimRead(r, u, d, p)
          \/ ReleaseRead(r, u, p)
          \/ \E live, gone, base, force : SaveRead(r, u, d, p, live, gone, base, force)
    BY <1>2 DEF Send
  <2> QED
    BY <2>1 DEF ClaimRead, ReleaseRead, SaveRead
<1>3. ASSUME NEW r \in Requests,
             \/ OwnerCheck(r) \/ VersionCheck(r) \/ UpsertPlant(r)
             \/ SyncRead(r) \/ Crash(r)
      PROVE  UNCHANGED <<plant, facility, access>>
  BY <1>3 DEF OwnerCheck, VersionCheck, UpsertPlant, SyncRead, Crash, RolledBack
<1>4. ASSUME NEW r \in Requests,
             ClaimWrite(r) \/ ReleaseWrite(r) \/ Commit(r)
      PROVE  Publish(r) /\ Stamped(r)
  BY <1>4, ClaimWriteEffect, ReleaseWriteEffect, CommitEffect
<1> QED
  BY <1>1, <1>2, <1>3, <1>4 DEF Next, Serve, vars

\* The creator of a plant stays, and a facility stays with its plant, for any
\* number of clients that create them at the same time.
THEOREM OriginsKept == Spec => OriginsStay
<1> DEFINE A == /\ \A p \in Plants : Exists(p) =>
                       plant'[p].creator = plant[p].creator
                /\ \A f \in Facilities : facility[f].plant # Null =>
                       facility'[f].plant = facility[f].plant
<1>1. ASSUME IInv, [Next]_vars, NEW p \in Plants, Exists(p)
      PROVE  plant'[p].creator = plant[p].creator
  <2>1. ASSUME NEW r \in Requests, Publish(r),
               ClaimWrite(r) \/ ReleaseWrite(r) \/ Commit(r)
        PROVE  plant'[p].creator = plant[p].creator
    <3>1. CASE p = req[r].plant
      BY <1>1, <2>1, <3>1, ClaimWriteEffect, ReleaseWriteEffect, CommitEffect
    <3>2. CASE p # req[r].plant
      BY <2>1, <3>2 DEF Publish
    <3> QED
      BY <3>1, <3>2
  <2> QED
    BY <1>1, <2>1, StepKinds
<1>2. ASSUME IInv, [Next]_vars, NEW f \in Facilities, facility[f].plant # Null
      PROVE  facility'[f].plant = facility[f].plant
  BY <1>2, StepKinds DEF Publish
<1>3. IInv /\ [Next]_vars => A
  BY <1>1, <1>2
<1>4. [][A]_vars <=> OriginsStay
  BY DEF A, OriginsStay
<1> HIDE DEF A
<1>5. IInv /\ [Next]_vars => [A]_vars
  BY <1>3
<1> QED
  BY <1>4, <1>5, Invariant, PTL DEF Spec

\* Taking turns, nobody takes over a claim that is not stale: what claim has
\* read of the plant is still so when claim_plant runs.
THEOREM ClaimRespected == Spec => ClaimExclusive
<1> DEFINE A == serial => ClaimKept
<1>1. ASSUME IInv, [Next]_vars PROVE A
  <2> SUFFICES ASSUME serial, NEW p \in Plants, plant[p].user # Null,
                      plant'[p].user \notin {Null, plant[p].user}
               PROVE  plant[p].claimed < day
    BY DEF ClaimKept
  <2>1. PICK r \in Requests :
            /\ ClaimWrite(r) \/ ReleaseWrite(r) \/ Commit(r)
            /\ Publish(r)
    BY <1>1, StepKinds
  <2>2. p = req[r].plant
    BY <2>1 DEF Publish
  <2>3. ClaimWrite(r)
    BY <1>1, <2>1, <2>2, ReleaseWriteEffect, CommitEffect
  <2>4. plant'[p].user = req[r].user /\ req[r].pc = "claim"
    BY <1>1, <2>2, <2>3, ClaimWriteEffect
  <2>5. MayClaim(req[r].user, p)
    BY <1>1, <2>2, <2>4 DEF IInv, InTurn, Ours
  <2> QED
    BY <2>4, <2>5 DEF MayClaim, Stale
<1> HIDE DEF A
<1>2. IInv /\ [Next]_vars => [A]_vars
  BY <1>1
<1>3. [][A]_vars <=> ClaimExclusive
  BY DEF A, ClaimExclusive
<1> QED
  BY <1>2, <1>3, Invariant, PTL DEF Spec

\* Taking turns, the device that changes a plant holds its claim when the
\* change is published.
THEOREM ClaimantSaves == Spec => OnlyClaimantSaves
<1> DEFINE A == serial => \A r \in Requests : Commit(r) =>
           ~Exists(req[r].plant) \/ plant[req[r].plant].device = req[r].device
<1>1. ASSUME IInv PROVE A
  <2> SUFFICES ASSUME serial, NEW r \in Requests, Commit(r)
               PROVE  ~Exists(req[r].plant)
                      \/ plant[req[r].plant].device = req[r].device
    OBVIOUS
  <2>1. Ours(r) /\ req[r].pc = "commit"
    BY <1>1 DEF IInv, InTurn, Commit
  <2> QED
    BY <2>1 DEF Ours
<1> HIDE DEF A
<1>2. IInv /\ [Next]_vars => [A]_vars
  BY <1>1
<1>3. [][A]_vars <=> OnlyClaimantSaves
  BY DEF A, OnlyClaimantSaves
<1> QED
  BY <1>2, <1>3, Invariant, PTL DEF Spec

\* Taking turns, an unforced save overwrites only the version its client had
\* and deletes no facility its client has not listed.
THEOREM UnseenKept == Spec => NothingLost
<1> DEFINE A == serial => \A r \in Requests : (Commit(r) /\ req[r].base # Null) =>
           /\ plant[req[r].plant].modified \in {Null, req[r].base}
           /\ \A f \in Facilities \ Listed(r) : facility'[f] = facility[f]
                                                \/ facility[f].deleted
<1>1. ASSUME IInv PROVE A
  <2> SUFFICES ASSUME serial, NEW r \in Requests, Commit(r), req[r].base # Null
               PROVE  /\ plant[req[r].plant].modified \in {Null, req[r].base}
                      /\ \A f \in Facilities \ Listed(r) :
                             facility'[f] = facility[f] \/ facility[f].deleted
    OBVIOUS
  <2>1. Ours(r) /\ Fields(r) /\ req[r].pc = "commit"
    BY <1>1 DEF IInv, InTurn, Commit
  <2>2. ASSUME NEW f \in Facilities \ Listed(r)
        PROVE  facility'[f] = facility[f] \/ facility[f].deleted
    <3>1. facility'[f] = facility[f] \/ f \in req[r].existing
      BY <1>1, CommitEffect
    <3>2. f \in req[r].existing => f \in FacilitiesOf(req[r].plant)
      BY <2>1 DEF Fields
    <3> QED
      BY <2>1, <3>1, <3>2 DEF Ours
  <2> QED
    BY <2>1, <2>2 DEF Ours
<1> HIDE DEF A
<1>2. IInv /\ [Next]_vars => [A]_vars
  BY <1>1
<1>3. [][A]_vars <=> NothingLost
  BY DEF A, NothingLost
<1> QED
  BY <1>2, <1>3, Invariant, PTL DEF Spec

\* Taking turns, whatever changes in a plant gives it a later version.
THEOREM VersionsGrow == Spec => ChangesVersioned
<1> DEFINE A == serial => \A p \in Plants :
           (plant'[p] # plant[p]
            \/ \E f \in FacilitiesOf(p) : facility'[f] # facility[f]) =>
               plant'[p].modified > plant[p].modified
<1>1. ASSUME IInv, [Next]_vars PROVE A
  <2> SUFFICES ASSUME serial, NEW p \in Plants,
                      \/ plant'[p] # plant[p]
                      \/ \E f \in FacilitiesOf(p) : facility'[f] # facility[f]
               PROVE  plant'[p].modified > plant[p].modified
    OBVIOUS
  <2>1. PICK r \in Requests : Publish(r) /\ Stamped(r)
    BY <1>1, StepKinds
  <2>2. p = req[r].plant
    <3>1. ASSUME NEW f \in FacilitiesOf(p), facility'[f] # facility[f]
          PROVE  p = req[r].plant
      <4>1. f \in Facilities /\ facility[f].plant = p /\ p # Null
        BY IdsAssumption DEF FacilitiesOf
      <4> QED
        BY <2>1, <3>1, <4>1 DEF Publish
    <3>2. ASSUME plant'[p] # plant[p] PROVE p = req[r].plant
      BY <2>1, <3>2 DEF Publish
    <3> QED
      BY <3>1, <3>2
  <2>3. plant'[p].modified = req[r].stamp
    BY <2>1, <2>2 DEF Publish
  <2>4. plant[p].modified < req[r].stamp
    BY <1>1, <2>1, <2>2 DEF IInv, InTurn, Ours
  <2>5. plant[p].modified \in Nat /\ req[r].stamp \in Nat
    BY <1>1 DEF IInv, TypeOK, Plant, Request
  <2> QED
    BY <2>3, <2>4, <2>5
<1> HIDE DEF A
<1>2. IInv /\ [Next]_vars => [A]_vars
  BY <1>1
<1>3. [][A]_vars <=> ChangesVersioned
  BY DEF A, ChangesVersioned
<1> QED
  BY <1>2, <1>3, Invariant, PTL DEF Spec
-----------------------------------------------------------------------------
(* The register                                                            *)

\* The tables and requests as the register sees them
Version == [p \in Plants |-> plant[p].modified]
Holder == [p \in Plants |-> [user |-> plant[p].user,
                             device |-> plant[p].device,
                             day |-> plant[p].claimed]]
Owner == [f \in Facilities |-> facility[f].plant]
LiveFacilities == {f \in Facilities : facility[f].plant # Null
                                      /\ ~facility[f].deleted}
Asked == [r \in Requests |-> Pending(r)]

\* A request that is done or not yet put waits for nothing, others for
\* something.
LEMMA BusyAsks ==
    ASSUME NEW r \in Requests
    PROVE  /\ Pending(r).op = "idle" <=> ~Busy(r)
           /\ req[r] = Idle => Pending(r) = Register!Nothing
<1>1. Register!Nothing.op = "idle"
  BY DEF Register!Nothing
<1>2. ("create" # "idle") /\ ("save" # "idle")
  OBVIOUS
<1>3. Pending(r).op = "idle" <=> ~Busy(r)
  BY <1>2 DEF Pending, Busy
<1>4. req[r] = Idle => Pending(r) = Register!Nothing
  BY DEF Pending, Idle, Register!Nothing, Null
<1> QED
  BY <1>3, <1>4

\* A step of r changes only what the client of r waits for.
LEMMA OneAsks ==
    ASSUME IInv, NEW r \in Requests, NEW x, req' = [req EXCEPT ![r] = x]
    PROVE  req'[r] = x /\ Asked' = [Asked EXCEPT ![r] = Pending(r)']
<1>1. req'[r] = x /\ \A q \in Requests \ {r} : req'[q] = req[q]
  BY DEF IInv, TypeOK
<1>2. \A q \in Requests \ {r} : Pending(q)' = Pending(q)
  BY <1>1 DEF Pending
<1> QED
  BY <1>1, <1>2 DEF Asked


\* What the register shows besides the requests
Shown == <<Version, Holder, access, Owner, LiveFacilities, day>>

\* A question that is put
LEMMA AskStep ==
    ASSUME IInv, NEW r \in Requests, ~Busy(r), NEW x,
           req' = [req EXCEPT ![r] = x],
           UNCHANGED <<plant, facility, access, day>>
    PROVE  /\ Asked[r] = Register!Nothing
           /\ Asked' = [Asked EXCEPT ![r] = Pending(r)']
           /\ req'[r] = x
           /\ UNCHANGED Shown
<1>1. req[r] = Idle
  BY DEF IInv, Fields
<1>2. Asked[r] = Register!Nothing
  BY <1>1, BusyAsks DEF Asked
<1>3. UNCHANGED Shown
  BY DEF Shown, Version, Holder, Owner, LiveFacilities
<1> QED
  BY <1>2, <1>3, OneAsks

\* claim asks for the plant.
LEMMA ClaimAsks ==
    ASSUME IInv, NEW r \in Requests, NEW u \in Users, NEW d \in Devices,
           NEW p \in Plants, ClaimRead(r, u, d, p)
    PROVE  Register!Ask(r)
<1> DEFINE x == [Idle EXCEPT !.pc = "claim", !.user = u, !.device = d,
                             !.plant = p, !.stamp = now, !.day = day]
           q == [Register!Nothing EXCEPT !.op = "claim", !.plant = p, !.user = u,
                                         !.device = d, !.day = day]
<1>1. ~Busy(r) /\ req' = [req EXCEPT ![r] = x] /\ u \in access[p]
      /\ UNCHANGED <<plant, facility, access, day>>
  BY DEF ClaimRead
<1>2. x.pc = "claim" /\ x.plant = p /\ x.user = u /\ x.device = d /\ x.day = day
      /\ x.live = {} /\ x.gone = {} /\ x.base = 0
  BY DEF Idle, Null
<1>3. q = [op |-> "claim", plant |-> p, user |-> u, device |-> d, day |-> day,
           live |-> {}, gone |-> {}, base |-> 0]
  <2>1. q \in [op : {"claim"}, plant : {p}, user : {u}, device : {d},
               day : {day}, live : {{}}, gone : {{}}, base : {0}]
    BY DEF Register!Nothing
  <2> HIDE DEF q
  <2> QED
    BY <2>1
<1> HIDE DEF x
<1>4. Asked[r] = Register!Nothing /\ UNCHANGED Shown /\ req'[r] = x
      /\ Asked' = [Asked EXCEPT ![r] = Pending(r)']
  BY <1>1, AskStep
<1>5. Pending(r)' = q
  BY <1>2, <1>3, <1>4 DEF Pending
<1>6. Register!Asked(r, q)
  BY <1>4, <1>5 DEF Register!Asked, Shown, Version, Holder, Owner,
     LiveFacilities, Asked
<1>7. Register!AskClaim(r)
  BY <1>1, <1>6 DEF Register!AskClaim
<1> QED
  BY <1>4, <1>7 DEF Register!Ask, Asked

\* release asks for the plant to be free.
LEMMA ReleaseAsks ==
    ASSUME IInv, NEW r \in Requests, NEW u \in Users, NEW p \in Plants,
           ReleaseRead(r, u, p)
    PROVE  Register!Ask(r)
<1> DEFINE x == [Idle EXCEPT !.pc = "release", !.plant = p, !.stamp = now]
           q == [Register!Nothing EXCEPT !.op = "release", !.plant = p]
<1>1. ~Busy(r) /\ req' = [req EXCEPT ![r] = x] /\ access[p] # {}
      /\ UNCHANGED <<plant, facility, access, day>>
  BY DEF ReleaseRead
<1>2. x.pc = "release" /\ x.plant = p /\ x.user = 0 /\ x.device = 0 /\ x.day = 0
      /\ x.live = {} /\ x.gone = {} /\ x.base = 0
  BY DEF Idle, Null
<1>3. q = [op |-> "release", plant |-> p, user |-> 0, device |-> 0, day |-> 0,
           live |-> {}, gone |-> {}, base |-> 0]
  <2>1. q \in [op : {"release"}, plant : {p}, user : {0}, device : {0},
               day : {0}, live : {{}}, gone : {{}}, base : {0}]
    BY DEF Register!Nothing
  <2> HIDE DEF q
  <2> QED
    BY <2>1
<1> HIDE DEF x
<1>4. Asked[r] = Register!Nothing /\ UNCHANGED Shown /\ req'[r] = x
      /\ Asked' = [Asked EXCEPT ![r] = Pending(r)']
  BY <1>1, AskStep
<1>5. Pending(r)' = q
  BY <1>2, <1>3, <1>4 DEF Pending
<1>6. Register!Asked(r, q)
  BY <1>4, <1>5 DEF Register!Asked, Shown, Version, Holder, Owner,
     LiveFacilities, Asked
<1>7. Register!AskRelease(r)
  BY <1>1, <1>6 DEF Register!AskRelease
<1> QED
  BY <1>4, <1>7 DEF Register!Ask, Asked

\* PUT asks for a plant to be created, or to be replaced.
LEMMA SaveAsks ==
    ASSUME IInv, NEW r \in Requests, NEW u \in Users, NEW d \in Devices,
           NEW p \in Plants, NEW keep \in SUBSET Facilities,
           NEW gone \in SUBSET Facilities,
           NEW base \in 0..plant[p].modified, NEW force \in BOOLEAN,
           SaveRead(r, u, d, p, keep, gone, base, force)
    PROVE  Register!Ask(r)
<1> DEFINE b == IF force THEN Null ELSE base
           x == [Idle EXCEPT !.pc = "owner", !.device = d, !.plant = p,
                             !.user = IF Exists(p) THEN Null ELSE u,
                             !.live = keep, !.gone = gone, !.base = b,
                             !.new = ~Exists(p)]
<1>1. ~Busy(r) /\ req' = [req EXCEPT ![r] = x]
      /\ (Exists(p) => access[p] # {})
      /\ UNCHANGED <<plant, facility, access, day>>
  BY DEF SaveRead
<1>2. /\ x.pc = "owner" /\ x.plant = p /\ x.device = d /\ x.day = 0
      /\ x.user = (IF Exists(p) THEN 0 ELSE u) /\ x.new = ~Exists(p)
      /\ x.live = keep /\ x.gone = gone /\ x.base = b
  BY DEF Idle, Null
<1>3. plant[p].modified \in Nat /\ b \in 0..plant[p].modified
  <2>1. plant[p].modified \in Nat
    BY DEF IInv, TypeOK, Plant
  <2> QED
    BY <2>1 DEF Null
<1>4. Version[p] = plant[p].modified /\ (Exists(p) <=> Version[p] # 0)
  BY DEF Version, Exists, Null
<1> HIDE DEF x, b
<1>5. Asked[r] = Register!Nothing /\ UNCHANGED Shown /\ req'[r] = x
      /\ Asked' = [Asked EXCEPT ![r] = Pending(r)']
  BY <1>1, AskStep
<1>6. CASE ~Exists(p)
  <2> DEFINE q == [Register!Nothing EXCEPT
                     !.op = "create", !.plant = p, !.user = u, !.device = d,
                     !.live = keep, !.gone = gone]
  <2>1. b = 0
    BY <1>3, <1>4, <1>6
  <2>2. q = [op |-> "create", plant |-> p, user |-> u, device |-> d, day |-> 0,
             live |-> keep, gone |-> gone, base |-> 0]
    <3>1. q \in [op : {"create"}, plant : {p}, user : {u}, device : {d},
                 day : {0}, live : {keep}, gone : {gone}, base : {0}]
      BY DEF Register!Nothing
    <3> HIDE DEF q
    <3> QED
      BY <3>1
  <2>3. Pending(r)' = q
    BY <1>2, <1>5, <1>6, <2>1, <2>2 DEF Pending
  <2>4. Register!Asked(r, q)
    BY <1>5, <2>3 DEF Register!Asked, Shown, Version, Holder, Owner,
       LiveFacilities, Asked
  <2>5. Register!AskCreate(r)
    BY <1>4, <1>6, <2>4 DEF Register!AskCreate, Version
  <2> QED
    BY <1>5, <2>5 DEF Register!Ask, Asked
<1>7. CASE Exists(p)
  <2> DEFINE q == [Register!Nothing EXCEPT
                     !.op = "save", !.plant = p, !.device = d,
                     !.live = keep, !.gone = gone, !.base = b]
  <2>1. q = [op |-> "save", plant |-> p, user |-> 0, device |-> d, day |-> 0,
             live |-> keep, gone |-> gone, base |-> b]
    <3>1. q \in [op : {"save"}, plant : {p}, user : {0}, device : {d},
                 day : {0}, live : {keep}, gone : {gone}, base : {b}]
      BY DEF Register!Nothing
    <3> HIDE DEF q
    <3> QED
      BY <3>1
  <2>2. Pending(r)' = q
    BY <1>2, <1>5, <1>7, <2>1 DEF Pending
  <2>3. Register!Asked(r, q)
    BY <1>5, <2>2 DEF Register!Asked, Shown, Version, Holder, Owner,
       LiveFacilities, Asked
  <2>4. b \in 0..Version[p]
    BY <1>3, <1>4
  <2>5. Register!AskSave(r)
    BY <1>1, <1>7, <2>3, <2>4 DEF Register!AskSave, Version
  <2> QED
    BY <1>5, <2>5 DEF Register!Ask, Asked
<1> QED
  BY <1>6, <1>7

\* A request that is refused or fails
LEMMA Dropped ==
    ASSUME IInv, NEW r \in Requests, Busy(r), RolledBack(r)
    PROVE  Register!Drop(r)
<1>1. req' = [req EXCEPT ![r] = Idle]
      /\ UNCHANGED <<plant, facility, access, day>>
  BY DEF RolledBack
<1>2. req'[r] = Idle /\ Asked' = [Asked EXCEPT ![r] = Pending(r)']
  BY <1>1, OneAsks
<1>3. Pending(r)' = Register!Nothing
  BY <1>2 DEF Pending, Idle, Register!Nothing, Null
<1>4. Asked[r] # Register!Nothing
  <2>1. Pending(r).op # "idle"
    BY BusyAsks
  <2>2. Register!Nothing.op = "idle"
    BY DEF Register!Nothing
  <2> QED
    BY <2>1, <2>2 DEF Asked
<1> QED
  BY <1>1, <1>2, <1>3, <1>4
  DEF Register!Drop, Asked, Version, Holder, Owner, LiveFacilities

\* A step that publishes is what its client waits for, at a later version.
LEMMA DoneStep ==
    ASSUME IInv, serial, NEW r \in Requests, Publish(r), Stamped(r),
           req' = [req EXCEPT ![r] = Idle], NEW op, Pending(r).op = op
    PROVE  Register!Done(r, op)
<1> PICK p : p = req[r].plant
  OBVIOUS
<1>1. p \in Plants /\ Asked[r].plant = p /\ Asked[r].op = op
  BY DEF IInv, Fields, Busy, Stamped, Asked, Pending
<1>2. plant[p].modified < req[r].stamp
  BY DEF IInv, InTurn, Ours
<1>3. plant[p].modified \in Nat /\ req[r].stamp \in Nat
  BY <1>1 DEF IInv, TypeOK, Plant, Request
<1>4. /\ Version'[p] = req[r].stamp /\ Version[p] = plant[p].modified
      /\ \A o \in Plants \ {p} : Version'[o] = Version[o]
  BY <1>1 DEF Publish, Version
<1>5. Version' = [Version EXCEPT ![p] = Version'[p]]
  BY <1>4 DEF Version
<1>6. Version'[p] > Version[p]
  BY <1>2, <1>3, <1>4
<1>7. Asked' = [Asked EXCEPT ![r] = Register!Nothing]
  <2>1. req'[r] = Idle /\ Asked' = [Asked EXCEPT ![r] = Pending(r)']
    BY OneAsks
  <2>2. Pending(r)' = Register!Nothing
    BY <2>1 DEF Pending, Idle, Register!Nothing, Null
  <2> QED
    BY <2>1, <2>2
<1>8. day' = day
  BY DEF Publish
<1>9. (/\ Asked[r].op = op
       /\ Version'[Asked[r].plant] > Version[Asked[r].plant]
       /\ Version' = [Version EXCEPT ![Asked[r].plant] = Version'[Asked[r].plant]]
       /\ Asked' = [Asked EXCEPT ![r] = Register!Nothing]
       /\ UNCHANGED day) => Register!Done(r, op)
  BY DEF Register!Done, Version, Asked
<1> QED
  BY <1>1, <1>5, <1>6, <1>7, <1>8, <1>9

\* claim_plant is a claim: what claim has read is still so.
LEMMA Claimed ==
    ASSUME IInv, serial, NEW r \in Requests, ClaimWrite(r)
    PROVE  Register!Claim(r)
<1> PICK p : p = req[r].plant
  OBVIOUS
<1>1. /\ req[r].pc = "claim" /\ p \in Plants /\ Publish(r) /\ Stamped(r)
      /\ plant' = [plant EXCEPT ![p] =
                    [@ EXCEPT !.device = req[r].device, !.user = req[r].user,
                              !.claimed = req[r].day, !.modified = req[r].stamp]]
  BY ClaimWriteEffect
<1>2. req' = [req EXCEPT ![r] = Idle] /\ UNCHANGED <<facility, access>>
  BY DEF ClaimWrite
<1>3. Asked[r].plant = p /\ Asked[r].user = req[r].user /\ Asked[r].day = req[r].day
      /\ Asked[r].device = req[r].device /\ Pending(r).op = "claim"
  BY <1>1 DEF Asked, Pending
<1>4. Register!Done(r, "claim")
  BY <1>1, <1>2, <1>3, DoneStep
<1>5. MayClaim(req[r].user, p)
  BY <1>1 DEF IInv, InTurn, Ours
<1>6. Holder[p].user \in {0, req[r].user} \/ Holder[p].day < day
  BY <1>1, <1>5 DEF Holder, MayClaim, Stale, Null
<1>7. Holder' = [Holder EXCEPT ![p] = [user |-> req[r].user,
                                       device |-> req[r].device,
                                       day |-> req[r].day]]
  <2>1. plant[p] \in Plant
    BY <1>1 DEF IInv, TypeOK
  <2>2. plant'[p].user = req[r].user /\ plant'[p].device = req[r].device
        /\ plant'[p].claimed = req[r].day
        /\ \A o \in Plants \ {p} : plant'[o] = plant[o]
    BY <1>1, <2>1 DEF IInv, TypeOK, Plant
  <2> QED
    BY <1>1, <2>2 DEF Holder
<1>8. UNCHANGED <<access, Owner, LiveFacilities>>
  BY <1>2 DEF Owner, LiveFacilities
<1>9. (/\ Register!Done(r, "claim")
       /\ Holder[Asked[r].plant].user \in {0, Asked[r].user}
          \/ Holder[Asked[r].plant].day < day
       /\ Holder' = [Holder EXCEPT ![Asked[r].plant] =
                        [user |-> Asked[r].user, device |-> Asked[r].device,
                         day |-> Asked[r].day]]
       /\ UNCHANGED <<access, Owner, LiveFacilities>>) => Register!Claim(r)
  BY DEF Register!Claim, Holder, Asked, Owner, LiveFacilities
<1> QED
  BY <1>3, <1>4, <1>6, <1>7, <1>8, <1>9

\* release_plant is a release.
LEMMA Released ==
    ASSUME IInv, serial, NEW r \in Requests, ReleaseWrite(r)
    PROVE  Register!Release(r)
<1> PICK p : p = req[r].plant
  OBVIOUS
<1>1. /\ req[r].pc = "release" /\ p \in Plants /\ Publish(r) /\ Stamped(r)
  BY ReleaseWriteEffect
<1>2. /\ req' = [req EXCEPT ![r] = Idle] /\ UNCHANGED <<facility, access>>
      /\ plant' = [plant EXCEPT ![p] =
                    [@ EXCEPT !.device = Null, !.user = Null, !.claimed = Null,
                              !.modified = req[r].stamp]]
  BY DEF ReleaseWrite
<1>3. Asked[r].plant = p /\ Pending(r).op = "release"
  BY <1>1 DEF Asked, Pending
<1>4. Register!Done(r, "release")
  BY <1>1, <1>2, <1>3, DoneStep
<1>5. Holder' = [Holder EXCEPT ![p] = Register!Nobody]
  <2>1. plant[p] \in Plant
    BY <1>1 DEF IInv, TypeOK
  <2>2. plant'[p].user = 0 /\ plant'[p].device = 0 /\ plant'[p].claimed = 0
        /\ \A o \in Plants \ {p} : plant'[o] = plant[o]
    BY <1>1, <1>2, <2>1 DEF IInv, TypeOK, Plant, Null
  <2> QED
    BY <1>1, <2>2 DEF Holder, Register!Nobody
<1>6. UNCHANGED <<access, Owner, LiveFacilities>>
  BY <1>2 DEF Owner, LiveFacilities
<1>7. (/\ Register!Done(r, "release")
       /\ Holder' = [Holder EXCEPT ![Asked[r].plant] = Register!Nobody]
       /\ UNCHANGED <<access, Owner, LiveFacilities>>) => Register!Release(r)
  BY DEF Register!Release, Holder, Asked, Owner, LiveFacilities
<1> QED
  BY <1>3, <1>4, <1>5, <1>6, <1>7

\* A commit replaces the facilities of its plant as a whole.
LEMMA Replaced ==
    ASSUME IInv, serial, NEW r \in Requests, Commit(r)
    PROVE  Register!Replace(r)
<1> PICK p : p = req[r].plant
  OBVIOUS
<1>1. /\ req[r].pc = "commit" /\ p \in Plants /\ p # Null
      /\ Fields(r) /\ Ours(r)
  BY IdsAssumption DEF Commit, IInv, InTurn, Fields, Busy
<1>2. req[r].existing = FacilitiesOf(p)
      /\ \A f \in Listed(r) : facility[f].plant \in {Null, p}
  BY <1>1 DEF Fields, Ours
<1>3. Listed(r) = req[r].live \cup req[r].gone /\ req[r] \in Request
      /\ Listed(r) \subseteq Facilities
  BY DEF Listed, IInv, TypeOK, Request
<1>4. ASSUME NEW f \in Facilities
      PROVE  /\ facility'[f].plant = IF f \in Listed(r) THEN p
                                     ELSE facility[f].plant
             /\ (facility'[f].plant # Null /\ ~facility'[f].deleted) <=>
                   \/ f \in req[r].live \ req[r].gone
                   \/ /\ facility[f].plant # Null /\ ~facility[f].deleted
                      /\ facility[f].plant # p
  <2>1. facility'[f] = IF f \in Listed(r) THEN UpsertedFacility(r, f)
                       ELSE IF f \in req[r].existing
                            THEN [facility[f] EXCEPT !.deleted = TRUE]
                            ELSE facility[f]
    BY DEF Commit
  <2>2. CASE f \in Listed(r)
    <3>1. facility'[f] = [plant |-> p, deleted |-> f \in req[r].gone]
      BY <1>2, <2>1, <2>2 DEF UpsertedFacility
    <3>2. facility'[f].plant = p /\ facility'[f].deleted = (f \in req[r].gone)
      BY <3>1
    <3>3. facility[f].plant \in {Null, p}
      BY <1>2, <2>2
    <3>4. f \in req[r].live \/ f \in req[r].gone
      BY <1>3, <2>2
    <3> QED
      BY <1>1, <2>2, <3>2, <3>3, <3>4
  <2>3. CASE f \notin Listed(r) /\ facility[f].plant = p
    <3>1. f \in req[r].existing
      BY <1>2, <2>3 DEF FacilitiesOf
    <3>2. facility[f] \in Facility
      BY DEF IInv, TypeOK
    <3>3. facility'[f].plant = p /\ facility'[f].deleted = TRUE
      BY <2>1, <2>3, <3>1, <3>2 DEF Facility
    <3> QED
      BY <1>3, <2>3, <3>3
  <2>4. CASE f \notin Listed(r) /\ facility[f].plant # p
    <3>1. facility'[f] = facility[f]
      BY <1>2, <2>1, <2>4 DEF FacilitiesOf
    <3> QED
      BY <1>3, <2>4, <3>1
  <2> QED
    BY <2>2, <2>3, <2>4
<1> DEFINE listed == Asked[r].live \cup Asked[r].gone
<1>5. /\ Asked[r].plant = p /\ Asked[r].live = req[r].live
      /\ Asked[r].gone = req[r].gone /\ listed = Listed(r)
  BY <1>3 DEF Asked, Pending
<1>6. \A f \in listed : Owner[f] \in {0, p}
  BY <1>2, <1>3, <1>5 DEF Owner, Null
<1>7. Owner' = [f \in Facilities |-> IF f \in listed THEN p ELSE Owner[f]]
  BY <1>4, <1>5 DEF Owner
<1>8. LiveFacilities' = {f \in LiveFacilities : Owner[f] # p}
                            \cup (Asked[r].live \ Asked[r].gone)
  <2>1. \A f \in LiveFacilities' : f \in Facilities
    BY DEF LiveFacilities
  <2>2. \A f \in LiveFacilities : f \in Facilities
    BY DEF LiveFacilities
  <2>3. \A f \in req[r].live : f \in Facilities
    BY <1>3
  <2>4. ASSUME NEW f \in Facilities
        PROVE  f \in LiveFacilities' <=>
                   \/ f \in LiveFacilities /\ Owner[f] # p
                   \/ f \in req[r].live \ req[r].gone
    BY <1>4 DEF LiveFacilities, Owner
  <2> QED
    BY <1>5, <2>1, <2>2, <2>3, <2>4
<1>9. (/\ \A f \in listed : Owner[f] \in {0, Asked[r].plant}
       /\ Owner' = [f \in Facilities |-> IF f \in listed THEN Asked[r].plant
                                         ELSE Owner[f]]
       /\ LiveFacilities' = {f \in LiveFacilities : Owner[f] # Asked[r].plant}
                               \cup (Asked[r].live \ Asked[r].gone))
      => Register!Replace(r)
  BY DEF Register!Replace, Owner, LiveFacilities, Asked
<1> HIDE DEF listed
<1> QED
  BY <1>5, <1>6, <1>7, <1>8, <1>9

\* A commit creates a plant, or replaces it as the holder of its claim may.
LEMMA Committed ==
    ASSUME IInv, serial, NEW r \in Requests, Commit(r)
    PROVE  Register!Create(r) \/ Register!Save(r)
<1> PICK p : p = req[r].plant
  OBVIOUS
<1>1. /\ req[r].pc = "commit" /\ p \in Plants /\ Publish(r) /\ Stamped(r)
      /\ Saving(r) /\ Fields(r) /\ Ours(r)
  BY CommitEffect DEF IInv, InTurn, Saving
<1>2. /\ req' = [req EXCEPT ![r] = Idle]
      /\ plant' = [plant EXCEPT ![p] = UpsertedPlant(r)]
      /\ access' = [access EXCEPT ![p] = @ \cup Granted(r)]
  BY DEF Commit
<1>3. /\ Asked[r].plant = p /\ Asked[r].device = req[r].device
      /\ Asked[r].base = req[r].base /\ Asked[r].user = req[r].user
      /\ Asked[r].live \cup Asked[r].gone = Listed(r)
      /\ Pending(r).op = IF req[r].new THEN "create" ELSE "save"
  BY <1>1 DEF Asked, Pending, Listed
<1>4. Register!Replace(r)
  BY Replaced
<1>5. UNCHANGED Holder
  <2>1. plant[p] \in Plant
    BY <1>1 DEF IInv, TypeOK
  <2>2. UpsertedPlant(r).user = plant[p].user
        /\ UpsertedPlant(r).device = plant[p].device
        /\ UpsertedPlant(r).claimed = plant[p].claimed
    BY <2>1 DEF UpsertedPlant, Plant
  <2>3. \A o \in Plants : plant'[o].user = plant[o].user
                          /\ plant'[o].device = plant[o].device
                          /\ plant'[o].claimed = plant[o].claimed
    BY <1>1, <1>2, <2>2 DEF IInv, TypeOK
  <2> QED
    BY <2>3 DEF Holder
<1>6. req[r].new <=> Version[p] = 0
  BY <1>1 DEF Ours, Exists, Version, Null
<1>7. CASE req[r].new
  <2>1. Register!Done(r, "create")
    BY <1>1, <1>2, <1>3, <1>7, DoneStep
  <2>2. access' = [access EXCEPT ![p] = Internal \cup {req[r].user}]
    <3>1. access[p] = {}
      BY <1>1, <1>6, <1>7 DEF IInv, Tables, Exists, Version, Null
    <3>2. Granted(r) = Internal \cup {req[r].user}
      BY <1>7 DEF Granted
    <3>3. access[p] \cup Granted(r) = Internal \cup {req[r].user}
      BY <3>1, <3>2
    <3> QED
      BY <1>2, <3>3
  <2>3. (/\ Register!Done(r, "create") /\ Register!Replace(r)
         /\ Version[Asked[r].plant] = 0
         /\ access' = [access EXCEPT ![Asked[r].plant] =
                          Internal \cup {Asked[r].user}]
         /\ UNCHANGED Holder) => Register!Create(r)
    BY DEF Register!Create, Version, Asked, Holder
  <2> QED
    BY <1>3, <1>4, <1>5, <1>6, <1>7, <2>1, <2>2, <2>3
<1>8. CASE ~req[r].new
  <2>1. Register!Done(r, "save")
    BY <1>1, <1>2, <1>3, <1>8, DoneStep
  <2>2. access' = access
    <3>1. Granted(r) = {} /\ access \in [Plants -> SUBSET Users]
      BY <1>8 DEF Granted, IInv, TypeOK
    <3> QED
      BY <1>1, <1>2, <3>1
  <2>3. Exists(p) /\ plant[p].device = req[r].device
    BY <1>1, <1>8 DEF Ours
  <2>4. Holder[p].device = req[r].device
    BY <1>1, <2>3 DEF Holder
  <2>5. req[r].base # 0 =>
            /\ req[r].base = Version[p]
            /\ {f \in LiveFacilities : Owner[f] = p} \subseteq Listed(r)
    BY <1>1, <2>3 DEF Ours, Exists, Version, LiveFacilities, Owner,
       FacilitiesOf, Null
  <2>6. (/\ Register!Done(r, "save") /\ Register!Replace(r)
         /\ Holder[Asked[r].plant].device = Asked[r].device
         /\ Asked[r].base # 0 =>
                /\ Asked[r].base = Version[Asked[r].plant]
                /\ {f \in LiveFacilities : Owner[f] = Asked[r].plant}
                       \subseteq Asked[r].live \cup Asked[r].gone
         /\ UNCHANGED <<Holder, access>>) => Register!Save(r)
    BY DEF Register!Save, Version, Asked, Holder, LiveFacilities, Owner
  <2> QED
    BY <1>3, <1>4, <1>5, <2>1, <2>2, <2>4, <2>5, <2>6
<1> QED
  BY <1>7, <1>8

\* The statements between the first read and the commit change nothing the
\* register shows, or end the request.
LEMMA MiddleUnseen ==
    ASSUME IInv, NEW r \in Requests,
           OwnerCheck(r) \/ VersionCheck(r) \/ UpsertPlant(r) \/ SyncRead(r)
    PROVE  Register!Drop(r) \/ UNCHANGED Register!vars
<1>1. Busy(r) /\ Saving(r)
  BY DEF OwnerCheck, VersionCheck, UpsertPlant, SyncRead, Busy, Saving
<1>2. CASE RolledBack(r)
  BY <1>1, <1>2, Dropped
<1>3. CASE ~RolledBack(r)
  <2>1. PICK pc \in {"check", "upsert", "sync", "commit"},
             stamp \in {req[r].stamp, now},
             existing \in {req[r].existing, FacilitiesOf(req[r].plant)} :
            req' = [req EXCEPT ![r].pc = pc, ![r].stamp = stamp,
                               ![r].existing = existing]
    <3>1. CASE OwnerCheck(r) \/ UpsertPlant(r)
      <4>1. PICK pc \in {"check", "sync"} : req' = [req EXCEPT ![r].pc = pc]
        BY <1>3, <3>1 DEF OwnerCheck, UpsertPlant
      <4>2. req' = [req EXCEPT ![r].pc = pc, ![r].stamp = req[r].stamp,
                               ![r].existing = req[r].existing]
        BY <4>1 DEF IInv, TypeOK, Request
      <4> QED
        BY <4>2
    <3>2. CASE VersionCheck(r)
      <4>1. req' = [req EXCEPT ![r].pc = "upsert", ![r].stamp = now]
        BY <1>3, <3>2 DEF VersionCheck
      <4>2. req' = [req EXCEPT ![r].pc = "upsert", ![r].stamp = now,
                               ![r].existing = req[r].existing]
        BY <4>1 DEF IInv, TypeOK, Request
      <4> QED
        BY <4>2
    <3>3. CASE SyncRead(r)
      <4>1. req' = [req EXCEPT ![r].pc = "commit",
                               ![r].existing = FacilitiesOf(req[r].plant)]
        BY <1>3, <3>3 DEF SyncRead
      <4>2. req' = [req EXCEPT ![r].pc = "commit", ![r].stamp = req[r].stamp,
                               ![r].existing = FacilitiesOf(req[r].plant)]
        BY <4>1 DEF IInv, TypeOK, Request
      <4> QED
        BY <4>2
    <3> QED
      BY <3>1, <3>2, <3>3
  <2> DEFINE x == [req[r] EXCEPT !.pc = pc, !.stamp = stamp,
                                 !.existing = existing]
  <2>2. /\ x.pc = pc /\ x.plant = req[r].plant /\ x.user = req[r].user
        /\ x.device = req[r].device /\ x.day = req[r].day
        /\ x.live = req[r].live /\ x.gone = req[r].gone
        /\ x.base = req[r].base /\ x.new = req[r].new
    BY DEF IInv, TypeOK, Request
  <2>3. req' = [req EXCEPT ![r] = x]
    BY <2>1 DEF IInv, TypeOK
  <2> HIDE DEF x
  <2>4. req'[r] = x /\ Asked' = [Asked EXCEPT ![r] = Pending(r)']
    BY <2>3, OneAsks
  <2>5. Pending(r)' = Pending(r)
    BY <1>1, <2>2, <2>4 DEF Pending, Saving
  <2>6. UNCHANGED Asked
    BY <2>4, <2>5 DEF Asked
  <2>7. UNCHANGED <<plant, facility, access, day>>
    BY <1>3 DEF OwnerCheck, VersionCheck, UpsertPlant, SyncRead
  <2> QED
    BY <2>6, <2>7 DEF Register!vars, Asked
<1> QED
  BY <1>2, <1>3

\* Taking turns, every step is a step of the register or a stutter.
LEMMA RegisterStep ==
    ASSUME IInv, [Next]_vars, serial
    PROVE  Register!Next \/ UNCHANGED Register!vars
<1>1. CASE UNCHANGED vars
  BY <1>1 DEF vars, Register!vars, Pending
<1>2. CASE NewDay
  <2>1. Register!NewDay
    BY <1>2 DEF NewDay, Register!NewDay, Pending
  <2> QED
    BY <2>1 DEF Register!Next
<1>3. ASSUME NEW r \in Requests, Send(r) PROVE Register!Ask(r)
  <2>1. PICK u \in Users, d \in Devices, p \in Plants :
          \/ ClaimRead(r, u, d, p)
          \/ ReleaseRead(r, u, p)
          \/ \E listed \in SUBSET Facilities : \E gone \in SUBSET listed :
             \E base \in {plant[p].modified} \cup 1..(plant[p].modified - 1) :
             \E force \in BOOLEAN :
                 SaveRead(r, u, d, p, listed \ gone, gone, base, force)
    BY <1>3 DEF Send
  <2>2. ASSUME NEW listed \in SUBSET Facilities, NEW gone \in SUBSET listed,
               NEW base \in {plant[p].modified} \cup 1..(plant[p].modified - 1),
               NEW force \in BOOLEAN,
               SaveRead(r, u, d, p, listed \ gone, gone, base, force)
        PROVE  Register!Ask(r)
    <3>1. plant[p].modified \in Nat
      BY DEF IInv, TypeOK, Plant
    <3>2. base \in 0..plant[p].modified /\ gone \in SUBSET Facilities
          /\ listed \ gone \in SUBSET Facilities
      BY <3>1
    <3> QED
      BY <2>2, <3>2, SaveAsks
  <2> QED
    BY <2>1, <2>2, ClaimAsks, ReleaseAsks
<1>4. ASSUME NEW r \in Requests, Serve(r) \/ Crash(r)
      PROVE  \/ Register!Claim(r) \/ Register!Release(r) \/ Register!Create(r)
             \/ Register!Save(r) \/ Register!Drop(r) \/ UNCHANGED Register!vars
  <2>1. CASE OwnerCheck(r) \/ VersionCheck(r) \/ UpsertPlant(r) \/ SyncRead(r)
    BY <2>1, MiddleUnseen
  <2>2. CASE Crash(r)
    BY <2>2, Dropped DEF Crash
  <2> QED
    BY <1>4, <2>1, <2>2, Claimed, Released, Committed DEF Serve
<1>5. ASSUME NEW r \in Requests,
             \/ Register!Ask(r) \/ Register!Claim(r) \/ Register!Release(r)
             \/ Register!Create(r) \/ Register!Save(r) \/ Register!Drop(r)
      PROVE  Register!Next
  BY <1>5 DEF Register!Next
<1> QED
  BY <1>1, <1>2, <1>3, <1>4, <1>5 DEF Next

\* Taking turns, claims, releases and saves are atomic: whatever users,
\* devices, plants and facilities there are, and however many requests are in
\* flight, the tables behave as PlantRegister.
THEOREM Refinement == Spec => ActsAsRegister
<1> DEFINE A == serial => Register!Next
           v == Register!vars
           I == Register!Init
<1>1. Init => I
  BY DEF Init, Register!Init, Register!Nobody, Register!Nothing, Pending, Idle,
     NoPlant, NoFacility, Null
<1>2. ASSUME IInv, [Next]_vars PROVE A \/ UNCHANGED v
  BY <1>2, RegisterStep
<1>3. ActsAsRegister <=> I /\ [][A]_v
  BY DEF ActsAsRegister
<1> HIDE DEF A, v, I
<1>4. IInv /\ [Next]_vars => [A]_v
  BY <1>2
<1> QED
  BY <1>1, <1>3, <1>4, Invariant, PTL DEF Spec
=============================================================================
