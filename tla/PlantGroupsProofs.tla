------------------------- MODULE PlantGroupsProofs -------------------------
(***************************************************************************)
(* Proofs about PlantGroups, for any groups, plants and number of saves.   *)
(*                                                                         *)
(* The inductive invariant IInv says of the tables that the foreign key    *)
(* holds, and of every save in flight what its earlier statements have     *)
(* established and the saves of others have left alone.  For the tree this *)
(* is a set of groups, closed under "parent", that holds the parent to be  *)
(* set and not the group itself (Checked): the result of the recursive CTE *)
(* is such a set, and saves that only set a parent to NULL keep it closed. *)
(***************************************************************************)
EXTENDS PlantGroups, TLAPS

\* The foreign key, and versions that come from the clock
Tables ==
    /\ now >= 1
    /\ \A g \in Groups : modified[g] < now
    /\ \A g \in Groups : parent[g] # Null => modified[parent[g]] # Null

\* What holds of every save, whatever the others do
Fields(r) ==
    /\ Busy(r) => /\ req[r].group \in Groups
                  /\ req[r].parent # req[r].group
                  /\ req[r].stamp # Null /\ req[r].stamp < now
    /\ req[r].pc # "plants" => req[r].locked = {} /\ req[r].added = {}
    /\ req[r].pc \in {"sync", "plants"} /\ req[r].parent # Null =>
           modified[req[r].parent] # Null

Footprint(r) == req[r].plants \cup Members(req[r].group)

\* What Alone has made true of two saves
Apart(q, r) ==
    Busy(q) /\ Busy(r) =>
        /\ req[q].group # req[r].group
        /\ Footprint(q) \cap Footprint(r) = {}
        /\ Null \in {req[q].parent, req[r].parent}

\* The cycle check has left a set that keeps group and parent apart.
Checked(r) ==
    req[r].pc \in {"upsert", "sync", "plants"} /\ req[r].parent # Null =>
        \E S \in SUBSET Groups :
            req[r].parent \in S /\ Closed(S) /\ req[r].group \notin S

\* The optimistic lock still holds.
Versioned(r) ==
    Busy(r) => /\ modified[req[r].group] < req[r].stamp
               /\ \/ Null \in {req[r].base, modified[req[r].group]}
                  \/ req[r].base = modified[req[r].group]

\* How far the loops of _sync_plant_ids are
Synced(r) ==
    LET row == req[r]  current == Members(req[r].group) IN
    row.pc = "plants" =>
        /\ row.added \cup row.toAdd = row.plants \ current
        /\ row.toCheck \subseteq row.toAdd
        /\ row.added \subseteq row.locked
        /\ row.toRemove \subseteq current \ row.plants
        /\ (current \ row.plants) \ row.toRemove \subseteq row.locked
        /\ row.locked \subseteq row.plants \cup current
        /\ row.locked \cap row.plants \cap current = {}
        /\ \A p \in (row.toAdd \cup row.added) \ row.toCheck :
               member[p] = Null \/ row.move

InTurn ==
    /\ \A q, r \in Requests : q # r => Apart(q, r)
    /\ \A r \in Requests : Checked(r) /\ Versioned(r) /\ Synced(r)
    /\ Acyclic

IInv ==
    /\ TypeOK
    /\ Tables
    /\ \A r \in Requests : Fields(r)
    /\ serial => InTurn
-----------------------------------------------------------------------------
(* Types                                                                   *)

\* A save that is not in flight has its type.
LEMMA IdleType == Idle \in Request
BY DEF Idle, Request, Steps, Null

\* A step that changes one request to another row keeps the types.
LEMMA RowType ==
    ASSUME TypeOK, NEW r \in Requests, NEW row \in Request,
           req' = [req EXCEPT ![r] = row],
           UNCHANGED <<parent, modified, member, serial>>, now' \in Nat
    PROVE  TypeOK'
BY DEF TypeOK

\* Every step keeps the types.
LEMMA TypeStep == TypeOK /\ [Next]_vars => TypeOK'
<1> SUFFICES ASSUME TypeOK, [Next]_vars PROVE TypeOK'
  OBVIOUS
<1>1. ASSUME NEW r \in Requests, RolledBack(r) PROVE TypeOK'
  BY <1>1, IdleType, RowType DEF RolledBack, TypeOK
<1>2. ASSUME NEW r \in Requests, NEW row \in Request, Proceed(r, row)
      PROVE  TypeOK'
  BY <1>2, RowType DEF Proceed, TypeOK
<1>3. ASSUME NEW r \in Requests, Send(r) PROVE TypeOK'
  <2>1. PICK g \in Groups, par \in Groups \cup {Null}, plants \in SUBSET Plants,
             force \in BOOLEAN, move \in BOOLEAN :
                 \E base \in {modified[g]} \cup 1..(modified[g] - 1) :
                     SaveRead(r, g, par, plants, base, force, move)
    BY <1>3 DEF Send
  <2> PICK base \in {modified[g]} \cup 1..(modified[g] - 1) :
               SaveRead(r, g, par, plants, base, force, move)
    BY <2>1
  <2> DEFINE row == [Idle EXCEPT !.pc = IF par # Null /\ Exists(g)
                                        THEN "cycle" ELSE "upsert",
                                 !.group = g, !.parent = par,
                                 !.plants = plants,
                                 !.base = IF force THEN Null ELSE base,
                                 !.move = move, !.stamp = now]
  <2>2. base \in Nat /\ now \in Nat
    BY DEF TypeOK, Null
  <2>3. row \in Request
    BY <2>2 DEF Idle, Request, Steps, Null
  <2>4. req' = [req EXCEPT ![r] = row] /\ now' = now + 1
        /\ UNCHANGED <<parent, modified, member, serial>>
    BY DEF SaveRead
  <2>5. now' \in Nat
    BY <2>2, <2>4
  <2> HIDE DEF row
  <2> QED
    BY <2>3, <2>4, <2>5, RowType
<1>4. ASSUME NEW r \in Requests, CheckCycle(r) PROVE TypeOK'
  <2>1. [req[r] EXCEPT !.pc = "upsert"] \in Request
    BY DEF TypeOK, Request, Steps
  <2> QED
    BY <1>1, <1>2, <1>4, <2>1 DEF CheckCycle
<1>5. ASSUME NEW r \in Requests, UpsertGroup(r) PROVE TypeOK'
  <2>1. [req[r] EXCEPT !.pc = "sync"] \in Request
    BY DEF TypeOK, Request, Steps
  <2> QED
    BY <1>1, <1>2, <1>5, <2>1 DEF UpsertGroup
<1>6. ASSUME NEW r \in Requests, SyncRead(r) PROVE TypeOK'
  <2> DEFINE current == Members(req[r].group)
             row == [req[r] EXCEPT !.pc = "plants",
                                   !.toCheck = req[r].plants \ current,
                                   !.toAdd = req[r].plants \ current,
                                   !.toRemove = current \ req[r].plants]
  <2>1. current \subseteq Plants
    BY DEF Members
  <2>2. row \in Request
    BY <2>1 DEF TypeOK, Request, Steps
  <2>3. Proceed(r, row)
    BY <1>6 DEF SyncRead
  <2> QED
    BY <1>2, <2>2, <2>3
<1>7. ASSUME NEW r \in Requests, NEW p \in Plants, CheckPlant(r, p)
      PROVE  TypeOK'
  <2> DEFINE checked == [req[r] EXCEPT !.toCheck = @ \ {p}]
  <2>1. checked \in Request
    BY DEF TypeOK, Request
  <2>2. [checked EXCEPT !.locked = @ \cup {p}] \in Request
    BY <2>1 DEF Request
  <2>3. \/ RolledBack(r) \/ Proceed(r, checked)
        \/ Proceed(r, [checked EXCEPT !.locked = @ \cup {p}])
    BY <1>7 DEF CheckPlant
  <2> QED
    BY <1>1, <1>2, <2>1, <2>2, <2>3
<1>8. ASSUME NEW r \in Requests, NEW p \in Plants, RemovePlant(r, p)
      PROVE  TypeOK'
  <2> DEFINE row == [req[r] EXCEPT
                 !.toRemove = @ \ {p},
                 !.locked = IF member[p] = Null THEN @ ELSE @ \cup {p}]
  <2>1. row \in Request
    BY DEF TypeOK, Request
  <2>2. Proceed(r, row)
    BY <1>8 DEF RemovePlant
  <2> QED
    BY <1>2, <2>1, <2>2
<1>9. ASSUME NEW r \in Requests, NEW p \in Plants, AddPlant(r, p)
      PROVE  TypeOK'
  <2> DEFINE row == [req[r] EXCEPT !.toAdd = @ \ {p}, !.locked = @ \cup {p},
                                   !.added = @ \cup {p}]
  <2>1. row \in Request
    BY DEF TypeOK, Request
  <2>2. Proceed(r, row)
    BY <1>9 DEF AddPlant
  <2> QED
    BY <1>2, <2>1, <2>2
<1>10. ASSUME NEW r \in Requests, Commit(r) PROVE TypeOK'
  <2>1. req[r].group \in Groups \cup {Null} /\ req[r].stamp \in Nat
        /\ req[r].parent \in Groups \cup {Null}
    BY DEF TypeOK, Request
  <2>2. parent' \in [Groups -> Groups \cup {Null}]
    BY <1>10, <2>1 DEF Commit, TypeOK
  <2>3. modified' \in [Groups -> Nat]
    BY <1>10, <2>1 DEF Commit, TypeOK
  <2>4. member' \in [Plants -> Groups \cup {Null}]
    BY <1>10, <2>1 DEF Commit, TypeOK
  <2>5. req' \in [Requests -> Request]
    BY <1>10, IdleType DEF Commit, TypeOK
  <2> QED
    BY <1>10, <2>2, <2>3, <2>4, <2>5 DEF Commit, TypeOK
<1>11. CASE UNCHANGED vars
  BY <1>11 DEF vars, TypeOK
<1> QED
  BY <1>1, <1>3, <1>4, <1>5, <1>6, <1>7, <1>8, <1>9, <1>10, <1>11
  DEF Next, Serve, Crash, DeadlockAbort

\* The initial state has the types.
LEMMA TypeInit == Init => TypeOK
BY IdleType DEF Init, TypeOK, Null

\* Every variable has its type: the rows a save reads, and the local
\* variables it keeps between its statements.
THEOREM TypeCorrect == Spec => []TypeOK
BY TypeInit, TypeStep, PTL DEF Spec-----------------------------------------------------------------------------
(* Steps that commit nothing                                               *)

\* What such a step of r leaves alone
Quiet(r) ==
    /\ \A q \in Requests \ {r} : req'[q] = req[q]
    /\ now <= now'
    /\ UNCHANGED <<parent, modified, member, serial>>

\* The step keeps what r's body says.
SameBody(r) ==
    /\ Busy(r)
    /\ req'[r].group = req[r].group
    /\ req'[r].parent = req[r].parent
    /\ req'[r].plants = req[r].plants
    /\ req'[r].base = req[r].base
    /\ req'[r].stamp = req[r].stamp

\* A step that commits nothing keeps the invariant if the save that takes it
\* does its part.
LEMMA QuietStep ==
    ASSUME IInv, TypeOK', NEW r \in Requests, Quiet(r),
           \A g \in Groups : modified[g] < now',
           Fields(r)',
           serial => /\ Checked(r)' /\ Versioned(r)' /\ Synced(r)'
                     /\ \A q \in Requests \ {r} : Apart(q, r)' /\ Apart(r, q)'
    PROVE  IInv'
<1>1. Tables'
  BY DEF IInv, Tables, Quiet, TypeOK
<1>2. ASSUME NEW q \in Requests PROVE Fields(q)'
  <2>1. CASE q = r
    BY <2>1
  <2>2. CASE q # r
    <3>1. req'[q] = req[q] /\ modified' = modified /\ now <= now'
      BY <2>2 DEF Quiet
    <3>2. now \in Nat /\ now' \in Nat /\ req[q].stamp \in Nat
      BY DEF IInv, TypeOK, Request
    <3> QED
      BY <3>1, <3>2 DEF IInv, Fields, Busy
  <2> QED
    BY <2>1, <2>2
<1>3. ASSUME serial' PROVE InTurn'
  <2>1. serial /\ InTurn
    BY <1>3 DEF Quiet, IInv
  <2>2. ASSUME NEW q \in Requests, NEW s \in Requests, q # s
        PROVE  Apart(q, s)'
    <3>1. CASE q = r \/ s = r
      BY <2>1, <2>2, <3>1
    <3>2. CASE q # r /\ s # r
      <4>1. req'[q] = req[q] /\ req'[s] = req[s] /\ member' = member
        BY <3>2 DEF Quiet
      <4>2. Apart(q, s)
        BY <2>1, <2>2 DEF InTurn
      <4> QED
        BY <4>1, <4>2 DEF Apart, Busy, Footprint, Members
    <3> QED
      BY <3>1, <3>2
  <2>3. ASSUME NEW q \in Requests
        PROVE  Checked(q)' /\ Versioned(q)' /\ Synced(q)'
    <3>1. CASE q = r
      BY <2>1, <3>1
    <3>2. CASE q # r
      <4>1. req'[q] = req[q] /\ UNCHANGED <<parent, modified, member>>
        BY <3>2 DEF Quiet
      <4>2. Checked(q) /\ Versioned(q) /\ Synced(q)
        BY <2>1 DEF InTurn
      <4>3. Checked(q)'
        BY <4>1, <4>2 DEF Checked, Closed
      <4>4. Versioned(q)'
        BY <4>1, <4>2 DEF Versioned, Busy
      <4>5. Synced(q)'
        BY <4>1, <4>2 DEF Synced, Members
      <4> QED
        BY <4>3, <4>4, <4>5
    <3> QED
      BY <3>1, <3>2
  <2>4. Acyclic'
    BY <2>1 DEF InTurn, Acyclic, Quiet
  <2> QED
    BY <2>2, <2>3, <2>4 DEF InTurn
<1> QED
  BY <1>1, <1>2, <1>3 DEF IInv

\* The same, for a step in the middle of a save
LEMMA MiddleStep ==
    ASSUME IInv, TypeOK', NEW r \in Requests, Quiet(r), now' = now, SameBody(r),
           Fields(r)', serial => Checked(r)' /\ Synced(r)'
    PROVE  IInv'
<1>1. \A g \in Groups : modified[g] < now'
  BY DEF IInv, Tables
<1>2. ASSUME serial PROVE Versioned(r)'
  <2>1. Versioned(r)
    BY <1>2 DEF IInv, InTurn
  <2> QED
    BY <2>1 DEF Versioned, SameBody, Quiet
<1>3. ASSUME serial, NEW q \in Requests \ {r} PROVE Apart(q, r)' /\ Apart(r, q)'
  <2>1. Apart(q, r) /\ Apart(r, q)
    BY <1>3 DEF IInv, InTurn
  <2>2. req'[q] = req[q] /\ member' = member
    BY DEF Quiet
  <2> QED
    BY <2>1, <2>2 DEF Apart, SameBody, Busy, Footprint, Members
<1> QED
  BY <1>1, <1>2, <1>3, QuietStep

\* A rollback keeps the invariant.
LEMMA RollbackStep ==
    ASSUME IInv, TypeOK', NEW r \in Requests, RolledBack(r)
    PROVE  IInv'
<1>1. req'[r] = Idle /\ now' = now /\ Quiet(r)
  BY DEF RolledBack, Quiet, IInv, TypeOK
<1>2. req'[r].pc = "idle" /\ req'[r].locked = {} /\ req'[r].added = {}
  BY <1>1 DEF Idle
<1>3. Fields(r)' /\ Checked(r)' /\ Versioned(r)' /\ Synced(r)'
  BY <1>2 DEF Fields, Checked, Versioned, Synced, Busy
<1>4. \A q \in Requests : Apart(q, r)' /\ Apart(r, q)'
  BY <1>2 DEF Apart, Busy
<1>5. \A g \in Groups : modified[g] < now'
  BY <1>1 DEF IInv, Tables
<1> QED
  BY <1>1, <1>3, <1>4, <1>5, QuietStep
\* Reading the group: its version, and with a new group the foreign key, which
\* keeps a group without a row from having children.
LEMMA SaveReadStep ==
    ASSUME IInv, TypeOK', NEW r \in Requests, Send(r)
    PROVE  IInv'
<1>1. PICK g \in Groups, par \in Groups \cup {Null}, plants \in SUBSET Plants,
           force \in BOOLEAN, move \in BOOLEAN :
               \E base \in {modified[g]} \cup 1..(modified[g] - 1) :
                   SaveRead(r, g, par, plants, base, force, move)
  BY DEF Send
<1> PICK base \in {modified[g]} \cup 1..(modified[g] - 1) :
             SaveRead(r, g, par, plants, base, force, move)
  BY <1>1
<1>2. /\ Quiet(r) /\ now' = now + 1 /\ now \in Nat /\ now >= 1
      /\ now < now' /\ now # Null
  BY DEF SaveRead, Quiet, IInv, TypeOK, Tables, Null
<1>3. /\ req'[r].pc = IF par # Null /\ Exists(g) THEN "cycle" ELSE "upsert"
      /\ req'[r].group = g /\ req'[r].parent = par /\ req'[r].plants = plants
      /\ req'[r].base = IF force THEN Null ELSE base
      /\ req'[r].stamp = now /\ req'[r].locked = {} /\ req'[r].added = {}
  BY DEF SaveRead, IInv, TypeOK, Idle
<1>4. par # g /\ ~Conflicts(g, base, force) /\ Alone(r, g, par, plants)
  BY DEF SaveRead
<1>5. g # Null /\ \A h \in Groups : modified[h] < now
  BY IdsAssumption DEF IInv, Tables
<1>6. Fields(r)'
  BY <1>2, <1>3, <1>4 DEF Fields
<1>7. \A h \in Groups : modified[h] < now'
  <2>1. \A h \in Groups : modified[h] \in Nat
    BY DEF IInv, TypeOK
  <2> QED
    BY <1>2, <1>5, <2>1
<1>8. Versioned(r)'
  <2>1. modified' = modified
    BY <1>2 DEF Quiet
  <2>2. modified[g] = Null \/ force \/ base = modified[g]
    BY <1>4, <1>5 DEF Conflicts, Exists
  <2> QED
    BY <1>3, <1>5, <2>1, <2>2 DEF Versioned
<1>9. Checked(r)'
  <2> SUFFICES ASSUME par # Null, ~Exists(g)
               PROVE  \E S \in SUBSET Groups : par \in S /\ Closed(S) /\ g \notin S
    BY <1>2, <1>3 DEF Checked, Closed, Quiet
  <2>1. modified[g] = Null
    BY <1>5 DEF Exists
  <2>2. \A x \in Groups : parent[x] # Null =>
            parent[x] \in Groups /\ parent[x] # g
    BY <2>1 DEF IInv, TypeOK, Tables
  <2>3. Closed(Groups \ {g})
    BY <2>2 DEF Closed
  <2> QED
    BY <1>4, <2>3
<1>10. Synced(r)'
  BY <1>3 DEF Synced
<1>11. ASSUME serial, NEW q \in Requests \ {r}
       PROVE  Apart(q, r)' /\ Apart(r, q)'
  <2>1. req'[q] = req[q] /\ member' = member
    BY <1>2 DEF Quiet
  <2>2. Busy(q) => /\ req[q].group # g
                   /\ Footprint(q) \cap (plants \cup Members(g)) = {}
                   /\ Null \in {req[q].parent, par}
    BY <1>4, <1>11 DEF Alone, Footprint
  <2> QED
    BY <1>3, <2>1, <2>2 DEF Apart, Busy, Footprint, Members
<1> QED
  BY <1>2, <1>6, <1>7, <1>8, <1>9, <1>10, <1>11, QuietStep

\* The cycle check: a group that is no ancestor of p is kept apart from p by
\* one of the closed sets.
LEMMA CheckCycleStep ==
    ASSUME IInv, TypeOK', NEW r \in Requests, CheckCycle(r)
    PROVE  IInv'
<1> DEFINE row == [req[r] EXCEPT !.pc = "upsert"]
<1>1. CASE RolledBack(r)
  BY <1>1, RollbackStep
<1>2. CASE Proceed(r, row) /\ req[r].group \notin Ancestors(req[r].parent)
  <2>1. req'[r] = row /\ now' = now /\ Quiet(r)
    BY <1>2 DEF Proceed, Quiet, IInv, TypeOK
  <2>2. row.pc = "upsert" /\ SameBody(r)
        /\ row.locked = req[r].locked /\ row.added = req[r].added
    BY <2>1 DEF SameBody, Busy, CheckCycle, IInv, TypeOK, Request
  <2>3. req[r].pc = "cycle" /\ Fields(r)
    BY DEF CheckCycle, IInv
  <2> HIDE DEF row
  <2>4. Fields(r)'
    BY <2>1, <2>2, <2>3 DEF Fields, Busy, SameBody
  <2>5. Checked(r)'
    <3>1. req[r].group \in Groups
      BY <2>3 DEF Fields, Busy
    <3>2. PICK S \in SUBSET Groups :
              req[r].parent \in S /\ Closed(S) /\ req[r].group \notin S
      BY <1>2, <3>1 DEF Ancestors
    <3> QED
      BY <2>1, <2>2, <3>2 DEF Checked, Closed, SameBody, Quiet
  <2>6. Synced(r)'
    BY <2>1, <2>2 DEF Synced
  <2> QED
    BY <2>1, <2>2, <2>4, <2>5, <2>6, MiddleStep
<1> QED
  BY <1>1, <1>2 DEF CheckCycle

\* upsert_group: the foreign key has found the parent.
LEMMA UpsertGroupStep ==
    ASSUME IInv, TypeOK', NEW r \in Requests, UpsertGroup(r)
    PROVE  IInv'
<1> DEFINE row == [req[r] EXCEPT !.pc = "sync"]
<1>1. CASE RolledBack(r)
  BY <1>1, RollbackStep
<1>2. CASE Proceed(r, row) /\ (req[r].parent # Null => Exists(req[r].parent))
  <2>1. req'[r] = row /\ now' = now /\ Quiet(r)
    BY <1>2 DEF Proceed, Quiet, IInv, TypeOK
  <2>2. row.pc = "sync" /\ SameBody(r)
        /\ row.locked = req[r].locked /\ row.added = req[r].added
    BY <2>1 DEF SameBody, Busy, UpsertGroup, IInv, TypeOK, Request
  <2>3. req[r].pc = "upsert" /\ Fields(r)
    BY DEF UpsertGroup, IInv
  <2> HIDE DEF row
  <2>4. Fields(r)'
    BY <1>2, <2>1, <2>2, <2>3 DEF Fields, Busy, SameBody, Exists, Quiet
  <2>5. ASSUME serial PROVE Checked(r)'
    <3>1. Checked(r)
      BY <2>5 DEF IInv, InTurn
    <3> QED
      BY <2>1, <2>2, <2>3, <3>1 DEF Checked, Closed, SameBody, Quiet
  <2>6. Synced(r)'
    BY <2>1, <2>2 DEF Synced
  <2> QED
    BY <2>1, <2>2, <2>4, <2>5, <2>6, MiddleStep
<1> QED
  BY <1>1, <1>2 DEF UpsertGroup
\* The statements of _sync_plant_ids
LEMMA PlantsStep ==
    ASSUME IInv, TypeOK', NEW r \in Requests, NEW row, Proceed(r, row),
           req[r].pc \in {"sync", "plants"}, row.pc = "plants",
           row.group = req[r].group, row.parent = req[r].parent,
           row.plants = req[r].plants, row.base = req[r].base,
           row.stamp = req[r].stamp,
           serial => Synced(r)'
    PROVE  IInv'
<1>1. req'[r] = row /\ now' = now /\ Quiet(r)
  BY DEF Proceed, Quiet, IInv, TypeOK
<1>2. SameBody(r)
  BY <1>1 DEF SameBody, Busy
<1>3. Fields(r)'
  <2>1. Fields(r)
    BY DEF IInv
  <2> QED
    BY <1>1, <1>2, <2>1 DEF Fields, SameBody, Busy, Quiet
<1>4. ASSUME serial PROVE Checked(r)'
  <2>1. Checked(r)
    BY <1>4 DEF IInv, InTurn
  <2> QED
    BY <1>1, <1>2, <2>1 DEF Checked, Closed, SameBody, Quiet
<1> QED
  BY <1>1, <1>2, <1>3, <1>4, MiddleStep

\* get_plant_ids_by_group: the loops have everything to do.
LEMMA SyncReadStep ==
    ASSUME IInv, TypeOK', NEW r \in Requests, SyncRead(r)
    PROVE  IInv'
<1> DEFINE current == Members(req[r].group)
           row == [req[r] EXCEPT !.pc = "plants",
                                 !.toCheck = req[r].plants \ current,
                                 !.toAdd = req[r].plants \ current,
                                 !.toRemove = current \ req[r].plants]
<1>1. Proceed(r, row) /\ req[r].pc = "sync"
  BY DEF SyncRead
<1>2. req[r] \in Request /\ req[r].locked = {} /\ req[r].added = {}
  BY <1>1 DEF IInv, TypeOK, Fields
<1>3. /\ row.pc = "plants" /\ row.group = req[r].group
      /\ row.parent = req[r].parent /\ row.plants = req[r].plants
      /\ row.base = req[r].base /\ row.stamp = req[r].stamp
      /\ row.toCheck = req[r].plants \ current
      /\ row.toAdd = req[r].plants \ current
      /\ row.toRemove = current \ req[r].plants
      /\ row.locked = {} /\ row.added = {}
  BY <1>2 DEF Request
<1>4. req'[r] = row /\ member' = member
  BY <1>1 DEF Proceed, IInv, TypeOK
<1>5. Members(req[r].group)' = current
  BY <1>3, <1>4 DEF Members
<1> HIDE DEF row, current
<1>6. Synced(r)'
  BY <1>3, <1>4, <1>5 DEF Synced
<1> QED
  BY <1>1, <1>3, <1>6, PlantsStep

\* One turn of the loop of checks
LEMMA CheckPlantStep ==
    ASSUME IInv, TypeOK', NEW r \in Requests, NEW p \in Plants, CheckPlant(r, p)
    PROVE  IInv'
<1> DEFINE checked == [req[r] EXCEPT !.toCheck = @ \ {p}]
           locking == [checked EXCEPT !.locked = @ \cup {p}]
           elsewhere == member[p] \notin {Null, req[r].group}
<1>1. CASE RolledBack(r)
  BY <1>1, RollbackStep
<1>2. ASSUME NEW row, Proceed(r, row),
             \/ row = checked /\ ~elsewhere
             \/ row = locking /\ req[r].move
      PROVE  IInv'
  <2>1. req[r].pc = "plants" /\ p \in req[r].toCheck /\ req[r] \in Request
    BY DEF CheckPlant, IInv, TypeOK
  <2>2. /\ row.pc = "plants" /\ row.group = req[r].group
        /\ row.parent = req[r].parent /\ row.plants = req[r].plants
        /\ row.base = req[r].base /\ row.stamp = req[r].stamp
        /\ row.toCheck = req[r].toCheck \ {p} /\ row.toAdd = req[r].toAdd
        /\ row.toRemove = req[r].toRemove /\ row.added = req[r].added
        /\ row.move = req[r].move
        /\ row.locked \in {req[r].locked, req[r].locked \cup {p}}
    BY <1>2, <2>1 DEF Request
  <2>3. req'[r] = row /\ member' = member
    BY <1>2 DEF Proceed, IInv, TypeOK
  <2>4. member[p] \in {Null, req[r].group} \/ req[r].move
    BY <1>2
  <2> HIDE DEF checked, locking, elsewhere
  <2>5. ASSUME serial PROVE Synced(r)'
    <3> DEFINE current == Members(req[r].group)
    <3>1. Members(req[r].group)' = current
      BY <2>2, <2>3 DEF Members
    <3>2. Synced(r)
      BY <2>5 DEF IInv, InTurn
    <3>3. p \in req[r].plants \ current
      BY <2>1, <3>2 DEF Synced
    <3>4. member[p] = Null \/ req[r].move
      BY <2>4, <3>3 DEF Members
    <3> HIDE DEF current
    <3>5. \A x \in (row.toAdd \cup row.added) \ row.toCheck :
              member[x] = Null \/ row.move
      BY <2>1, <2>2, <3>2, <3>4 DEF Synced
    <3>6. /\ req[r].added \cup req[r].toAdd = req[r].plants \ current
          /\ req[r].toCheck \subseteq req[r].toAdd
          /\ req[r].added \subseteq req[r].locked
          /\ req[r].toRemove \subseteq current \ req[r].plants
          /\ (current \ req[r].plants) \ req[r].toRemove \subseteq req[r].locked
          /\ req[r].locked \subseteq req[r].plants \cup current
          /\ req[r].locked \cap req[r].plants \cap current = {}
      BY <2>1, <3>2 DEF Synced, current
    <3> QED
      BY <2>2, <2>3, <3>1, <3>3, <3>5, <3>6 DEF Synced
  <2> QED
    BY <1>2, <2>1, <2>2, <2>5, PlantsStep
<1>3. CASE Proceed(r, checked) /\ ~elsewhere
  BY <1>2, <1>3
<1>4. CASE Proceed(r, locking) /\ req[r].move
  BY <1>2, <1>4
<1> QED
  BY <1>1, <1>3, <1>4 DEF CheckPlant

\* One turn of the loop of removals
LEMMA RemovePlantStep ==
    ASSUME IInv, TypeOK', NEW r \in Requests, NEW p \in Plants, RemovePlant(r, p)
    PROVE  IInv'
<1> DEFINE row == [req[r] EXCEPT
               !.toRemove = @ \ {p},
               !.locked = IF member[p] = Null THEN @ ELSE @ \cup {p}]
<1>1. /\ req[r].pc = "plants" /\ p \in req[r].toRemove /\ req[r] \in Request
      /\ Proceed(r, row)
  BY DEF RemovePlant, IInv, TypeOK
<1>2. /\ row.pc = "plants" /\ row.group = req[r].group
      /\ row.parent = req[r].parent /\ row.plants = req[r].plants
      /\ row.base = req[r].base /\ row.stamp = req[r].stamp
      /\ row.toCheck = req[r].toCheck /\ row.toAdd = req[r].toAdd
      /\ row.toRemove = req[r].toRemove \ {p} /\ row.added = req[r].added
      /\ row.move = req[r].move
      /\ row.locked = IF member[p] = Null THEN req[r].locked
                      ELSE req[r].locked \cup {p}
  BY <1>1 DEF Request
<1>3. req'[r] = row /\ member' = member
  BY <1>1 DEF Proceed, IInv, TypeOK
<1>4. req[r].group \in Groups /\ Null \notin Groups
  BY <1>1, IdsAssumption DEF IInv, Fields, Busy
<1> HIDE DEF row
<1>5. ASSUME serial PROVE Synced(r)'
  <2> DEFINE current == Members(req[r].group)
  <2>1. Members(req[r].group)' = current
    BY <1>2, <1>3 DEF Members
  <2>2. Synced(r)
    BY <1>5 DEF IInv, InTurn
  <2>3. p \in current \ req[r].plants /\ member[p] # Null
    BY <1>1, <1>4, <2>2 DEF Synced, Members
  <2>4. /\ req[r].added \cup req[r].toAdd = req[r].plants \ current
        /\ req[r].toCheck \subseteq req[r].toAdd
        /\ req[r].added \subseteq req[r].locked
        /\ req[r].toRemove \subseteq current \ req[r].plants
        /\ (current \ req[r].plants) \ req[r].toRemove \subseteq req[r].locked
        /\ req[r].locked \subseteq req[r].plants \cup current
        /\ req[r].locked \cap req[r].plants \cap current = {}
        /\ \A x \in (req[r].toAdd \cup req[r].added) \ req[r].toCheck :
               member[x] = Null \/ req[r].move
    BY <1>1, <2>2 DEF Synced
  <2> HIDE DEF current
  <2> QED
    BY <1>2, <1>3, <2>1, <2>3, <2>4 DEF Synced
<1> QED
  BY <1>1, <1>2, <1>5, PlantsStep

\* One turn of the loop of additions
LEMMA AddPlantStep ==
    ASSUME IInv, TypeOK', NEW r \in Requests, NEW p \in Plants, AddPlant(r, p)
    PROVE  IInv'
<1> DEFINE row == [req[r] EXCEPT !.toAdd = @ \ {p}, !.locked = @ \cup {p},
                                 !.added = @ \cup {p}]
<1>1. /\ req[r].pc = "plants" /\ p \in req[r].toAdd /\ req[r] \in Request
      /\ req[r].toCheck = {} /\ Proceed(r, row)
  BY DEF AddPlant, IInv, TypeOK
<1>2. /\ row.pc = "plants" /\ row.group = req[r].group
      /\ row.parent = req[r].parent /\ row.plants = req[r].plants
      /\ row.base = req[r].base /\ row.stamp = req[r].stamp
      /\ row.toCheck = req[r].toCheck /\ row.toAdd = req[r].toAdd \ {p}
      /\ row.toRemove = req[r].toRemove /\ row.added = req[r].added \cup {p}
      /\ row.move = req[r].move /\ row.locked = req[r].locked \cup {p}
  BY <1>1 DEF Request
<1>3. req'[r] = row /\ member' = member
  BY <1>1 DEF Proceed, IInv, TypeOK
<1> HIDE DEF row
<1>4. ASSUME serial PROVE Synced(r)'
  <2> DEFINE current == Members(req[r].group)
  <2>1. Members(req[r].group)' = current
    BY <1>2, <1>3 DEF Members
  <2>2. Synced(r)
    BY <1>4 DEF IInv, InTurn
  <2>3. /\ req[r].added \cup req[r].toAdd = req[r].plants \ current
        /\ req[r].toCheck \subseteq req[r].toAdd
        /\ req[r].added \subseteq req[r].locked
        /\ req[r].toRemove \subseteq current \ req[r].plants
        /\ (current \ req[r].plants) \ req[r].toRemove \subseteq req[r].locked
        /\ req[r].locked \subseteq req[r].plants \cup current
        /\ req[r].locked \cap req[r].plants \cap current = {}
        /\ \A x \in (req[r].toAdd \cup req[r].added) \ req[r].toCheck :
               member[x] = Null \/ req[r].move
    BY <1>1, <2>2 DEF Synced
  <2> HIDE DEF current
  <2> QED
    BY <1>1, <1>2, <1>3, <2>1, <2>3 DEF Synced
<1> QED
  BY <1>1, <1>2, <1>4, PlantsStep-----------------------------------------------------------------------------
(* The commit                                                              *)

\* A group that is moved under p stays in a forest, if some closed set of
\* groups holds p and not the group.  Of a set T of groups, either the part
\* in the closed set has a member whose parent is outside of it, and that
\* parent is then in the closed set or NULL; or T has a member whose old
\* parent is outside of T, and if it is the moved group, so is its new one.
LEMMA MoveKeepsForest ==
    ASSUME parent \in [Groups -> Groups \cup {Null}], Acyclic,
           NEW g \in Groups, NEW p \in Groups \cup {Null},
           p # Null => \E S \in SUBSET Groups : p \in S /\ Closed(S) /\ g \notin S,
           parent' = [parent EXCEPT ![g] = p]
    PROVE  Acyclic'
<1> SUFFICES ASSUME NEW T \in SUBSET Groups, T # {}
             PROVE  \E x \in T : parent'[x] \notin T
  BY DEF Acyclic
<1>1. PICK x \in T : parent[x] \notin T
  BY DEF Acyclic
<1>2. CASE p = Null
  BY <1>1, <1>2, IdsAssumption
<1>3. CASE p # Null
  <2>1. PICK S \in SUBSET Groups : p \in S /\ Closed(S) /\ g \notin S
    BY <1>3
  <2>2. CASE T \cap S = {}
    <3>1. parent'[x] \in {parent[x], p}
      OBVIOUS
    <3> QED
      BY <1>1, <2>1, <2>2, <3>1
  <2>3. CASE T \cap S # {}
    <3>1. PICK y \in T \cap S : parent[y] \notin T \cap S
      BY <2>3 DEF Acyclic
    <3>2. y # g /\ parent'[y] = parent[y]
      BY <2>1, <3>1
    <3>3. parent[y] # Null => parent[y] \in S
      BY <2>1, <3>1 DEF Closed
    <3>4. Null \notin T
      BY IdsAssumption
    <3> QED
      BY <3>1, <3>2, <3>3, <3>4
  <2> QED
    BY <2>2, <2>3
<1> QED
  BY <1>2, <1>3

\* What a commit does to the tables
LEMMA CommitEffect ==
    ASSUME IInv, NEW r \in Requests, Commit(r)
    PROVE  /\ req[r].group \in Groups /\ req[r].stamp # Null /\ req[r].stamp < now
           /\ req[r].parent # Null => modified[req[r].parent] # Null
           /\ parent' = [parent EXCEPT ![req[r].group] = req[r].parent]
           /\ modified' = [modified EXCEPT ![req[r].group] = req[r].stamp]
           /\ \A p \in Plants :
                  member'[p] = IF p \in req[r].added THEN req[r].group
                               ELSE IF p \in req[r].locked THEN Null
                               ELSE member[p]
           /\ req'[r] = Idle /\ \A q \in Requests \ {r} : req'[q] = req[q]
           /\ UNCHANGED <<now, serial>>
BY DEF Commit, IInv, TypeOK, Fields, Busy

\* A save that takes turns with the one that commits keeps its plants.
LEMMA CommitApart ==
    ASSUME IInv, NEW r \in Requests, Commit(r), serial,
           NEW q \in Requests \ {r}, Busy(q)
    PROVE  /\ req[q].group # req[r].group
           /\ Null \in {req[q].parent, req[r].parent}
           /\ \A p \in Plants \cap Footprint(q) : member'[p] = member[p]
           /\ Members(req[q].group)' = Members(req[q].group)
<1>1. Apart(q, r) /\ Synced(r) /\ req[r].pc = "plants"
  BY DEF IInv, InTurn, Commit
<1>2. Footprint(q) \cap Footprint(r) = {} /\ req[q].group # req[r].group
      /\ Null \in {req[q].parent, req[r].parent}
  BY <1>1 DEF Apart, Busy
<1>3. req[r].added \subseteq req[r].locked /\ req[r].locked \subseteq Footprint(r)
  BY <1>1 DEF Synced, Footprint
<1>4. \A p \in Plants \cap Footprint(q) : member'[p] = member[p]
  BY <1>2, <1>3, CommitEffect
<1>5. req[q].group \in Groups
  BY DEF IInv, Fields
<1>6. req[q].group # Null
  BY <1>5, IdsAssumption
<1>7. req'[q] = req[q]
  BY CommitEffect
<1>8. Members(req[q].group)' \subseteq Members(req[q].group)
  BY <1>2, <1>6, <1>7, CommitEffect DEF Members
<1>9. Members(req[q].group) \subseteq Members(req[q].group)'
  BY <1>4, <1>7 DEF Members, Footprint
<1> QED
  BY <1>2, <1>4, <1>8, <1>9

\* A commit keeps the invariant.
LEMMA CommitStep ==
    ASSUME IInv, TypeOK', NEW r \in Requests, Commit(r)
    PROVE  IInv'
<1>1. Tables'
  <2>1. now' >= 1 /\ \A h \in Groups : modified'[h] < now'
    BY CommitEffect DEF IInv, Tables, TypeOK
  <2>2. \A h \in Groups : modified[h] # Null => modified'[h] # Null
    BY CommitEffect DEF IInv, TypeOK
  <2>3. ASSUME NEW h \in Groups, parent'[h] # Null
        PROVE  modified'[parent'[h]] # Null
    <3>1. parent'[h] \in Groups
      BY <2>3 DEF TypeOK
    <3>2. modified[parent'[h]] # Null
      BY <2>3, CommitEffect DEF IInv, Tables, TypeOK
    <3> QED
      BY <2>2, <3>1, <3>2
  <2> QED
    BY <2>1, <2>3 DEF Tables
<1>2. req'[r].pc = "idle" /\ req'[r].locked = {} /\ req'[r].added = {}
  BY CommitEffect DEF Idle
<1>3. ASSUME NEW q \in Requests PROVE Fields(q)'
  <2>1. CASE q = r
    BY <1>2, <2>1 DEF Fields, Busy
  <2>2. CASE q # r
    <3>1. req'[q] = req[q] /\ now' = now /\ Fields(q)
      BY <2>2, CommitEffect DEF IInv
    <3>2. req[q].parent # Null /\ modified[req[q].parent] # Null =>
              modified'[req[q].parent] # Null
      BY CommitEffect DEF IInv, TypeOK, Request
    <3> QED
      BY <3>1, <3>2 DEF Fields, Busy
  <2> QED
    BY <2>1, <2>2
<1>4. \A q \in Requests \ {r} : req'[q] = req[q]
  BY CommitEffect
<1>5. ASSUME serial' PROVE InTurn'
  <2>1. serial /\ InTurn
    BY <1>5, CommitEffect DEF IInv
  <2>2. ASSUME NEW q \in Requests, NEW s \in Requests, q # s
        PROVE  Apart(q, s)'
    <3>1. CASE q = r \/ s = r
      BY <1>2, <3>1 DEF Apart, Busy
    <3>2. CASE ~Busy(q) \/ ~Busy(s)
      <4>1. ~Busy(q)' \/ ~Busy(s)'
        BY <1>2, <3>2, CommitEffect DEF Busy
      <4> QED
        BY <4>1 DEF Apart
    <3>3. CASE q # r /\ s # r /\ Busy(q) /\ Busy(s)
      <4>1. req'[q] = req[q] /\ req'[s] = req[s] /\ Apart(q, s)
        <5>1. Apart(q, s)
          BY <2>1, <2>2 DEF InTurn
        <5> QED
          BY <1>4, <3>3, <5>1
      <4>2. Members(req[q].group)' = Members(req[q].group)
            /\ Members(req[s].group)' = Members(req[s].group)
        BY <2>1, <3>3, CommitApart
      <4>3. Footprint(q)' = Footprint(q) /\ Footprint(s)' = Footprint(s)
        BY <4>1, <4>2 DEF Footprint
      <4> QED
        BY <4>1, <4>3 DEF Apart, Busy
    <3> QED
      BY <3>1, <3>2, <3>3
  <2>3. ASSUME NEW q \in Requests
        PROVE  Checked(q)' /\ Versioned(q)' /\ Synced(q)'
    <3>1. CASE q = r
      BY <1>2, <3>1 DEF Checked, Versioned, Synced, Busy
    <3>2. CASE q # r /\ ~Busy(q)
      <4>1. req'[q].pc = "idle"
        BY <3>2, CommitEffect DEF Busy
      <4> QED
        BY <4>1 DEF Checked, Versioned, Synced, Busy
    <3>3. CASE q # r /\ Busy(q)
      <4>1. req'[q] = req[q] /\ Checked(q) /\ Versioned(q) /\ Synced(q)
        <5>1. Checked(q) /\ Versioned(q) /\ Synced(q)
          BY <2>1 DEF InTurn
        <5> QED
          BY <1>4, <3>3, <5>1
      <4>2. req[q].group # req[r].group /\ Null \in {req[q].parent, req[r].parent}
            /\ Members(req[q].group)' = Members(req[q].group)
            /\ \A p \in Plants \cap Footprint(q) : member'[p] = member[p]
        BY <2>1, <3>3, CommitApart
      <4>3. Checked(q)'
        <5> SUFFICES ASSUME req[q].pc \in {"upsert", "sync", "plants"},
                            req[q].parent # Null
                     PROVE  \E S \in SUBSET Groups :
                                req[q].parent \in S /\ Closed(S)' /\ req[q].group \notin S
          BY <4>1 DEF Checked
        <5>1. PICK S \in SUBSET Groups :
                  req[q].parent \in S /\ Closed(S) /\ req[q].group \notin S
          BY <4>1 DEF Checked
        <5>2. parent' = [parent EXCEPT ![req[r].group] = Null]
          BY <4>2, CommitEffect
        <5>3. Closed(S)'
          BY <5>1, <5>2 DEF Closed, IInv, TypeOK
        <5> QED
          BY <5>1, <5>3
      <4>4. Versioned(q)'
        <5>1. req[q].group \in Groups
          BY <3>3 DEF IInv, Fields
        <5>2. modified'[req[q].group] = modified[req[q].group]
          BY <4>2, <5>1, CommitEffect DEF IInv, TypeOK
        <5> QED
          BY <4>1, <5>2 DEF Versioned, Busy
      <4>5. Synced(q)'
        <5>1. req[q].pc = "plants" =>
                  \A p \in (req[q].toAdd \cup req[q].added) \ req[q].toCheck :
                      member'[p] = member[p]
          <6>1. req[q] \in Request
            BY DEF IInv, TypeOK
          <6>2. req[q].plants \subseteq Plants \cap Footprint(q)
            BY <6>1 DEF Request, Footprint
          <6> QED
            BY <4>1, <4>2, <6>2 DEF Synced
        <5> QED
          BY <4>1, <4>2, <5>1 DEF Synced
      <4> QED
        BY <4>3, <4>4, <4>5
    <3> QED
      BY <3>1, <3>2, <3>3
  <2>4. Acyclic'
    <3>1. Checked(r) /\ req[r].pc = "plants" /\ Acyclic
      BY <2>1 DEF InTurn, Commit
    <3>2. req[r].parent \in Groups \cup {Null}
          /\ parent \in [Groups -> Groups \cup {Null}]
      BY DEF IInv, TypeOK, Request
    <3> QED
      BY <3>1, <3>2, MoveKeepsForest, CommitEffect DEF Checked
  <2> QED
    BY <2>2, <2>3, <2>4 DEF InTurn
<1> QED
  BY <1>1, <1>3, <1>5 DEF IInv-----------------------------------------------------------------------------
(* The theorems                                                            *)

\* The initial state satisfies the invariant: there are no rows yet.
LEMMA InitInvariant == Init => IInv
<1> SUFFICES ASSUME Init PROVE IInv
  OBVIOUS
<1>1. \A r \in Requests : req[r].pc = "idle" /\ req[r].locked = {}
                         /\ req[r].added = {}
  BY DEF Init, Idle
<1>2. \A r \in Requests : Fields(r) /\ Checked(r) /\ Versioned(r) /\ Synced(r)
  BY <1>1 DEF Fields, Checked, Versioned, Synced, Busy
<1>3. \A q, r \in Requests : Apart(q, r)
  BY <1>1 DEF Apart, Busy
<1>4. Acyclic
  <2> SUFFICES ASSUME NEW S \in SUBSET Groups, S # {}
               PROVE  \E g \in S : parent[g] \notin S
    BY DEF Acyclic
  <2>1. \A g \in S : parent[g] = Null /\ Null \notin S
    BY IdsAssumption DEF Init
  <2> QED
    BY <2>1
<1>5. Tables
  BY DEF Init, Tables, Null
<1> QED
  BY <1>2, <1>3, <1>4, <1>5, TypeInit DEF IInv, InTurn

\* Every step keeps the invariant.
LEMMA NextInvariant == IInv /\ [Next]_vars => IInv'
<1> SUFFICES ASSUME IInv, [Next]_vars PROVE IInv'
  OBVIOUS
<1>1. TypeOK'
  BY TypeStep DEF IInv
<1>2. ASSUME NEW r \in Requests, Send(r) PROVE IInv'
  BY <1>1, <1>2, SaveReadStep
<1>3. ASSUME NEW r \in Requests, Serve(r) PROVE IInv'
  <2>1. CASE CheckCycle(r)
    BY <1>1, <2>1, CheckCycleStep
  <2>2. CASE UpsertGroup(r)
    BY <1>1, <2>2, UpsertGroupStep
  <2>3. CASE SyncRead(r)
    BY <1>1, <2>3, SyncReadStep
  <2>4. ASSUME NEW p \in Plants, CheckPlant(r, p) PROVE IInv'
    BY <1>1, <2>4, CheckPlantStep
  <2>5. ASSUME NEW p \in Plants, RemovePlant(r, p) PROVE IInv'
    BY <1>1, <2>5, RemovePlantStep
  <2>6. ASSUME NEW p \in Plants, AddPlant(r, p) PROVE IInv'
    BY <1>1, <2>6, AddPlantStep
  <2>7. CASE Commit(r)
    BY <1>1, <2>7, CommitStep
  <2>8. CASE DeadlockAbort(r)
    BY <1>1, <2>8, RollbackStep DEF DeadlockAbort
  <2> QED
    BY <1>3, <2>1, <2>2, <2>3, <2>4, <2>5, <2>6, <2>7, <2>8 DEF Serve
<1>4. ASSUME NEW r \in Requests, Crash(r) PROVE IInv'
  BY <1>1, <1>4, RollbackStep DEF Crash
<1>5. CASE UNCHANGED vars
  BY <1>5 DEF IInv, TypeOK, Tables, Fields, InTurn, Apart, Checked, Versioned,
              Synced, Acyclic, Closed, Footprint, Members, Busy, vars
<1> QED
  BY <1>2, <1>3, <1>4, <1>5 DEF Next

\* The inductive invariant holds throughout.
THEOREM Invariant == Spec => []IInv
BY InitInvariant, NextInvariant, PTL DEF Spec

\* While saves that set a parent take turns, the groups form a forest, for any
\* number of groups and whatever the other saves do.
THEOREM ForestKept == Spec => []TurnsKeepForest
<1>1. IInv => TurnsKeepForest
  BY DEF IInv, InTurn, TurnsKeepForest
<1> QED
  BY <1>1, Invariant, PTL

\* A row that a save waits for is held by a save in flight.
LEMMA WaitsForBusy ==
    ASSUME IInv, NEW q \in Requests, NEW r \in Requests, WaitsFor(q, r)
    PROVE  Busy(r)
<1>1. ASSUME ~Busy(r) PROVE req[r].locked = {}
  BY <1>1 DEF IInv, Fields, Busy
<1> QED
  BY <1>1 DEF WaitsFor, HoldsGroup, Busy

\* Saves in flight never all wait: if each waits for another they are a set
\* in which deadlock detection finds one to abort, as nobody else holds locks.
THEOREM NoneStuck == Spec => []NoStandstill
<1>1. IInv => NoStandstill
  <2> SUFFICES ASSUME IInv, NEW r \in Requests, Busy(r),
                      \A q \in Requests : Busy(q) =>
                          \E s \in Requests : WaitsFor(q, s)
               PROVE  Deadlocked(r)
    BY DEF NoStandstill
  <2> DEFINE S == {q \in Requests : Busy(q)}
  <2>1. r \in S /\ S \in SUBSET Requests
    OBVIOUS
  <2>2. ASSUME NEW q \in S PROVE \E s \in S : WaitsFor(q, s)
    <3>1. PICK s \in Requests : WaitsFor(q, s)
      OBVIOUS
    <3> QED
      BY <3>1, WaitsForBusy
  <2> QED
    BY <2>1, <2>2 DEF Deadlocked
<1> QED
  BY <1>1, Invariant, PTL

\* Taking turns, an unforced save overwrites only the version its client had,
\* and versions grow.
THEOREM VersionsGrow == Spec => VersionsChecked
<1> DEFINE A == serial => \A r \in Requests : Commit(r) => LET g == req[r].group IN
           /\ modified'[g] > modified[g]
           /\ Null \in {req[r].base, modified[g]} \/ req[r].base = modified[g]
<1>1. ASSUME IInv PROVE A
  <2> SUFFICES ASSUME serial, NEW r \in Requests, Commit(r)
               PROVE  LET g == req[r].group IN
                      /\ modified'[g] > modified[g]
                      /\ \/ Null \in {req[r].base, modified[g]}
                         \/ req[r].base = modified[g]
    OBVIOUS
  <2>1. Versioned(r) /\ Busy(r)
    BY <1>1 DEF IInv, InTurn, Commit, Busy
  <2>2. req[r].group \in Groups /\ modified \in [Groups -> Nat]
        /\ req[r].stamp \in Nat
    BY <1>1, CommitEffect DEF IInv, TypeOK, Request
  <2>3. modified' = [modified EXCEPT ![req[r].group] = req[r].stamp]
    BY <1>1, CommitEffect
  <2>4. modified'[req[r].group] = req[r].stamp
    BY <2>2, <2>3
  <2> QED
    BY <2>1, <2>2, <2>4 DEF Versioned
<1> HIDE DEF A
<1>2. IInv /\ [Next]_vars => [A]_vars
  BY <1>1
<1>3. [][A]_vars <=> VersionsChecked
  BY DEF A, VersionsChecked
<1> QED
  BY <1>2, <1>3, Invariant, PTL DEF Spec
\* Taking turns, a save that commits leaves its group with the plants its body
\* lists.
THEOREM BodyPublished == Spec => SavedAsAsked
<1> DEFINE A == serial => \A r \in Requests : Commit(r) =>
                    {p \in Plants : member'[p] = req[r].group} = req[r].plants
<1>1. ASSUME IInv PROVE A
  <2> SUFFICES ASSUME serial, NEW r \in Requests, Commit(r), NEW p \in Plants
               PROVE  member'[p] = req[r].group <=> p \in req[r].plants
    <3>1. ASSUME NEW r \in Requests PROVE req[r].plants \subseteq Plants
      BY <1>1 DEF IInv, TypeOK, Request
    <3> QED
      BY <3>1
  <2> DEFINE current == Members(req[r].group)
  <2>1. Synced(r) /\ req[r].pc = "plants" /\ req[r].toCheck = {}
        /\ req[r].toRemove = {} /\ req[r].toAdd = {}
    BY <1>1 DEF IInv, InTurn, Commit
  <2>2. /\ req[r].added = req[r].plants \ current
        /\ req[r].added \subseteq req[r].locked
        /\ current \ req[r].plants \subseteq req[r].locked
        /\ req[r].locked \cap req[r].plants \cap current = {}
    BY <2>1 DEF Synced
  <2>3. member'[p] = IF p \in req[r].added THEN req[r].group
                     ELSE IF p \in req[r].locked THEN Null ELSE member[p]
    BY <1>1, CommitEffect
  <2>4. p \in current <=> member[p] = req[r].group
    BY DEF Members
  <2>5. req[r].group \in Groups
    BY <1>1, CommitEffect
  <2>6. req[r].group # Null
    BY <2>5, IdsAssumption
  <2> HIDE DEF current
  <2> QED
    BY <2>2, <2>3, <2>4, <2>6
<1> HIDE DEF A
<1>2. IInv /\ [Next]_vars => [A]_vars
  BY <1>1
<1>3. [][A]_vars <=> SavedAsAsked
  BY DEF A, SavedAsAsked
<1> QED
  BY <1>2, <1>3, Invariant, PTL DEF Spec

\* Steps that commit nothing leave the memberships alone.
LEMMA MembersChange ==
    ASSUME [Next]_vars, member' # member
    PROVE  \E r \in Requests : Commit(r)
<1>1. ASSUME NEW r \in Requests, Send(r) PROVE FALSE
  BY <1>1 DEF Send, SaveRead
<1>2. ASSUME NEW r \in Requests, NEW p \in Plants,
             CheckPlant(r, p) \/ RemovePlant(r, p) \/ AddPlant(r, p)
      PROVE  FALSE
  BY <1>2 DEF CheckPlant, RemovePlant, AddPlant, RolledBack, Proceed
<1>3. ASSUME NEW r \in Requests,
             \/ CheckCycle(r) \/ UpsertGroup(r) \/ SyncRead(r)
             \/ DeadlockAbort(r) \/ Crash(r)
      PROVE  FALSE
  BY <1>3 DEF CheckCycle, UpsertGroup, SyncRead, DeadlockAbort, Crash,
              RolledBack, Proceed
<1> QED
  BY <1>1, <1>2, <1>3 DEF Next, Serve, vars

\* Taking turns, plants go from one group to another only in saves with
\* move_plants=true.
THEOREM MovesAsked == Spec => NoSilentMove
<1> DEFINE A == serial => \A p \in Plants :
                    (member[p] # Null /\ member'[p] \notin {Null, member[p]}) =>
                        \E r \in Requests : Commit(r) /\ req[r].move
<1>1. ASSUME IInv, [Next]_vars PROVE A
  <2> SUFFICES ASSUME serial, NEW p \in Plants, member[p] # Null,
                      member'[p] \notin {Null, member[p]}
               PROVE  \E r \in Requests : Commit(r) /\ req[r].move
    OBVIOUS
  <2>1. PICK r \in Requests : Commit(r)
    BY <1>1, MembersChange
  <2>2. Synced(r) /\ req[r].pc = "plants" /\ req[r].toCheck = {}
    BY <1>1, <2>1 DEF IInv, InTurn, Commit
  <2>3. member'[p] = IF p \in req[r].added THEN req[r].group
                     ELSE IF p \in req[r].locked THEN Null ELSE member[p]
    BY <1>1, <2>1, CommitEffect
  <2>4. p \in req[r].added
    BY <2>3
  <2>5. member[p] = Null \/ req[r].move
    BY <2>2, <2>4 DEF Synced
  <2> QED
    BY <2>1, <2>5
<1> HIDE DEF A
<1>2. IInv /\ [Next]_vars => [A]_vars
  BY <1>1
<1>3. [][A]_vars <=> NoSilentMove
  BY DEF A, NoSilentMove
<1> QED
  BY <1>2, <1>3, Invariant, PTL DEF Spec

-----------------------------------------------------------------------------
(* check_cyclic_dependency                                                 *)

\* The CTE reaches the group it starts from and the parents of what it
\* reaches, and nothing that a set with both does not hold.
LEMMA AncestorsClosed ==
    ASSUME TypeOK, NEW p \in Groups
    PROVE  /\ p \in Ancestors(p) /\ Ancestors(p) \in SUBSET Groups
           /\ Closed(Ancestors(p))
           /\ \A S \in SUBSET Groups :
                  p \in S /\ Closed(S) => Ancestors(p) \subseteq S
<1>1. ASSUME NEW x \in Ancestors(p), parent[x] # Null
      PROVE  parent[x] \in Ancestors(p)
  <2>1. x \in Groups /\ parent[x] \in Groups
    BY <1>1 DEF Ancestors, TypeOK
  <2>2. ASSUME NEW S \in SUBSET Groups, p \in S, Closed(S)
        PROVE  parent[x] \in S
    BY <1>1, <2>2 DEF Ancestors, Closed
  <2> QED
    BY <2>1, <2>2 DEF Ancestors
<1> QED
  BY <1>1 DEF Ancestors, Closed

\* A proper ancestor is one of the parent's.
LEMMA AncestorsStep ==
    ASSUME TypeOK, NEW x \in Groups, NEW g \in Ancestors(x), g # x
    PROVE  parent[x] \in Groups /\ g \in Ancestors(parent[x])
<1>1. g \in Groups
  BY DEF Ancestors
<1>2. parent[x] \in Groups
  <2>1. CASE parent[x] = Null
    <3>1. Closed({x}) /\ {x} \in SUBSET Groups
      BY <2>1 DEF Closed
    <3> QED
      BY <3>1 DEF Ancestors
  <2> QED
    BY <2>1 DEF TypeOK
<1>3. ASSUME NEW S \in SUBSET Groups, parent[x] \in S, Closed(S)
      PROVE  g \in S
  <2>1. Closed(S \cup {x}) /\ S \cup {x} \in SUBSET Groups
    BY <1>3 DEF Closed
  <2>2. g \in S \cup {x}
    BY <2>1 DEF Ancestors
  <2> QED
    BY <2>2
<1> QED
  BY <1>1, <1>2, <1>3 DEF Ancestors

\* On a forest the check refuses exactly the saves that would make a cycle:
\* the group stays acyclic with its new parent if and only if the CTE does not
\* come to the group from there.
THEOREM CheckIsExact ==
    ASSUME TypeOK, Acyclic, NEW g \in Groups, NEW par \in Groups,
           parent' = [parent EXCEPT ![g] = par]
    PROVE  Acyclic' <=> g \notin Ancestors(par)
<1>1. \A x \in Groups : parent'[x] = IF x = g THEN par ELSE parent[x]
  BY DEF TypeOK
<1>2. ASSUME g \in Ancestors(par) PROVE ~Acyclic'
  <2> DEFINE S == {x \in Ancestors(par) : g \in Ancestors(x)}
  <2>1. S \in SUBSET Groups /\ par \in S
    BY <1>2, AncestorsClosed
  <2>2. ASSUME NEW x \in S PROVE parent'[x] \in S
    <3>1. CASE x = g
      BY <1>1, <2>1, <3>1
    <3>2. CASE x # g
      <4>1. x \in Groups /\ parent'[x] = parent[x]
        BY <1>1, <2>1, <3>2
      <4>2. parent[x] \in Groups /\ g \in Ancestors(parent[x])
        BY <3>2, <4>1, AncestorsStep
      <4>3. parent[x] \in Ancestors(par)
        BY <4>2, AncestorsClosed, IdsAssumption DEF Closed
      <4> QED
        BY <4>1, <4>2, <4>3
    <3> QED
      BY <3>1, <3>2
  <2> HIDE DEF S
  <2> QED
    BY <2>1, <2>2 DEF Acyclic
<1>3. ASSUME g \notin Ancestors(par) PROVE Acyclic'
  <2> SUFFICES ASSUME NEW S \in SUBSET Groups, S # {},
                      \A x \in S : parent'[x] \in S
               PROVE  FALSE
    BY DEF Acyclic
  <2>1. g \in S
    BY <1>1 DEF Acyclic
  <2>2. par \in S
    BY <1>1, <2>1
  <2> DEFINE T == S \cap Ancestors(par)
  <2>3. T # {} /\ T \in SUBSET Groups
    BY <2>2, AncestorsClosed
  <2>4. ASSUME NEW x \in T PROVE parent[x] \in T
    <3>1. x # g /\ parent[x] \in S
      BY <1>1, <1>3
    <3>2. parent[x] \in Ancestors(par)
      BY <3>1, AncestorsClosed, IdsAssumption DEF Closed
    <3> QED
      BY <3>1, <3>2
  <2> HIDE DEF T
  <2> QED
    BY <2>3, <2>4 DEF Acyclic
<1> QED
  BY <1>2, <1>3

\* While saves that set a parent take turns the recursive CTE comes to a root
\* and ends: no save is refused because the check has timed out.
THEOREM CheckEnds ==
    Spec => [](serial => \A p \in Groups : ~Endless(p))
<1>1. IInv => (serial => \A p \in Groups : ~Endless(p))
  <2> SUFFICES ASSUME IInv, serial, NEW p \in Groups PROVE ~Endless(p)
    OBVIOUS
  <2>1. TypeOK /\ Acyclic
    BY DEF IInv, InTurn
  <2>2. PICK g \in Ancestors(p) : parent[g] \notin Ancestors(p)
    BY <2>1, AncestorsClosed DEF Acyclic
  <2> QED
    BY <2>1, <2>2, AncestorsClosed DEF Closed, Endless
<1> QED
  BY <1>1, Invariant, PTL
=============================================================================
