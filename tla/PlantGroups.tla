---------------------------- MODULE PlantGroups ----------------------------
(***************************************************************************)
(* PUT /plant-group: the tree of plant groups (lesiv.plant_group) and the  *)
(* plants that belong to them (lesiv.plant_group_membership).              *)
(*                                                                         *)
(* A save is one transaction at READ COMMITTED.  Each of its statements    *)
(* reads the rows committed when it starts, and the saves of other clients *)
(* run between any two of them.  What it writes it holds locked, and       *)
(* publishes at its commit; a statement that needs a row another save has  *)
(* written waits for that save to end, and of saves that wait for each     *)
(* other PostgreSQL aborts one.                                            *)
(*                                                                         *)
(* Names, the flag is_deleted (no check looks at it) and the answers are   *)
(* left out.  Each save reads the clock at a later millisecond than the    *)
(* one before it.                                                          *)
(***************************************************************************)
EXTENDS Integers, FiniteSets

CONSTANTS
    Groups,     \* ids of groups
    Plants,     \* ids of plants
    Requests,   \* slots for the saves in flight
    MaxSaves    \* bound of a run: saves ever started

\* SQL NULL; also the version of a group that has no row
Null == 0

ASSUME IdsAssumption == Null \notin Groups /\ Null \notin Plants
ASSUME BoundAssumption == MaxSaves \in Nat

VARIABLES
    parent,    \* plant_group.parent_id, committed
    modified,  \* plant_group.server_modified_at; Null for a group with no row
    member,    \* plant_group_membership: the group of every plant, or Null
    now,       \* the clock: the time the next save will read
    req,       \* the saves in flight
    serial     \* rigid: saves that touch the same group or plant, or that
               \* both set a parent, wait for each other

vars == <<parent, modified, member, now, req, serial>>

Steps == {"idle", "cycle", "upsert", "sync", "plants"}

Request ==
    [pc       : Steps,
     group    : Groups \cup {Null},    \* the body: id,
     parent   : Groups \cup {Null},    \* parent_id,
     plants   : SUBSET Plants,         \* plant_ids,
     base     : Nat,                   \* server_modified_at, if it was checked
     move     : BOOLEAN,               \* the query parameter move_plants
     stamp    : Nat,                   \* new_server_modified_at
     toCheck  : SUBSET Plants,         \* to_add, not yet checked
     toRemove : SUBSET Plants,         \* to_remove, not yet deleted
     toAdd    : SUBSET Plants,         \* to_add, not yet upserted
     locked   : SUBSET Plants,         \* membership rows it has written ...
     added    : SUBSET Plants]         \* ... and those that now name its group

Idle == [pc |-> "idle", group |-> Null, parent |-> Null, plants |-> {},
         base |-> Null, move |-> FALSE, stamp |-> Null, toCheck |-> {},
         toRemove |-> {}, toAdd |-> {}, locked |-> {}, added |-> {}]

Busy(r) == req[r].pc # "idle"
Exists(g) == g # Null /\ modified[g] # Null
\* Mutant: get_plant_ids_by_group selects the wrong column.
MembersByGroup(g) == {member[p] : p \in Plants}
Members(g) == {p \in Plants : member[p] = g}

\* What "serial" asks of the clients
Alone(r, g, par, plants) ==
    serial => \A q \in Requests \ {r} : Busy(q) =>
        /\ req[q].group # g
        /\ (req[q].plants \cup Members(req[q].group))
               \cap (plants \cup Members(g)) = {}
        /\ Null \in {req[q].parent, par}

\* Mutant: a connection goes back to the pool with its transaction open.
LeftOpen(r) ==
    /\ req' = [req EXCEPT ![r] = [Idle EXCEPT !.locked = req[r].locked]]
    /\ UNCHANGED <<parent, modified, member, now, serial>>

\* The transaction is rolled back: a 400, a 409, or no answer at all
RolledBack(r) ==
    /\ req' = [req EXCEPT ![r] = Idle]
    /\ UNCHANGED <<parent, modified, member, now, serial>>

Proceed(r, row) ==
    /\ req' = [req EXCEPT ![r] = row]
    /\ UNCHANGED <<parent, modified, member, now, serial>>
-----------------------------------------------------------------------------
(* Locks                                                                   *)

\* A plant_group row is written by the save that has upserted it.
HoldsGroup(r, g) == req[r].pc \in {"sync", "plants"} /\ req[r].group = g

GroupFree(r, g) == \A q \in Requests \ {r} : ~HoldsGroup(q, g)
PlantFree(r, p) == \A q \in Requests \ {r} : p \notin req[q].locked

\* The membership rows one of r's statements may wait for
Wanted(r) == CASE req[r].toCheck # {}  -> {p \in req[r].toCheck : req[r].move}
               [] req[r].toRemove # {} -> req[r].toRemove
               [] OTHER                -> req[r].toAdd

WaitsFor(r, q) ==
    /\ r # q
    /\ \/ req[r].pc = "upsert" /\ HoldsGroup(q, req[r].group)
       \/ req[r].pc = "plants" /\ Wanted(r) \cap req[q].locked # {}

\* r waits in a circle of saves, or for one.
Deadlocked(r) ==
    \E S \in SUBSET Requests :
        r \in S /\ \A q \in S : \E s \in S : WaitsFor(q, s)

\* deadlock_timeout: PostgreSQL aborts one of the saves, which one is open.
DeadlockAbort(r) == Deadlocked(r) /\ RolledBack(r)
-----------------------------------------------------------------------------
(* save                                                                    *)

\* Mutant: only forced saves are checked.
ConflictsForced(g, base, force) == Exists(g) /\ force /\ base # modified[g]

\* OptimisticLockingValidator.validate_object, for an object with no
\* collections
Conflicts(g, base, force) == Exists(g) /\ ~force /\ base # modified[g]

\* get_by_id, the clock, the optimistic lock and the self-reference guard.  (A
\* 409 or 400 here changes nothing and is left out.)
SaveRead(r, g, par, plants, base, force, move) ==
    /\ ~Busy(r) /\ now <= MaxSaves /\ Alone(r, g, par, plants)
    /\ ~Conflicts(g, base, force) /\ par # g
    /\ now' = now + 1
    /\ req' = [req EXCEPT ![r] =
                [Idle EXCEPT !.pc = IF par # Null /\ Exists(g)
                                    THEN "cycle" ELSE "upsert",
                             !.group = g, !.parent = par, !.plants = plants,
                             !.base = IF force THEN Null ELSE base,
                             !.move = move, !.stamp = now]]
    /\ UNCHANGED <<parent, modified, member, serial>>

\* check_cyclic_dependency: the rows the recursive CTE reaches from p, which
\* are in every set that holds p and the parents of its members
Closed(S) == \A x \in S : parent[x] # Null => parent[x] \in S

Ancestors(p) ==
    {x \in Groups : \A S \in SUBSET Groups : p \in S /\ Closed(S) => x \in S}

\* UNION ALL never ends on rows that already form a cycle: with asyncpg the
\* statement times out (command_timeout), which _check_cyclic_dependency turns
\* into a 400 as well.
Endless(p) == \A x \in Ancestors(p) : parent[x] # Null

\* Mutant: the CTE is given the ids in the wrong order.
CheckSwapped(r) ==
    /\ req[r].pc = "cycle"
    /\ IF req[r].parent \in Ancestors(req[r].group) \/ Endless(req[r].group)
       THEN RolledBack(r)
       ELSE Proceed(r, [req[r] EXCEPT !.pc = "upsert"])

\* _check_cyclic_dependency: is the group one of its new parent's ancestors?
CheckCycle(r) ==
    /\ req[r].pc = "cycle"
    /\ IF req[r].group \in Ancestors(req[r].parent) \/ Endless(req[r].parent)
       THEN RolledBack(r)
       ELSE Proceed(r, [req[r] EXCEPT !.pc = "upsert"])

\* upsert_group; the foreign key looks for the parent among committed rows
UpsertGroup(r) ==
    /\ req[r].pc = "upsert"
    /\ GroupFree(r, req[r].group)
    /\ IF req[r].parent # Null /\ ~Exists(req[r].parent)
       THEN RolledBack(r)
       ELSE Proceed(r, [req[r] EXCEPT !.pc = "sync"])

\* Mutant: plants no longer listed stay.
SyncAdditions(r) ==
    /\ req[r].pc = "sync"
    /\ LET new == req[r].plants \ Members(req[r].group) IN
           Proceed(r, [req[r] EXCEPT !.pc = "plants", !.toCheck = new,
                                     !.toAdd = new])

\* _sync_plant_ids: get_plant_ids_by_group
SyncRead(r) ==
    /\ req[r].pc = "sync"
    /\ LET current == Members(req[r].group) IN
           Proceed(r, [req[r] EXCEPT
               !.pc = "plants",
               !.toCheck = req[r].plants \ current,
               !.toAdd = req[r].plants \ current,
               !.toRemove = current \ req[r].plants])

\* Mutant: the plants to add are not checked.
NoCheck(r, p) ==
    /\ req[r].pc = "plants" /\ p \in req[r].toCheck
    /\ Proceed(r, [req[r] EXCEPT !.toCheck = @ \ {p}])

\* ... get_group_id_by_plant, for each plant to add, and with move_plants the
\* deletion of the membership it finds in another group
CheckPlant(r, p) ==
    /\ req[r].pc = "plants" /\ p \in req[r].toCheck
    /\ LET checked == [req[r] EXCEPT !.toCheck = @ \ {p}]
           elsewhere == member[p] \notin {Null, req[r].group}
       IN  \/ ~elsewhere /\ Proceed(r, checked)
           \/ elsewhere /\ ~req[r].move /\ RolledBack(r)
           \/ /\ elsewhere /\ req[r].move /\ PlantFree(r, p)
              /\ Proceed(r, [checked EXCEPT !.locked = @ \cup {p}])

\* ... delete_membership_by_plant, whatever group the row names by now
RemovePlant(r, p) ==
    /\ req[r].pc = "plants" /\ req[r].toCheck = {} /\ p \in req[r].toRemove
    /\ PlantFree(r, p)
    /\ Proceed(r, [req[r] EXCEPT
           !.toRemove = @ \ {p},
           !.locked = IF member[p] = Null THEN @ ELSE @ \cup {p}])

\* ... upsert_membership, whatever group the row names by now
AddPlant(r, p) ==
    /\ req[r].pc = "plants"
    /\ req[r].toCheck = {} /\ req[r].toRemove = {} /\ p \in req[r].toAdd
    /\ PlantFree(r, p)
    /\ Proceed(r, [req[r] EXCEPT !.toAdd = @ \ {p}, !.locked = @ \cup {p},
                                 !.added = @ \cup {p}])

\* The commit publishes what the save has written.
Commit(r) ==
    /\ req[r].pc = "plants"
    /\ req[r].toCheck = {} /\ req[r].toRemove = {} /\ req[r].toAdd = {}
    /\ parent' = [parent EXCEPT ![req[r].group] = req[r].parent]
    /\ modified' = [modified EXCEPT ![req[r].group] = req[r].stamp]
    /\ member' = [p \in Plants |->
                     IF p \in req[r].added THEN req[r].group
                     ELSE IF p \in req[r].locked THEN Null ELSE member[p]]
    /\ req' = [req EXCEPT ![r] = Idle]
    /\ UNCHANGED <<now, serial>>

\* The process, its connection or its client is gone.
Crash(r) == Busy(r) /\ RolledBack(r)
-----------------------------------------------------------------------------
Init ==
    /\ parent = [g \in Groups |-> Null]
    /\ modified = [g \in Groups |-> Null]
    /\ member = [p \in Plants |-> Null]
    /\ now = 1
    /\ req = [r \in Requests |-> Idle]
    /\ serial \in BOOLEAN

Serve(r) ==
    \/ CheckCycle(r) \/ UpsertGroup(r) \/ SyncRead(r) \/ Commit(r)
    \/ \E p \in Plants : CheckPlant(r, p) \/ RemovePlant(r, p) \/ AddPlant(r, p)
    \/ DeadlockAbort(r)

\* The version a client sends is the one the group has, or an older one.
Send(r) ==
    \E g \in Groups, par \in Groups \cup {Null}, plants \in SUBSET Plants,
       force, move \in BOOLEAN :
        \E base \in {modified[g]} \cup 1..(modified[g] - 1) :
            SaveRead(r, g, par, plants, base, force, move)

Next == \E r \in Requests : Send(r) \/ Serve(r) \/ Crash(r)

Spec == Init /\ [][Next]_vars
-----------------------------------------------------------------------------
(* Properties                                                              *)

\* Every variable has its type.
TypeOK ==
    /\ parent \in [Groups -> Groups \cup {Null}]
    /\ modified \in [Groups -> Nat]
    /\ member \in [Plants -> Groups \cup {Null}]
    /\ now \in Nat
    /\ req \in [Requests -> Request]
    /\ serial \in BOOLEAN

\* Every set of groups has one whose parent is outside of it: the groups form
\* a forest.  routers/plant_group.py promises it ("Prevents cyclic
\* dependencies when moving groups").
Acyclic ==
    \A S \in SUBSET Groups : S # {} => \E g \in S : parent[g] \notin S

\* While saves that set a parent take turns, the groups form a forest.
TurnsKeepForest == serial => Acyclic

\* Taking turns, a save that commits leaves its group with the plants its body
\* lists, those that were moved to it and those that were there included.
SavedAsAsked ==
    [][serial => \A r \in Requests : Commit(r) =>
           {p \in Plants : member'[p] = req[r].group} = req[r].plants]_vars

\* Taking turns, a plant leaves a group for another one only in a save with
\* move_plants=true.
NoSilentMove ==
    [][serial => \A p \in Plants :
           (member[p] # Null /\ member'[p] \notin {Null, member[p]}) =>
               \E r \in Requests : Commit(r) /\ req[r].move]_vars

\* Taking turns, a save without force overwrites only the version its client
\* had, and the version a group gets is later than the one it had.
VersionsChecked ==
    [][serial => \A r \in Requests : Commit(r) => LET g == req[r].group IN
           /\ modified'[g] > modified[g]
           /\ Null \in {req[r].base, modified[g]} \/ req[r].base = modified[g]]_vars

\* Saves in flight never all wait, whatever rows they move and in whatever
\* order: one of them waits for nobody, or is in a deadlock, which PostgreSQL
\* ends.  No save waits for a row that one before it has left locked.
NoStandstill ==
    (\E r \in Requests : Busy(r)) =>
        \E r \in Requests :
            /\ Busy(r)
            /\ Deadlocked(r) \/ \A q \in Requests : ~WaitsFor(r, q)

\* tests/test_plant_group.py, test_modified_since_reflects_membership_change:
\* a group whose members change appears in modified_since filter results.
MembershipVersioned ==
    [][\A g \in Groups :
           {p \in Plants : member'[p] = g} # Members(g) =>
               modified'[g] # modified[g]]_vars
=============================================================================
