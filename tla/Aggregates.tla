---------------------------- MODULE Aggregates ----------------------------
(***************************************************************************)
(* The aggregates of a plant that inspectors edit offline and synchronise: *)
(* equipment with its control points, inspections with their steps, work   *)
(* logs with their inspectors, defects, equipment properties and sticker   *)
(* installations.  A client PUTs one aggregate at a time and pulls all     *)
(* that is newer than what it has seen (GET /by_plant with                 *)
(* modified_since).                                                        *)
(*                                                                         *)
(* The six tables share one protocol, and a behaviour is about one of them *)
(* ("kind").  A request is one transaction at READ COMMITTED, run          *)
(* statement by statement between those of other requests; from its upsert *)
(* to its commit it holds the row of its aggregate locked, and what it     *)
(* writes is published at the commit.  A client is an inspector with a     *)
(* device and has one request in flight.                                   *)
(*                                                                         *)
(* Of the fields of a row, "owner" is the inspector_id of a work log, and  *)
(* stands for the fields of a sticker installation that its save compares  *)
(* (immutable_fields, which installed_at is not among); the others, and    *)
(* those of a child, are left out.  A version is the moment                *)
(* the server read its clock; comparing versions in milliseconds           *)
(* (truncate_to_milliseconds) is exact if no two saves share one.  What an *)
(* aggregate hangs on (facility, equipment) is there: clients save it      *)
(* first, although no foreign key makes them.                              *)
(***************************************************************************)
EXTENDS Integers, FiniteSets

CONSTANTS
    Clients,                  \* inspectors, each with a device
    Aggregates,               \* ids of aggregates
    Children,                 \* ids of children; for work logs, inspectors
    Kinds,                    \* the kinds to look at
    Level,                    \* the access level of each client
    Members,                  \* the clients with access to the plant
    RequireAuth,              \* settings.require_auth; if not, all are anonymous
    DisableOptimisticLocking, \* settings.disable_optimistic_locking
    MaxStamps                 \* bound of a run: versions ever given out

\* SQL NULL; also the version of an aggregate that has no row
Null == 0

READ == 0
INSPECT == 1
MODIFY == 2
VERIFY == 3

OneParent == {"equipment", "inspection"}  \* a child row has one parent
Owned == {"work_log", "sticker"}
AllKinds == OneParent \cup Owned \cup {"defect", "equipment_properties"}

ASSUME IdsAssumption == Null \notin Clients \cup Aggregates
ASSUME KindsAssumption == Kinds \subseteq AllKinds
ASSUME LevelAssumption == Level \in [Clients -> READ..VERIFY]
ASSUME MembersAssumption == Members \subseteq Clients
ASSUME SettingsAssumption ==
    RequireAuth \in BOOLEAN /\ DisableOptimisticLocking \in BOOLEAN
ASSUME BoundsAssumption == MaxStamps \in Nat

VARIABLES
    kind,    \* rigid: the kind of aggregate
    serial,  \* rigid: saves take turns, and claims pass only between them
    row,     \* the table of the aggregates
    part,    \* the table of their children
    holder,  \* whose device has the claim of the plant
    now,     \* the clock: the version the next save will take
    copy,    \* what each client has of each aggregate
    since,   \* the latest version each client has pulled
    req      \* the request each client has in flight

vars == <<kind, serial, row, part, holder, now, copy, since, req>>
tables == <<kind, serial, row, part, holder>>

Row == [version : Nat, owner : Clients \cup {Null}]
PartState == {"none", "live", "deleted"}
Copy == [version : Nat, live : SUBSET Children]
Steps == {"idle", "owner", "check", "upsert", "parents", "write", "insert",
          "pull", "refused"}
Request ==
    [pc       : Steps,
     agg      : Aggregates \cup {Null},
     live     : SUBSET Children,      \* the body: the children it has ...
     gone     : SUBSET Children,      \* ... and those with is_deleted
     owner    : Clients \cup {Null},
     force    : BOOLEAN,
     stamp    : Nat,                  \* new_server_modified_at
     existing : SUBSET Children,      \* existing_ids
     got      : [Aggregates -> Nat]]  \* a pull: the versions of the rows read

NoRow == [version |-> Null, owner |-> Null]
NoCopy == [version |-> Null, live |-> {}]
NoRows == [a \in Aggregates |-> Null]
Idle == [pc |-> "idle", agg |-> Null, live |-> {}, gone |-> {},
         owner |-> Null, force |-> FALSE, stamp |-> Null, existing |-> {},
         got |-> NoRows]

Exists(a) == row[a].version # Null
LiveIn(parts, a) == {k \in Children : parts[a][k] = "live"}
Live(a) == LiveIn(part, a)
PartsOf(a) == {k \in Children : part[a][k] # "none"}
Sent(c) == req[c].live \cup req[c].gone
Saving(c) == req[c].pc \notin {"idle", "pull", "refused"}

\* Another request has upserted the row and not committed yet.
Locked(c, a) ==
    \E d \in Clients \ {c} :
        req[d].pc \in {"parents", "write"} /\ req[d].agg = a

MayTurn(c) == serial => \A d \in Clients \ {c} : ~Saving(d)

\* The request goes on with its next statement, having changed nothing.
GoTo(c, pc) ==
    /\ req' = [req EXCEPT ![c].pc = pc]
    /\ UNCHANGED <<tables, now, copy, since>>

\* The request is refused (ConcurrentModificationError: 409, ValueError: 400)
\* and its transaction rolled back.
Refuse(c) ==
    /\ req' = [req EXCEPT ![c] = [Idle EXCEPT !.pc = "refused"]]
    /\ UNCHANGED <<tables, now, copy, since>>

\* The row and the children the client gets in the answer, if it gets it
Answered(c, a, live) ==
    copy' \in {copy, [copy EXCEPT ![c][a] =
                         [version |-> row'[a].version, live |-> live]]}
-----------------------------------------------------------------------------
(* The routers: permission checks and the body of a PUT                    *)

\* check_access_level
HasLevel(c, level) == ~RequireAuth \/ Level[c] >= level

\* check_plant_access
HasAccess(c) == ~RequireAuth \/ c \in Members

\* A PUT of a client with the access level; access to the plant is asked for
\* only when the aggregate is there (get_plant_id_from_... finds it).
Put(c, level, a, live, gone, owner, force) ==
    /\ req[c].pc = "idle" /\ MayTurn(c)
    /\ HasLevel(c, level)
    /\ Exists(a) => HasAccess(c)
    /\ req' = [req EXCEPT ![c] =
                [Idle EXCEPT !.pc = "owner", !.agg = a, !.live = live,
                             !.gone = gone, !.owner = owner, !.force = force]]
    /\ UNCHANGED <<tables, now, copy, since>>

\* upsert_equipment
PutEquipment(c) ==
    /\ kind = "equipment"
    /\ \E a \in Aggregates, sent \in SUBSET Children, force \in BOOLEAN :
       \E gone \in SUBSET sent :
           Put(c, MODIFY, a, sent \ gone, gone, Null, force)

\* upsert_inspection
PutInspection(c) ==
    /\ kind = "inspection"
    /\ \E a \in Aggregates, sent \in SUBSET Children, force \in BOOLEAN :
       \E gone \in SUBSET sent :
           Put(c, INSPECT, a, sent \ gone, gone, Null, force)

\* upsert_work_log; the body may name another inspector_id.
PutWorkLog(c) ==
    /\ kind = "work_log"
    /\ \E a \in Aggregates, live \in SUBSET Children, owner \in Clients,
          force \in BOOLEAN :
           Put(c, INSPECT, a, live, {}, owner, force)

\* upsert_defect; no ownership is validated.
PutDefect(c) ==
    /\ kind = "defect"
    /\ \E a \in Aggregates, force \in BOOLEAN :
           Put(c, INSPECT, a, {}, {}, Null, force)

\* upsert_equipment_properties asks for access to the plant of the equipment,
\* also for a new row; no ownership is validated.
PutProperties(c) ==
    /\ kind = "equipment_properties" /\ HasAccess(c)
    /\ \E a \in Aggregates, force \in BOOLEAN :
           Put(c, INSPECT, a, {}, {}, Null, force)

\* upsert_sticker checks neither level nor access.  The version will be the
\* start of the transaction (DEFAULT CURRENT_TIMESTAMP).
PutSticker(c) ==
    /\ kind = "sticker" /\ req[c].pc = "idle" /\ MayTurn(c)
    /\ now <= MaxStamps
    /\ now' = now + 1
    /\ \E a \in Aggregates, content \in Clients :
           req' = [req EXCEPT ![c] =
                    [Idle EXCEPT !.pc = "insert", !.agg = a, !.stamp = now,
                                 !.owner = content]]
    /\ UNCHANGED <<tables, copy, since>>
-----------------------------------------------------------------------------
(* OwnershipValidator: a claim or an owner binds, also with force          *)

Validated(c, valid) ==
    /\ req[c].pc = "owner"
    /\ IF ~RequireAuth \/ ~Exists(req[c].agg) \/ valid
       THEN GoTo(c, "check") ELSE Refuse(c)

\* Mutant: a plant that nobody has claimed is free for all.
UnclaimedIsFree(c) ==
    kind = "equipment" /\ Validated(c, holder \in {Null, c})

\* validate_equipment_ownership reads the claim of the plant.
EquipmentOwnership(c) == kind = "equipment" /\ Validated(c, holder = c)

\* validate_inspection_ownership refuses a body that lacks a live step.
InspectionOwnership(c) ==
    /\ kind = "inspection"
    /\ Validated(c, Live(req[c].agg) \subseteq Sent(c))

\* Mutant: the owner of the body is compared.
WorkLogOfBody(c) == kind = "work_log" /\ Validated(c, req[c].owner = c)

\* validate_work_log_ownership
WorkLogOwnership(c) ==
    kind = "work_log" /\ Validated(c, row[req[c].agg].owner = c)

\* The routers of defects and equipment properties go on without it.
NoOwnership(c) ==
    /\ kind \in {"defect", "equipment_properties"}
    /\ req[c].pc = "owner"
    /\ GoTo(c, "check")
-----------------------------------------------------------------------------
(* save of the repositories                                                *)

\* Mutant: the extra children are not looked for.
ConflictsVersion(c, a) == copy[c][a].version # row[a].version

\* The version the client has, and live children the body lacks
Conflicts(c, a) ==
    \/ copy[c][a].version # row[a].version
    \/ ~(Live(a) \subseteq Sent(c))

\* Mutant: versions count the saves of a row.
CheckCounts(c) ==
    LET a == req[c].agg
        unchecked == req[c].force \/ DisableOptimisticLocking IN
    /\ req[c].pc = "check"
    /\ IF Exists(a) /\ ~unchecked /\ Conflicts(c, a)
       THEN Refuse(c)
       ELSE /\ now <= MaxStamps
            /\ now' = now + 1
            /\ req' = [req EXCEPT ![c].pc = "upsert", ![c].stamp =
                           row[a].version + 1]
            /\ UNCHANGED <<tables, copy, since>>

\* get_by_id, the clock and the comparison; a missing version is none.
Check(c) ==
    LET a == req[c].agg
        unchecked == req[c].force \/ DisableOptimisticLocking IN
    /\ req[c].pc = "check"
    /\ IF Exists(a) /\ ~unchecked /\ Conflicts(c, a)
       THEN Refuse(c)
       ELSE /\ now <= MaxStamps
            /\ now' = now + 1
            /\ req' = [req EXCEPT ![c].pc = "upsert", ![c].stamp = now]
            /\ UNCHANGED <<tables, copy, since>>

\* Mutant: the children are synchronised before the row is written.
UpsertLate(c) == req[c].pc = "upsert" /\ GoTo(c, "parents")

\* The upsert waits for the row, and holds it from here on.
Upsert(c) ==
    /\ req[c].pc = "upsert" /\ ~Locked(c, req[c].agg)
    /\ GoTo(c, "parents")

\* An aggregate without children is upserted and committed.
UpsertOnly(c) ==
    LET a == req[c].agg IN
    /\ req[c].pc = "upsert"
    /\ row' = [row EXCEPT ![a].version = req[c].stamp]
    /\ req' = [req EXCEPT ![c] = Idle]
    /\ UNCHANGED <<kind, serial, part, holder, now, since>>
    /\ Answered(c, a, {})

\* The ids of the children the aggregate has, deleted ones included; a child
\* that is new to it must not be in another aggregate.
ReadParents(c) ==
    LET a == req[c].agg IN
    /\ req[c].pc = "parents"
    /\ IF \E k \in Sent(c) \ PartsOf(a), b \in Aggregates \ {a} :
              k \in PartsOf(b)
       THEN Refuse(c)
       ELSE /\ req' = [req EXCEPT ![c].pc = "write",
                                  ![c].existing = PartsOf(a)]
            /\ UNCHANGED <<tables, now, copy, since>>

\* The upserts of the children, wherever they are by now, and with force the
\* deletion of the others, by id.
Synced(c) ==
    [b \in Aggregates |-> [k \in Children |->
        IF k \in Sent(c)
        THEN IF b # req[c].agg THEN "none"
             ELSE IF k \in req[c].gone THEN "deleted" ELSE "live"
        ELSE IF req[c].force /\ k \in req[c].existing /\ part[b][k] = "live"
        THEN "deleted"
        ELSE part[b][k]]]

\* Mutant: server_modified_at is not in DO UPDATE SET.
PublishUnversioned(c, parts) ==
    LET a == req[c].agg IN
    /\ req[c].pc = "write"
    /\ row' = [row EXCEPT ![a] =
                  [version |-> IF Exists(a) THEN @.version ELSE req[c].stamp,
                   owner |-> req[c].owner]]
    /\ part' = parts
    /\ req' = [req EXCEPT ![c] = Idle]
    /\ UNCHANGED <<kind, serial, holder, now, since>>
    /\ Answered(c, a, LiveIn(parts, a))

\* The children are written, and the transaction commits.
Publish(c, parts) ==
    LET a == req[c].agg IN
    /\ req[c].pc = "write"
    /\ row' = [row EXCEPT ![a] = [version |-> req[c].stamp,
                                  owner |-> req[c].owner]]
    /\ part' = parts
    /\ req' = [req EXCEPT ![c] = Idle]
    /\ UNCHANGED <<kind, serial, holder, now, since>>
    /\ Answered(c, a, LiveIn(parts, a))

\* _sync_control_points
SyncControlPoints(c) == ReadParents(c) \/ Publish(c, Synced(c))

\* _sync_steps
SyncSteps(c) == ReadParents(c) \/ Publish(c, Synced(c))

\* _sync_inspectors: an inspector may be in many work logs, and one that is
\* not in the body is removed with or without force.  (The query sees only
\* inspectors whose account is not deleted; accounts stay here.)
SyncInspectors(c) ==
    \/ /\ req[c].pc = "parents"
       /\ req' = [req EXCEPT ![c].pc = "write",
                             ![c].existing = PartsOf(req[c].agg)]
       /\ UNCHANGED <<tables, now, copy, since>>
    \/ Publish(c, [part EXCEPT ![req[c].agg] =
                     [k \in Children |->
                         IF k \in req[c].live THEN "live"
                         ELSE IF k \in req[c].existing THEN "none"
                         ELSE @[k]]])

\* EquipmentRepository.save
SaveEquipment(c) ==
    /\ kind = "equipment"
    /\ Check(c) \/ Upsert(c) \/ SyncControlPoints(c)

\* InspectionRepository.save
SaveInspection(c) ==
    /\ kind = "inspection"
    /\ Check(c) \/ Upsert(c) \/ SyncSteps(c)

\* WorkLogRepository.save
SaveWorkLog(c) ==
    /\ kind = "work_log"
    /\ Check(c) \/ Upsert(c) \/ SyncInspectors(c)

\* DefectRepository.save
SaveDefect(c) ==
    /\ kind = "defect"
    /\ Check(c) \/ UpsertOnly(c)

\* EquipmentPropertiesRepository.save
SaveProperties(c) ==
    /\ kind = "equipment_properties"
    /\ Check(c) \/ UpsertOnly(c)

\* Mutant: id and inspector_id are passed in the wrong order.
StickerSwapped(c) ==
    LET a == req[c].agg IN
    /\ kind = "sticker" /\ req[c].pc = "insert"
    /\ row' = [row EXCEPT ![a] = [version |-> req[c].stamp, owner |-> a]]
    /\ req' = [req EXCEPT ![c] = Idle]
    /\ UNCHANGED <<kind, serial, part, holder, now, since>>
    /\ Answered(c, a, {})

\* Mutant: ON CONFLICT (id) DO UPDATE.
StickerUpserted(c) ==
    LET a == req[c].agg IN
    /\ kind = "sticker" /\ req[c].pc = "insert"
    /\ row' = [row EXCEPT ![a] = [version |-> req[c].stamp,
                                  owner |-> req[c].owner]]
    /\ req' = [req EXCEPT ![c] = Idle]
    /\ UNCHANGED <<kind, serial, part, holder, now, since>>
    /\ Answered(c, a, {})

\* StickerInstallationRepository.save: INSERT ... ON CONFLICT DO NOTHING, which
\* waits for an uncommitted row of that id, and the comparison with the row.
SaveSticker(c) ==
    LET a == req[c].agg IN
    /\ kind = "sticker" /\ req[c].pc = "insert"
    /\ IF Exists(a) /\ row[a].owner # req[c].owner
       THEN Refuse(c)
       ELSE /\ row' = IF Exists(a) THEN row
                      ELSE [row EXCEPT ![a] = [version |-> req[c].stamp,
                                               owner |-> req[c].owner]]
            /\ req' = [req EXCEPT ![c] = Idle]
            /\ UNCHANGED <<kind, serial, part, holder, now, since>>
            /\ Answered(c, a, {})
-----------------------------------------------------------------------------
(* GET /by_plant: what is newer than the client has seen                   *)

NewRows(c) ==
    [a \in Aggregates |->
        IF row[a].version > since[c] THEN row[a].version ELSE Null]

\* The rows; where there are none the answer is empty.
PullRows(c) ==
    /\ req[c].pc = "idle" /\ HasAccess(c)
    /\ NewRows(c) # NoRows
    /\ req' = [req EXCEPT ![c].pc = "pull", ![c].got = NewRows(c)]
    /\ UNCHANGED <<tables, now, copy, since>>

\* Then their children, and the answer.  The client asks next for what is
\* later than all it got.
PullChildren(c) ==
    LET got == req[c].got IN
    /\ req[c].pc = "pull"
    /\ copy' = [copy EXCEPT ![c] =
                  [a \in Aggregates |->
                      IF got[a] = Null THEN @[a]
                      ELSE [version |-> got[a], live |-> Live(a)]]]
    /\ \E last \in Aggregates :
           /\ \A a \in Aggregates : got[a] <= got[last]
           /\ since' = [since EXCEPT ![c] = got[last]]
    /\ req' = [req EXCEPT ![c] = Idle]
    /\ UNCHANGED <<tables, now>>

Pull(c) == PullRows(c) \/ PullChildren(c)
PullEquipment(c) == kind = "equipment" /\ Pull(c)
PullInspections(c) == kind = "inspection" /\ Pull(c)
PullWorkLogs(c) == kind = "work_log" /\ Pull(c)
PullDefects(c) == kind = "defect" /\ Pull(c)
PullProperties(c) == kind = "equipment_properties" /\ Pull(c)
PullStickers(c) == kind = "sticker" /\ Pull(c)
-----------------------------------------------------------------------------
\* A refused request is over; any other rolls back when its process, connection
\* or client is gone.
End(c) ==
    /\ req[c].pc # "idle"
    /\ req' = [req EXCEPT ![c] = Idle]
    /\ UNCHANGED <<tables, now, copy, since>>

\* The claim of the plant passes on, or is released (PlantClaims).
ClaimPasses ==
    /\ kind = "equipment"
    /\ serial => \A c \in Clients : ~Saving(c)
    /\ holder' \in (Clients \cup {Null}) \ {holder}
    /\ UNCHANGED <<kind, serial, row, part, now, copy, since, req>>

Init ==
    /\ kind \in Kinds
    /\ serial \in BOOLEAN
    /\ row = [a \in Aggregates |-> NoRow]
    /\ part = [a \in Aggregates |-> [k \in Children |-> "none"]]
    /\ holder = Null
    /\ now = 1
    /\ copy = [c \in Clients |-> [a \in Aggregates |-> NoCopy]]
    /\ since = [c \in Clients |-> Null]
    /\ req = [c \in Clients |-> Idle]

Serve(c) ==
    \/ PutEquipment(c) \/ EquipmentOwnership(c) \/ SaveEquipment(c)
    \/ PutInspection(c) \/ InspectionOwnership(c) \/ SaveInspection(c)
    \/ PutWorkLog(c) \/ WorkLogOwnership(c) \/ SaveWorkLog(c)
    \/ PutDefect(c) \/ PutProperties(c) \/ NoOwnership(c)
    \/ SaveDefect(c) \/ SaveProperties(c)
    \/ PutSticker(c) \/ SaveSticker(c)
    \/ PullEquipment(c) \/ PullInspections(c) \/ PullWorkLogs(c)
    \/ PullDefects(c) \/ PullProperties(c) \/ PullStickers(c)

Next == ClaimPasses \/ \E c \in Clients : Serve(c) \/ End(c)

Spec == Init /\ [][Next]_vars
-----------------------------------------------------------------------------
(* Properties                                                              *)

\* Every variable has its type.
TypeOK ==
    /\ kind \in Kinds
    /\ serial \in BOOLEAN
    /\ row \in [Aggregates -> Row]
    /\ part \in [Aggregates -> [Children -> PartState]]
    /\ holder \in Clients \cup {Null}
    /\ now \in Nat
    /\ copy \in [Clients -> [Aggregates -> Copy]]
    /\ since \in [Clients -> Nat]
    /\ req \in [Clients -> Request]

\* Saves taking turns, a client that asks for what is later than all it has
\* seen misses nothing: an aggregate that is not later is the one it has.
NothingMissed ==
    serial => \A c \in Clients, a \in Aggregates :
        row[a].version <= since[c] => copy[c][a].version = row[a].version

\* Saves taking turns, a client whose copy has the version of the aggregate has
\* its children too, although a pull reads rows and children one after the
\* other: no save can be accepted on top of children the client never saw.
CopiesAreWhole ==
    serial => \A c \in Clients, a \in Aggregates :
        copy[c][a].version = row[a].version => copy[c][a].live = Live(a)

\* Whatever other requests do, a forced save leaves exactly the live children
\* it sent (routers/equipment.py: "Marks extra child entities as deleted").
ForcedSaveIsWhole ==
    [][\A c \in Clients, a \in Aggregates :
           (req[c].pc = "write" /\ req[c].force /\ req[c].agg = a
               /\ row'[a] # row[a]) => LiveIn(part', a) = req[c].live]_vars

\* A sticker installation never changes once it is there, and a client is told
\* that its PUT succeeded only if the immutable fields there are those it sent:
\* a PUT sent again is safe (routers/sticker_installation.py: 'Never allows
\* "stealing" a sticker').
FirstStickerStays ==
    [][kind = "sticker" =>
           /\ \A a \in Aggregates : Exists(a) => row'[a] = row[a]
           /\ \A c \in Clients, a \in Aggregates :
                  (req[c].pc = "insert" /\ copy'[c][a] # copy[c][a]) =>
                      row'[a].owner = req[c].owner]_vars

\* Saves taking turns, a work log is changed only by its owner
\* (routers/work_log.py: "Only the user who created the work log can modify
\* it").
OwnerKeepsWorkLog ==
    [][(kind = "work_log" /\ serial /\ RequireAuth) =>
           \A c \in Clients, a \in Aggregates :
               (req[c].pc = "write" /\ Exists(a) /\ row'[a] # row[a]) =>
                   row[a].owner = c]_vars

\* If saves take turns and the claim passes on only between them, equipment
\* that exists is changed only from the device that holds the claim at that
\* moment (routers/equipment.py: "Only the user who claimed the parent plant
\* can modify equipment").
ClaimedSave ==
    [][(kind = "equipment" /\ serial /\ RequireAuth) =>
           \A c \in Clients, a \in Aggregates :
               (req[c].pc = "write" /\ Exists(a) /\ row'[a] # row[a]) =>
                   holder = c]_vars

\* What a client is waiting for while its save is in flight
Pending(c) ==
    IF Saving(c)
    THEN [agg |-> req[c].agg, live |-> req[c].live, force |-> req[c].force]
    ELSE [agg |-> Null, live |-> {}, force |-> FALSE]

Register == INSTANCE AggregateRegister WITH
    version <- [a \in Aggregates |-> row[a].version],
    parts <- [a \in Aggregates |-> Live(a)],
    known <- [c \in Clients |-> [a \in Aggregates |-> copy[c][a].version]],
    asked <- [c \in Clients |-> Pending(c)]

\* Saves taking turns, each is one step on a register that is replaced as a
\* whole: without force only by a client that knows the version it replaces,
\* and without touching the children of another aggregate.
ActsAsRegister ==
    Register!Init /\ [][serial => Register!Next]_(Register!vars)

\* routers/equipment.py, upsert_equipment: 'Never allows "stealing" child
\* entities from other equipment'.  It does not hold without turns: see README.
NeverStolen ==
    [][(kind \in OneParent) => \A a \in Aggregates, k \in Children :
           part[a][k] # "none" => part'[a][k] # "none"]_vars

\* routers/inspection.py, upsert_inspection: "force=true: [...] Marks extra
\* child entities as deleted".  With authentication the owner check refuses
\* such a save: see README.
ForceIsHeard ==
    [][\A c \in Clients :
           (req[c].pc = "owner" /\ req[c].force) =>
               req'[c].pc # "refused"]_vars
=============================================================================
