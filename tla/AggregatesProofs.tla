------------------------- MODULE AggregatesProofs -------------------------
(***************************************************************************)
(* Proofs about Aggregates, for any clients, aggregates, children, access  *)
(* levels and settings.                                                    *)
(*                                                                         *)
(* The inductive invariant IInv says of the tables that versions come from *)
(* the clock, that children belong to aggregates that are there and that a *)
(* control point or step belongs to one (Tables); of a request in flight   *)
(* what its own statements make sure of, whatever the others do (Fields),  *)
(* and that no two requests hold the same row (Locks); and, while saves    *)
(* take turns, how copies and pulls relate to the tables (Copies, Pulled)  *)
(* and what the checks of a save have established (Checked).               *)
(***************************************************************************)
EXTENDS Aggregates, TLAPS

SavingSteps == {"owner", "check", "upsert", "parents", "write", "insert"}
StampedSteps == {"upsert", "parents", "write", "insert"}
LockingSteps == {"parents", "write"}
WithChildren == OneParent \cup {"work_log"}

\* Versions come from the clock; children and their aggregates
Tables ==
    /\ now >= 1
    /\ \A a \in Aggregates : row[a].version < now
    /\ \A c \in Clients : since[c] < now
    /\ \A a \in Aggregates, k \in Children :
           part[a][k] # "none" => Exists(a) /\ kind \in WithChildren
    /\ kind \in OneParent => \A a, b \in Aggregates, k \in Children :
           part[a][k] # "none" /\ part[b][k] # "none" => a = b

\* What holds of every request, whatever the others do
Fields(c) ==
    /\ req[c].pc \in SavingSteps =>
           /\ req[c].agg \in Aggregates
           /\ req[c].pc = "insert" <=> kind = "sticker"
           /\ req[c].live # {} => kind \in WithChildren
           /\ req[c].gone # {} => kind \in OneParent
           /\ req[c].live \cap req[c].gone = {}
    /\ req[c].pc \in StampedSteps => req[c].stamp # Null /\ req[c].stamp < now
    /\ req[c].pc \in LockingSteps => kind \in WithChildren
    /\ req[c].pc = "write" => PartsOf(req[c].agg) \subseteq req[c].existing
    /\ req[c].pc = "pull" => \A a \in Aggregates : req[c].got[a] < now

\* A row is locked by one request.
Locks ==
    \A c, d \in Clients :
        (req[c].pc \in LockingSteps /\ req[d].pc \in LockingSteps
            /\ req[c].agg = req[d].agg) => c = d

\* One save at a time
OneTurn == \A c, d \in Clients : Saving(c) /\ Saving(d) => c = d

\* A copy is an earlier state of the aggregate, and no earlier state is missing.
Copies ==
    \A c \in Clients, a \in Aggregates :
        /\ copy[c][a].version <= row[a].version
        /\ copy[c][a].version = row[a].version => copy[c][a].live = Live(a)
        /\ row[a].version <= since[c] => copy[c][a].version = row[a].version

\* What a pull has read is still so, or later than all it has read.
Pulled(c) ==
    req[c].pc = "pull" => \A a \in Aggregates :
        /\ req[c].got[a] <= row[a].version
        /\ req[c].got[a] # Null =>
               since[c] < req[c].got[a] /\ copy[c][a].version <= req[c].got[a]
        /\ \/ row[a].version = req[c].got[a]
           \/ req[c].got[a] = Null /\ row[a].version <= since[c]
           \/ \A b \in Aggregates : req[c].got[b] < row[a].version

\* What the checks of a save have established about its aggregate
Checked(c) ==
    LET a == req[c].agg IN
    /\ req[c].pc \in StampedSteps =>
           /\ \A b \in Aggregates : row[b].version < req[c].stamp
           /\ \A d \in Clients : since[d] < req[c].stamp
    /\ req[c].pc \in {"upsert", "parents", "write"} =>
           \/ req[c].force \/ DisableOptimisticLocking
           \/ copy[c][a].version = row[a].version /\ Live(a) \subseteq Sent(c)
    /\ req[c].pc = "write" =>
           /\ req[c].existing = PartsOf(a)
           /\ kind \in OneParent => \A b \in Aggregates \ {a}, k \in Sent(c) :
                  part[b][k] = "none"
    /\ (req[c].pc \in {"check", "upsert", "parents", "write"} /\ RequireAuth
           /\ Exists(a)) =>
           /\ kind = "work_log" => row[a].owner = c
           /\ kind = "equipment" => holder = c

InTurn ==
    /\ OneTurn
    /\ Copies
    /\ \A c \in Clients : Pulled(c) /\ Checked(c)

IInv ==
    /\ TypeOK
    /\ Tables
    /\ \A c \in Clients : Fields(c)
    /\ Locks
    /\ serial => InTurn
-----------------------------------------------------------------------------
(* Two kinds of step                                                       *)

\* A client with no request has its type.
LEMMA IdleType == Idle \in Request
BY DEF Idle, Request, Steps, Null, NoRows

\* Null is a version.
LEMMA NullType == Null \in Nat
BY DEF Null

\* Another row for one request leaves the others.
LEMMA OneRequest ==
    ASSUME TypeOK, NEW c \in Clients, NEW r, req' = [req EXCEPT ![c] = r]
    PROVE  req'[c] = r /\ \A d \in Clients \ {c} : req'[d] = req[d]
BY DEF TypeOK

\* A step of one request that leaves the tables and the copies alone
LEMMA QuietStep ==
    ASSUME IInv, NEW c \in Clients, NEW r \in Request,
           req' = [req EXCEPT ![c] = r], UNCHANGED <<tables, copy, since>>,
           now' \in Nat, now <= now',
           Fields(c)',
           r.pc \in LockingSteps =>
               \A d \in Clients \ {c} :
                   req[d].pc \in LockingSteps => req[d].agg # r.agg,
           serial => Pulled(c)' /\ Checked(c)',
           serial /\ Saving(c)' => \A d \in Clients \ {c} : ~Saving(d)
    PROVE  IInv'
<1>1. req'[c] = r /\ \A d \in Clients \ {c} : req'[d] = req[d]
  BY OneRequest DEF IInv
<1>2. TypeOK'
  BY DEF IInv, TypeOK, tables
<1>3. now \in Nat /\ (\A a \in Aggregates : row[a].version \in Nat)
      /\ (\A d \in Clients : since[d] \in Nat /\ req[d].stamp \in Nat)
      /\ (\A d \in Clients, a \in Aggregates : req[d].got[a] \in Nat)
  BY DEF IInv, TypeOK, Row, Request
<1>4. Tables'
  BY <1>3 DEF IInv, Tables, tables, Exists
<1>5. ASSUME NEW d \in Clients PROVE Fields(d)'
  <2>1. CASE d = c
    BY <2>1
  <2>2. CASE d # c
    <3>1. Fields(d) /\ req'[d] = req[d]
      BY <1>1, <2>2 DEF IInv
    <3>2. req[d].pc = "pull" => \A a \in Aggregates : req[d].got[a] < now'
      BY <3>1, <1>3 DEF Fields
    <3>3. req[d].pc \in StampedSteps =>
              req[d].stamp # Null /\ req[d].stamp < now'
      BY <3>1, <1>3 DEF Fields
    <3>4. req[d].pc = "write" => PartsOf(req[d].agg)' \subseteq req[d].existing
      BY <3>1 DEF Fields, tables, PartsOf
    <3> QED
      BY <3>1, <3>2, <3>3, <3>4 DEF Fields, tables
  <2> QED
    BY <2>1, <2>2
<1>6. Locks'
  <2> SUFFICES ASSUME NEW d \in Clients, NEW e \in Clients,
                      req'[d].pc \in LockingSteps,
                      req'[e].pc \in LockingSteps,
                      req'[d].agg = req'[e].agg
               PROVE  d = e
    BY DEF Locks
  <2> QED
    BY <1>1 DEF IInv, Locks
<1>7. ASSUME serial PROVE InTurn'
  <2>1. InTurn
    BY <1>7 DEF IInv
  <2>2. OneTurn'
    <3> SUFFICES ASSUME NEW d \in Clients, NEW e \in Clients,
                        Saving(d)', Saving(e)'
                 PROVE  d = e
      BY DEF OneTurn
    <3> QED
      BY <1>1, <1>7, <2>1 DEF InTurn, OneTurn, Saving
  <2>3. Copies'
    BY <2>1 DEF InTurn, Copies, tables, Live, LiveIn
  <2>4. ASSUME NEW d \in Clients PROVE Pulled(d)' /\ Checked(d)'
    <3>1. CASE d = c
      BY <3>1, <1>7
    <3>2. CASE d # c
      <4>1. Pulled(d) /\ Checked(d) /\ req'[d] = req[d]
        BY <1>1, <3>2, <2>1 DEF InTurn
      <4>2. Pulled(d)'
        BY <4>1 DEF Pulled, tables
      <4>3. Checked(d)'
        BY <4>1 DEF Checked, tables, Live, LiveIn, PartsOf, Sent, Exists
      <4> QED
        BY <4>2, <4>3
    <3> QED
      BY <3>1, <3>2
  <2> QED
    BY <2>2, <2>3, <2>4 DEF InTurn
<1> QED
  BY <1>2, <1>4, <1>5, <1>6, <1>7 DEF IInv, tables

\* A request that ends without having changed anything
LEMMA EndStep ==
    ASSUME IInv, NEW c \in Clients, NEW pc \in {"idle", "refused"},
           req' = [req EXCEPT ![c] = [Idle EXCEPT !.pc = pc]],
           UNCHANGED <<tables, now, copy, since>>
    PROVE  IInv'
<1> DEFINE r == [Idle EXCEPT !.pc = pc]
<1>1. r \in Request /\ r.pc = pc
  BY IdleType DEF Idle, Request, Steps
<1>2. req'[c] = r
  BY OneRequest DEF IInv
<1>3. now \in Nat /\ now' \in Nat /\ now <= now'
  BY DEF IInv, TypeOK
<1> HIDE DEF r
<1>4. Fields(c)' /\ Pulled(c)' /\ Checked(c)' /\ ~Saving(c)'
  BY <1>1, <1>2 DEF Fields, Pulled, Checked, Saving, SavingSteps,
     StampedSteps, LockingSteps
<1>5. req' = [req EXCEPT ![c] = r]
  BY DEF r
<1> QED
  BY <1>1, <1>3, <1>4, <1>5, QuietStep DEF LockingSteps

\* A step that publishes a version of an aggregate and its children: it is the
\* latest, if saves take turns, and the other aggregates keep their children.
LEMMA PublishStep ==
    ASSUME IInv, NEW c \in Clients, NEW a \in Aggregates, NEW new \in Row,
           NEW parts \in [Aggregates -> [Children -> PartState]],
           req[c].pc \in StampedSteps, req[c].agg = a,
           new.version = req[c].stamp,
           row' = [row EXCEPT ![a] = new], part' = parts,
           req' = [req EXCEPT ![c] = Idle],
           UNCHANGED <<kind, serial, holder, now, since>>,
           Answered(c, a, LiveIn(parts, a)),
           \A b \in Aggregates \ {a}, k \in Children :
               parts[b][k] # "none" => part[b][k] # "none",
           \A k \in Children : parts[a][k] # "none" => kind \in WithChildren,
           kind \in OneParent => \A b, e \in Aggregates, k \in Children :
               parts[b][k] # "none" /\ parts[e][k] # "none" => b = e,
           kind \in WithChildren => req[c].pc \in LockingSteps,
           serial => \A b \in Aggregates \ {a} : parts[b] = part[b]
    PROVE  IInv'
<1>1. req'[c] = Idle /\ \A d \in Clients \ {c} : req'[d] = req[d]
  BY OneRequest DEF IInv
<1>2. row'[a] = new /\ \A b \in Aggregates \ {a} : row'[b] = row[b]
  BY DEF IInv, TypeOK
<1>3. /\ now \in Nat /\ req[c].stamp \in Nat
      /\ \A b \in Aggregates : row[b].version \in Nat
      /\ \A d \in Clients : since[d] \in Nat
      /\ req[c].stamp < now /\ req[c].stamp # Null
  BY DEF IInv, TypeOK, Row, Request, Fields
<1> DEFINE answer == [version |-> req[c].stamp, live |-> LiveIn(parts, a)]
<1>4. copy' \in {copy, [copy EXCEPT ![c][a] = answer]}
  BY <1>2 DEF Answered
<1>5. answer \in Copy /\ answer.version = req[c].stamp
      /\ answer.live = LiveIn(parts, a)
  BY <1>3 DEF Copy, LiveIn
<1> HIDE DEF answer
<1>6. \A d \in Clients, b \in Aggregates :
          copy'[d][b] = copy[d][b] \/ (d = c /\ b = a /\ copy'[d][b] = answer)
  BY <1>4 DEF IInv, TypeOK
<1>7. TypeOK'
  <2>1. copy' \in [Clients -> [Aggregates -> Copy]]
    <3>1. CASE copy' = copy
      BY <3>1 DEF IInv, TypeOK
    <3>2. CASE copy' = [copy EXCEPT ![c][a] = answer]
      BY <3>2, <1>5 DEF IInv, TypeOK
    <3> QED
      BY <1>4, <3>1, <3>2
  <2> QED
    BY <2>1, IdleType DEF IInv, TypeOK
<1>8. Tables'
  <2>1. \A b \in Aggregates : row'[b].version < now'
    BY <1>2, <1>3 DEF IInv, Tables
  <2>2. \A b \in Aggregates, k \in Children :
            part'[b][k] # "none" => Exists(b)' /\ kind' \in WithChildren
    BY <1>2, <1>3 DEF IInv, Tables, Exists
  <2> QED
    BY <2>1, <2>2 DEF IInv, Tables
<1>9. ASSUME NEW d \in Clients PROVE Fields(d)'
  <2>1. CASE d = c
    BY <1>1, <2>1 DEF Fields, Idle, SavingSteps, StampedSteps, LockingSteps
  <2>2. CASE d # c
    <3>1. Fields(d) /\ req'[d] = req[d]
      BY <1>1, <2>2 DEF IInv
    <3>2. ASSUME req[d].pc = "write"
          PROVE  PartsOf(req[d].agg)' \subseteq req[d].existing
      <4>1. PICK b : b = req[d].agg
        OBVIOUS
      <4>2. b \in Aggregates /\ kind \in WithChildren
        BY <3>1, <3>2, <4>1 DEF Fields, SavingSteps, LockingSteps
      <4>3. b # a
        BY <3>2, <4>1, <4>2, <2>2 DEF IInv, Locks, LockingSteps
      <4>4. PartsOf(b) \subseteq req[d].existing
        BY <3>1, <3>2, <4>1 DEF Fields
      <4>5. PartsOf(b)' \subseteq PartsOf(b)
        BY <4>2, <4>3 DEF PartsOf
      <4>6. PartsOf(req[d].agg)' = PartsOf(b)'
        BY <4>1, <3>1 DEF PartsOf
      <4> QED
        BY <4>4, <4>5, <4>6
    <3> QED
      BY <3>1, <3>2 DEF Fields
  <2> QED
    BY <2>1, <2>2
<1>10. Locks'
  <2> SUFFICES ASSUME NEW d \in Clients, NEW e \in Clients,
                      req'[d].pc \in LockingSteps,
                      req'[e].pc \in LockingSteps,
                      req'[d].agg = req'[e].agg
               PROVE  d = e
    BY DEF Locks
  <2>1. d # c /\ e # c
    BY <1>1 DEF Idle, LockingSteps
  <2> QED
    BY <1>1, <2>1 DEF IInv, Locks
<1>11. ASSUME serial PROVE InTurn'
  <2>1. InTurn
    BY <1>11 DEF IInv
  <2>2. /\ \A b \in Aggregates : row[b].version < req[c].stamp
        /\ \A d \in Clients : since[d] < req[c].stamp
    BY <2>1 DEF InTurn, Checked
  <2>3. \A d \in Clients \ {c} : ~Saving(d)
    BY <2>1 DEF InTurn, OneTurn, Saving, StampedSteps
  <2>4. \A d \in Clients : ~Saving(d)'
    BY <1>1, <2>3 DEF Saving, Idle
  <2>5. Copies'
    <3> SUFFICES ASSUME NEW d \in Clients, NEW b \in Aggregates
                 PROVE  /\ copy'[d][b].version <= row'[b].version
                        /\ copy'[d][b].version = row'[b].version =>
                               copy'[d][b].live = Live(b)'
                        /\ row'[b].version <= since'[d] =>
                               copy'[d][b].version = row'[b].version
      BY DEF Copies
    <3>1. /\ copy[d][b].version <= row[b].version
          /\ copy[d][b].version = row[b].version => copy[d][b].live = Live(b)
          /\ row[b].version <= since[d] => copy[d][b].version = row[b].version
      BY <2>1 DEF InTurn, Copies
    <3>2. copy[d][b].version \in Nat
      BY DEF IInv, TypeOK, Copy
    <3>3. CASE b # a
      <4>1. Live(b)' = Live(b)
        BY <3>3, <1>11 DEF Live, LiveIn
      <4> QED
        BY <3>1, <3>3, <4>1, <1>2, <1>6
    <3>4. CASE b = a
      <4>1. Live(b)' = answer.live
        BY <3>4, <1>5 DEF Live, LiveIn
      <4>2. row'[b].version = answer.version /\ since'[d] < row'[b].version
        BY <3>4, <1>2, <1>5, <2>2
      <4>3. copy[d][b].version < answer.version
        BY <3>1, <3>2, <2>2, <1>3, <1>5
      <4> QED
        BY <4>1, <4>2, <4>3, <1>3, <1>5, <1>6, <3>2
    <3> QED
      BY <3>3, <3>4
  <2>6. ASSUME NEW d \in Clients PROVE Pulled(d)'
    <3>1. CASE d = c
      BY <3>1, <1>1 DEF Pulled, Idle
    <3>2. CASE d # c
      <4> SUFFICES ASSUME req[d].pc = "pull", NEW b \in Aggregates
                   PROVE  /\ req[d].got[b] <= row'[b].version
                          /\ req[d].got[b] # Null =>
                                 /\ since[d] < req[d].got[b]
                                 /\ copy'[d][b].version <= req[d].got[b]
                          /\ \/ row'[b].version = req[d].got[b]
                             \/ /\ req[d].got[b] = Null
                                /\ row'[b].version <= since[d]
                             \/ \A e \in Aggregates :
                                    req[d].got[e] < row'[b].version
        BY <1>1, <3>2 DEF Pulled
      <4>1. Pulled(d)
        BY <2>1 DEF InTurn
      <4>2. copy'[d][b] = copy[d][b]
        BY <1>6, <3>2
      <4>3. \A e \in Aggregates : req[d].got[e] \in Nat
        BY DEF IInv, TypeOK, Request
      <4>4. \A e \in Aggregates : req[d].got[e] <= row[e].version
        BY <4>1 DEF Pulled
      <4>5. \A e \in Aggregates : req[d].got[e] < req[c].stamp
        BY <4>3, <4>4, <2>2, <1>3
      <4>6. CASE b = a
        BY <4>1, <4>2, <4>3, <4>5, <4>6, <1>2, <1>3 DEF Pulled
      <4>7. CASE b # a
        BY <4>1, <4>2, <4>7, <1>2 DEF Pulled
      <4> QED
        BY <4>6, <4>7
    <3> QED
      BY <3>1, <3>2
  <2>7. ASSUME NEW d \in Clients PROVE Checked(d)'
    BY <2>4 DEF Checked, Saving, StampedSteps
  <2> QED
    BY <2>4, <2>5, <2>6, <2>7 DEF InTurn, OneTurn
<1> QED
  BY <1>7, <1>8, <1>9, <1>10, <1>11 DEF IInv

-----------------------------------------------------------------------------
(* The actions                                                             *)

\* A request that arrives has its type, and no other save is in flight if
\* saves take turns.
LEMMA PutStep ==
    ASSUME IInv, NEW c \in Clients, NEW level, NEW a \in Aggregates,
           NEW live \in SUBSET Children, NEW gone \in SUBSET Children,
           NEW owner \in Clients \cup {Null}, NEW force \in BOOLEAN,
           Put(c, level, a, live, gone, owner, force),
           kind # "sticker", live # {} => kind \in WithChildren,
           gone # {} => kind \in OneParent, live \cap gone = {}
    PROVE  IInv'
<1> DEFINE r == [Idle EXCEPT !.pc = "owner", !.agg = a, !.live = live,
                             !.gone = gone, !.owner = owner, !.force = force]
<1>1. r \in Request /\ r.pc = "owner" /\ r.agg = a /\ r.live = live
      /\ r.gone = gone
  BY IdleType DEF Idle, Request, Steps
<1>2. req' = [req EXCEPT ![c] = r] /\ UNCHANGED <<tables, now, copy, since>>
      /\ MayTurn(c)
  BY DEF Put
<1> HIDE DEF r
<1>3. req'[c] = r
  BY <1>2, OneRequest DEF IInv
<1>4. now \in Nat /\ now' \in Nat /\ now <= now'
  BY <1>2 DEF IInv, TypeOK
<1>5. Fields(c)' /\ Pulled(c)' /\ Checked(c)'
  BY <1>1, <1>2, <1>3 DEF Fields, Pulled, Checked, StampedSteps, LockingSteps,
     tables
<1>6. serial => \A d \in Clients \ {c} : ~Saving(d)
  BY <1>2 DEF MayTurn
<1> QED
  BY <1>1, <1>2, <1>4, <1>5, <1>6, QuietStep DEF LockingSteps

\* A PUT of a kind with or without children is such a step.
LEMMA PutsStep ==
    ASSUME IInv, NEW c \in Clients,
           \/ PutEquipment(c) \/ PutInspection(c) \/ PutWorkLog(c)
           \/ PutDefect(c) \/ PutProperties(c)
    PROVE  IInv'
<1>1. CASE PutEquipment(c)
  <2>1. PICK a \in Aggregates, sent \in SUBSET Children, force \in BOOLEAN :
            \E gone \in SUBSET sent :
                Put(c, MODIFY, a, sent \ gone, gone, Null, force)
    BY <1>1 DEF PutEquipment
  <2>2. PICK gone \in SUBSET sent :
            Put(c, MODIFY, a, sent \ gone, gone, Null, force)
    BY <2>1
  <2>3. kind \in OneParent /\ kind # "sticker" /\ kind \in WithChildren
    BY <1>1 DEF PutEquipment, OneParent, WithChildren
  <2>4. /\ sent \ gone \in SUBSET Children /\ gone \in SUBSET Children
        /\ (sent \ gone) \cap gone = {} /\ Null \in Clients \cup {Null}
    OBVIOUS
  <2> QED
    BY <2>2, <2>3, <2>4, PutStep
<1>2. CASE PutInspection(c)
  <2>1. PICK a \in Aggregates, sent \in SUBSET Children, force \in BOOLEAN :
            \E gone \in SUBSET sent :
                Put(c, INSPECT, a, sent \ gone, gone, Null, force)
    BY <1>2 DEF PutInspection
  <2>2. PICK gone \in SUBSET sent :
            Put(c, INSPECT, a, sent \ gone, gone, Null, force)
    BY <2>1
  <2>3. kind \in OneParent /\ kind # "sticker" /\ kind \in WithChildren
    BY <1>2 DEF PutInspection, OneParent, WithChildren
  <2>4. /\ sent \ gone \in SUBSET Children /\ gone \in SUBSET Children
        /\ (sent \ gone) \cap gone = {} /\ Null \in Clients \cup {Null}
    OBVIOUS
  <2> QED
    BY <2>2, <2>3, <2>4, PutStep
<1>3. CASE PutWorkLog(c)
  <2>1. PICK a \in Aggregates, live \in SUBSET Children, owner \in Clients,
             force \in BOOLEAN :
            Put(c, INSPECT, a, live, {}, owner, force)
    BY <1>3 DEF PutWorkLog
  <2>2. kind # "sticker" /\ kind \in WithChildren
    BY <1>3 DEF PutWorkLog, WithChildren
  <2>3. {} \in SUBSET Children /\ owner \in Clients \cup {Null}
        /\ live \cap {} = {}
    OBVIOUS
  <2> QED
    BY <2>1, <2>2, <2>3, PutStep
<1>4. CASE PutDefect(c) \/ PutProperties(c)
  <2>1. PICK a \in Aggregates, force \in BOOLEAN :
            Put(c, INSPECT, a, {}, {}, Null, force)
    BY <1>4 DEF PutDefect, PutProperties
  <2>2. kind # "sticker"
    BY <1>4 DEF PutDefect, PutProperties
  <2>3. {} \in SUBSET Children /\ Null \in Clients \cup {Null}
        /\ {} \cap {} = {}
    OBVIOUS
  <2> QED
    BY <2>1, <2>2, <2>3, PutStep
<1> QED
  BY <1>1, <1>2, <1>3, <1>4

\* The version of a sticker installation is the latest so far.
LEMMA PutStickerStep ==
    ASSUME IInv, NEW c \in Clients, PutSticker(c)
    PROVE  IInv'
<1>1. PICK a \in Aggregates, content \in Clients :
          req' = [req EXCEPT ![c] =
                    [Idle EXCEPT !.pc = "insert", !.agg = a, !.stamp = now,
                                 !.owner = content]]
  BY DEF PutSticker
<1> DEFINE r == [Idle EXCEPT !.pc = "insert", !.agg = a, !.stamp = now,
                             !.owner = content]
<1>2. now \in Nat /\ now' = now + 1 /\ now >= 1 /\ kind = "sticker"
      /\ MayTurn(c) /\ UNCHANGED <<tables, copy, since>>
  BY DEF PutSticker, IInv, TypeOK, Tables
<1>3. r \in Request /\ r.pc = "insert" /\ r.agg = a /\ r.live = {}
      /\ r.gone = {} /\ r.stamp = now
  BY <1>2, IdleType DEF Idle, Request, Steps
<1>4. req' = [req EXCEPT ![c] = r]
  BY <1>1
<1> HIDE DEF r
<1>5. req'[c] = r
  BY <1>4, OneRequest DEF IInv
<1>6. Fields(c)'
  BY <1>2, <1>3, <1>5 DEF Fields, StampedSteps, LockingSteps, tables, Null
<1>7. Pulled(c)' /\ Checked(c)'
  <2>1. (\A b \in Aggregates : row'[b].version < now)
        /\ (\A d \in Clients : since'[d] < now)
    BY <1>2 DEF tables, IInv, Tables
  <2> QED
    BY <1>2, <1>3, <1>5, <2>1 DEF Pulled, Checked
<1>8. serial => \A d \in Clients \ {c} : ~Saving(d)
  BY <1>2 DEF MayTurn
<1>9. now' \in Nat /\ now <= now'
  BY <1>2
<1> QED
  BY <1>2, <1>3, <1>4, <1>6, <1>7, <1>8, <1>9, QuietStep DEF LockingSteps

\* A request that goes on keeps what it has.
LEMMA GoToStep ==
    ASSUME IInv, NEW c \in Clients, NEW pc \in Steps, GoTo(c, pc),
           Saving(c), Fields(c)', serial => Checked(c)',
           pc \notin LockingSteps, pc # "pull"
    PROVE  IInv'
<1> DEFINE r == [req[c] EXCEPT !.pc = pc]
<1>1. r \in Request /\ r.pc = pc
  BY DEF IInv, TypeOK, Request
<1>2. req' = [req EXCEPT ![c] = r]
  BY DEF GoTo, IInv, TypeOK
<1> HIDE DEF r
<1>3. req'[c] = r
  BY <1>2, OneRequest DEF IInv
<1>4. /\ UNCHANGED <<tables, copy, since>>
      /\ now \in Nat /\ now' \in Nat /\ now <= now'
  BY DEF GoTo, IInv, TypeOK
<1>5. Pulled(c)'
  BY <1>1, <1>3 DEF Pulled
<1>6. serial => \A d \in Clients \ {c} : ~Saving(d)
  BY DEF IInv, InTurn, OneTurn
<1> QED
  BY <1>1, <1>2, <1>4, <1>5, <1>6, QuietStep

\* An owner check that passes has seen the owner or the claim.
LEMMA OwnerStep ==
    ASSUME IInv, NEW c \in Clients, NEW valid \in BOOLEAN,
           req[c].pc = "owner",
           \/ ~RequireAuth \/ ~Exists(req[c].agg) \/ valid,
           kind = "equipment" => (valid => holder = c),
           kind = "work_log" => (valid => row[req[c].agg].owner = c),
           GoTo(c, "check")
    PROVE  IInv'
<1>1. req'[c] = [req[c] EXCEPT !.pc = "check"]
      /\ UNCHANGED <<tables, now, copy, since>>
  BY DEF GoTo, IInv, TypeOK
<1>2. req[c] \in Request /\ Fields(c)
  BY DEF IInv, TypeOK
<1>3. /\ req'[c].pc = "check" /\ req'[c].agg = req[c].agg
      /\ req'[c].live = req[c].live /\ req'[c].gone = req[c].gone
  BY <1>1, <1>2 DEF Request
<1>4. Fields(c)'
  BY <1>1, <1>2, <1>3 DEF Fields, SavingSteps, StampedSteps, LockingSteps,
     tables
<1>5. Checked(c)'
  BY <1>1, <1>3 DEF Checked, StampedSteps, tables, Exists
<1>6. Saving(c) /\ "check" \in Steps
  BY DEF Saving, Steps
<1> QED
  BY <1>4, <1>5, <1>6, GoToStep DEF LockingSteps

\* The owner check goes on or refuses the request.
LEMMA OwnershipStep ==
    ASSUME IInv, NEW c \in Clients,
           \/ EquipmentOwnership(c) \/ InspectionOwnership(c)
           \/ WorkLogOwnership(c) \/ NoOwnership(c)
    PROVE  IInv'
<1>1. CASE Refuse(c)
  BY <1>1, EndStep DEF Refuse
<1>2. CASE EquipmentOwnership(c) /\ ~Refuse(c)
  BY <1>2, OwnerStep DEF EquipmentOwnership, Validated
<1>3. CASE InspectionOwnership(c) /\ ~Refuse(c)
  <2>1. PICK valid \in BOOLEAN :
            valid <=> Live(req[c].agg) \subseteq Sent(c)
    OBVIOUS
  <2> QED
    BY <1>3, <2>1, OwnerStep DEF InspectionOwnership, Validated
<1>4. CASE WorkLogOwnership(c) /\ ~Refuse(c)
  BY <1>4, OwnerStep DEF WorkLogOwnership, Validated
<1>5. CASE NoOwnership(c)
  <2>1. TRUE \in BOOLEAN
    OBVIOUS
  <2> QED
    BY <1>5, <2>1, OwnerStep DEF NoOwnership
<1> QED
  BY <1>1, <1>2, <1>3, <1>4, <1>5

\* A save that passes the check has the latest version, and what the client
\* has of the aggregate is what is there, unless nobody asked.
LEMMA CheckStep ==
    ASSUME IInv, NEW c \in Clients, Check(c), kind # "sticker"
    PROVE  IInv'
<1>1. CASE Refuse(c)
  BY <1>1, EndStep DEF Refuse
<1>2. CASE ~Refuse(c)
  <2> DEFINE r == [req[c] EXCEPT !.pc = "upsert", !.stamp = now]
  <2>1. /\ req' = [req EXCEPT ![c].pc = "upsert", ![c].stamp = now]
        /\ now' = now + 1 /\ UNCHANGED <<tables, copy, since>>
        /\ req[c].pc = "check"
        /\ \/ ~Exists(req[c].agg) \/ req[c].force
           \/ DisableOptimisticLocking \/ ~Conflicts(c, req[c].agg)
    BY <1>2 DEF Check
  <2>2. req[c] \in Request /\ now \in Nat /\ now >= 1 /\ Fields(c)
    BY DEF IInv, TypeOK, Tables
  <2>3. req' = [req EXCEPT ![c] = r] /\ r \in Request
    BY <2>1, <2>2 DEF IInv, TypeOK, Request, Steps
  <2>4. /\ r.pc = "upsert" /\ r.stamp = now /\ r.agg = req[c].agg
        /\ r.live = req[c].live /\ r.gone = req[c].gone
        /\ r.force = req[c].force
    BY <2>2 DEF Request
  <2> HIDE DEF r
  <2>5. req'[c] = r
    BY <2>3, OneRequest DEF IInv
  <2>6. Fields(c)'
    <3>1. /\ req'[c].pc = "upsert" /\ req'[c].stamp = now
          /\ req'[c].agg = req[c].agg /\ req'[c].live = req[c].live
          /\ req'[c].gone = req[c].gone /\ kind' = kind
      BY <2>1, <2>4, <2>5 DEF tables
    <3>2. now # Null /\ now < now'
      BY <2>1, <2>2 DEF Null
    <3> QED
      BY <2>1, <2>2, <3>1, <3>2 DEF Fields, SavingSteps, StampedSteps,
         LockingSteps
  <2>7. ASSUME serial PROVE Pulled(c)' /\ Checked(c)'
    <3> DEFINE a == req[c].agg
    <3>1. a \in Aggregates
      BY <2>1, <2>2 DEF Fields, SavingSteps
    <3>2. Copies /\ Checked(c)
      BY <2>7 DEF IInv, InTurn
    <3>3. /\ \A b \in Aggregates : row[b].version < now
          /\ \A d \in Clients : since[d] < now
      BY DEF IInv, Tables
    <3>4. \/ req[c].force \/ DisableOptimisticLocking
          \/ copy[c][a].version = row[a].version /\ Live(a) \subseteq Sent(c)
      <4>1. CASE ~Exists(a)
        <5>1. row[a].version = 0
          BY <4>1 DEF Exists, Null
        <5>2. copy[c][a].version <= 0 /\ copy[c][a].version \in Nat
          BY <3>1, <3>2, <5>1 DEF Copies, IInv, TypeOK, Copy
        <5>3. Live(a) = {}
          BY <3>1, <4>1 DEF IInv, Tables, Live, LiveIn
        <5> QED
          BY <5>1, <5>2, <5>3
      <4>2. CASE Exists(a)
        BY <2>1, <4>2 DEF Conflicts
      <4> QED
        BY <4>1, <4>2
    <3>5. Pulled(c)'
      BY <2>4, <2>5 DEF Pulled
    <3>6. Sent(c)' = Sent(c) /\ Live(a)' = Live(a) /\ (Exists(a)' <=> Exists(a))
      BY <2>1, <2>4, <2>5 DEF Sent, Live, LiveIn, Exists, tables
    <3>7. Checked(c)'
      <4>1. /\ req'[c].pc = "upsert" /\ req'[c].agg = a
            /\ req'[c].stamp = now /\ req'[c].force = req[c].force
        BY <2>4, <2>5
      <4>2. row' = row /\ since' = since /\ copy' = copy /\ part' = part
            /\ kind' = kind /\ holder' = holder
        BY <2>1 DEF tables
      <4>3. (RequireAuth /\ Exists(a)) =>
                /\ kind = "work_log" => row[a].owner = c
                /\ kind = "equipment" => holder = c
        BY <2>1, <3>2 DEF Checked
      <4>4. (RequireAuth /\ Exists(req[c].agg)') =>
                /\ kind' = "work_log" => row'[req'[c].agg].owner = c
                /\ kind' = "equipment" => holder' = c
        BY <4>1, <4>2, <4>3 DEF Exists
      <4> HIDE DEF a
      <4>5. \/ req'[c].force \/ DisableOptimisticLocking
            \/ /\ copy'[c][req'[c].agg].version = row'[req'[c].agg].version
               /\ LiveIn(part', req'[c].agg) \subseteq Sent(c)'
        BY <3>4, <3>6, <4>1, <4>2 DEF Live
      <4> QED
        BY <3>3, <4>1, <4>2, <4>4, <4>5 DEF Checked, Live
    <3> QED
      BY <3>5, <3>7
  <2>8. serial => \A d \in Clients \ {c} : ~Saving(d)
    BY <2>1 DEF IInv, InTurn, OneTurn, Saving
  <2>9. now' \in Nat /\ now <= now'
    BY <2>1, <2>2
  <2> QED
    BY <2>1, <2>3, <2>4, <2>6, <2>7, <2>8, <2>9, QuietStep DEF LockingSteps
<1> QED
  BY <1>1, <1>2

\* The upsert finds the row unlocked.
LEMMA UpsertStep ==
    ASSUME IInv, NEW c \in Clients, Upsert(c), kind \in WithChildren
    PROVE  IInv'
<1> DEFINE r == [req[c] EXCEPT !.pc = "parents"]
<1>1. req[c] \in Request /\ Fields(c) /\ now \in Nat
  BY DEF IInv, TypeOK
<1>2. /\ r \in Request /\ r.pc = "parents" /\ r.agg = req[c].agg
      /\ r.stamp = req[c].stamp /\ r.live = req[c].live
      /\ r.gone = req[c].gone /\ r.force = req[c].force
  BY <1>1 DEF Request, Steps
<1>3. /\ req' = [req EXCEPT ![c] = r] /\ UNCHANGED <<tables, copy, since>>
      /\ now' = now /\ req[c].pc = "upsert" /\ ~Locked(c, req[c].agg)
  BY DEF Upsert, GoTo, IInv, TypeOK
<1> HIDE DEF r
<1>4. req'[c] = r
  BY <1>3, OneRequest DEF IInv
<1>5. Fields(c)'
  BY <1>1, <1>2, <1>3, <1>4 DEF Fields, SavingSteps, StampedSteps,
     LockingSteps, tables
<1>6. ASSUME serial PROVE Pulled(c)' /\ Checked(c)'
  <2>1. Checked(c)
    BY <1>6 DEF IInv, InTurn
  <2> QED
    BY <1>2, <1>3, <1>4, <2>1 DEF Pulled, Checked, StampedSteps, tables,
       Live, LiveIn, Sent, Exists
<1>7. \A d \in Clients \ {c} :
          req[d].pc \in LockingSteps => req[d].agg # r.agg
  BY <1>2, <1>3 DEF Locked, LockingSteps
<1>8. serial => \A d \in Clients \ {c} : ~Saving(d)
  BY <1>3 DEF IInv, InTurn, OneTurn, Saving
<1>9. now' \in Nat /\ now <= now'
  BY <1>1, <1>3
<1> QED
  BY <1>2, <1>3, <1>5, <1>6, <1>7, <1>8, <1>9, QuietStep

\* The ids of the children are read under the lock of the row.
LEMMA ExistingStep ==
    ASSUME IInv, NEW c \in Clients, req[c].pc = "parents",
           req' = [req EXCEPT ![c].pc = "write",
                             ![c].existing = PartsOf(req[c].agg)],
           UNCHANGED <<tables, now, copy, since>>,
           kind \in OneParent =>
               \A k \in Sent(c) \ PartsOf(req[c].agg),
                  b \in Aggregates \ {req[c].agg} : k \notin PartsOf(b)
    PROVE  IInv'
<1>0. PICK a : a = req[c].agg
  OBVIOUS
<1> DEFINE r == [req[c] EXCEPT !.pc = "write", !.existing = PartsOf(a)]
<1>1. req[c] \in Request /\ Fields(c) /\ now \in Nat
  BY DEF IInv, TypeOK
<1>2. /\ r \in Request /\ r.pc = "write" /\ r.agg = req[c].agg
      /\ r.stamp = req[c].stamp /\ r.live = req[c].live
      /\ r.gone = req[c].gone /\ r.force = req[c].force
      /\ r.existing = PartsOf(a)
  BY <1>1 DEF Request, Steps, PartsOf
<1>3. req' = [req EXCEPT ![c] = r] /\ UNCHANGED <<tables, copy, since>>
      /\ now' = now
  BY <1>0 DEF IInv, TypeOK
<1>4. a \in Aggregates /\ Sent(c) \subseteq Children
  BY <1>0, <1>1 DEF Fields, SavingSteps, Sent, Request
<1> HIDE DEF r
<1>5. req'[c] = r
  BY <1>3, OneRequest DEF IInv
<1>6. PartsOf(a)' = PartsOf(a)
  BY <1>3 DEF PartsOf, tables
<1>7. Fields(c)'
  <2>1. PartsOf(req[c].agg)' = PartsOf(a)
    BY <1>0, <1>2, <1>3, <1>5 DEF PartsOf, tables
  <2> QED
    BY <1>1, <1>2, <1>3, <1>5, <2>1 DEF Fields, SavingSteps, StampedSteps,
       LockingSteps, tables
<1>8. ASSUME serial PROVE Pulled(c)' /\ Checked(c)'
  <2>1. Checked(c)
    BY <1>8 DEF IInv, InTurn
  <2>2. ASSUME kind \in OneParent, NEW b \in Aggregates \ {a},
               NEW k \in Sent(c)
        PROVE  part[b][k] = "none"
    <3>1. k \in Children
      BY <1>4
    <3>2. CASE k \in PartsOf(a)
      BY <2>2, <3>1, <3>2, <1>4 DEF PartsOf, IInv, Tables
    <3>3. CASE k \notin PartsOf(a)
      BY <1>0, <2>2, <3>1, <3>3 DEF PartsOf
    <3> QED
      BY <3>2, <3>3
  <2>3. Sent(c)' = Sent(c) /\ part' = part /\ row' = row /\ kind' = kind
        /\ holder' = holder /\ copy' = copy /\ since' = since
    BY <1>2, <1>3, <1>5 DEF Sent, tables
  <2>4. PartsOf(req[c].agg)' = PartsOf(a) /\ Live(req[c].agg)' = Live(a)
        /\ (Exists(req[c].agg)' <=> Exists(a))
    BY <1>0, <1>2, <1>5, <2>3 DEF PartsOf, Live, LiveIn, Exists
  <2>5. Pulled(c)'
    BY <1>2, <1>5 DEF Pulled
  <2>6. Checked(c)'
    <3>1. /\ req'[c].pc = "write" /\ req'[c].agg = a
          /\ req'[c].existing = PartsOf(a) /\ req'[c].stamp = req[c].stamp
          /\ req'[c].force = req[c].force
      BY <1>0, <1>2, <1>5
    <3>3. /\ \A b \in Aggregates : row[b].version < req[c].stamp
          /\ \A d \in Clients : since[d] < req[c].stamp
          /\ \/ req[c].force \/ DisableOptimisticLocking
             \/ /\ copy[c][a].version = row[a].version
                /\ Live(a) \subseteq Sent(c)
          /\ (RequireAuth /\ Exists(a)) =>
                 /\ kind = "work_log" => row[a].owner = c
                 /\ kind = "equipment" => holder = c
      BY <1>0, <2>1 DEF Checked, StampedSteps
    <3>4. req'[c].existing = PartsOf(req[c].agg)'
      BY <2>4, <3>1
    <3>5. kind' \in OneParent =>
              \A b \in Aggregates \ {req'[c].agg}, k \in Sent(c)' :
                  part'[b][k] = "none"
      BY <2>2, <2>3, <3>1
    <3>6. \/ req'[c].force \/ DisableOptimisticLocking
          \/ /\ copy'[c][req'[c].agg].version = row'[req'[c].agg].version
             /\ Live(req[c].agg)' \subseteq Sent(c)'
      BY <2>3, <2>4, <3>1, <3>3
    <3>7. (RequireAuth /\ Exists(req[c].agg)') =>
              /\ kind' = "work_log" => row'[req'[c].agg].owner = c
              /\ kind' = "equipment" => holder' = c
      BY <2>3, <2>4, <3>1, <3>3
    <3>8. /\ \A b \in Aggregates : row'[b].version < req'[c].stamp
          /\ \A d \in Clients : since'[d] < req'[c].stamp
      BY <2>3, <3>1, <3>3
    <3> QED
      BY <3>4, <3>5, <3>6, <3>7, <3>8 DEF Checked
  <2> QED
    BY <2>5, <2>6
<1>9. \A d \in Clients \ {c} :
          req[d].pc \in LockingSteps => req[d].agg # r.agg
  BY <1>2 DEF IInv, Locks, LockingSteps
<1>10. serial => \A d \in Clients \ {c} : ~Saving(d)
  BY DEF IInv, InTurn, OneTurn, Saving
<1>11. now' \in Nat /\ now <= now'
  BY <1>1, <1>3
<1> QED
  BY <1>2, <1>3, <1>7, <1>8, <1>9, <1>10, <1>11, QuietStep

\* Publishing children as sent, a control point or a step is in one aggregate
\* only, and leaves others only if it was stolen from them.
LEMMA SyncedStep ==
    ASSUME IInv, NEW c \in Clients, kind \in OneParent,
           Publish(c, Synced(c))
    PROVE  IInv'
<1>0. PICK a : a = req[c].agg
  OBVIOUS
<1>1. PICK parts : parts = Synced(c)
  OBVIOUS
<1>2. PICK new : new = [version |-> req[c].stamp, owner |-> req[c].owner]
  OBVIOUS
<1>3. /\ req[c].pc = "write" /\ row' = [row EXCEPT ![a] = new]
      /\ part' = parts /\ req' = [req EXCEPT ![c] = Idle]
      /\ UNCHANGED <<kind, serial, holder, now, since>>
      /\ Answered(c, a, LiveIn(parts, a))
  BY <1>0, <1>1, <1>2 DEF Publish
<1>4. req[c] \in Request /\ Fields(c)
  BY DEF IInv, TypeOK
<1>5. a \in Aggregates /\ new \in Row /\ new.version = req[c].stamp
  BY <1>0, <1>2, <1>3, <1>4 DEF Fields, SavingSteps, Request, Row
<1>6. parts \in [Aggregates -> [Children -> PartState]]
  BY <1>1 DEF Synced, PartState, IInv, TypeOK
<1>7. ASSUME NEW b \in Aggregates \ {a}, NEW k \in Children,
             parts[b][k] # "none"
      PROVE  part[b][k] # "none"
  BY <1>0, <1>1, <1>7 DEF Synced
<1>8. ASSUME NEW b \in Aggregates, NEW e \in Aggregates, NEW k \in Children,
             parts[b][k] # "none", parts[e][k] # "none"
      PROVE  b = e
  <2>1. CASE k \in Sent(c)
    BY <1>0, <1>1, <1>8, <2>1 DEF Synced
  <2>2. CASE k \notin Sent(c)
    BY <1>1, <1>8, <2>2 DEF Synced, IInv, Tables
  <2> QED
    BY <2>1, <2>2
<1>9. ASSUME serial, NEW b \in Aggregates \ {a}
      PROVE  parts[b] = part[b]
  <2>1. /\ req[c].existing = PartsOf(a)
        /\ \A k \in Sent(c) : part[b][k] = "none"
    BY <1>0, <1>3, <1>9 DEF IInv, InTurn, Checked
  <2>2. ASSUME NEW k \in Children PROVE parts[b][k] = part[b][k]
    <3>1. CASE k \in Sent(c)
      BY <1>0, <1>1, <2>1, <3>1 DEF Synced
    <3>2. CASE k \notin Sent(c)
      <4>1. part[b][k] = "live" => k \notin req[c].existing
        BY <1>5, <2>1 DEF PartsOf, IInv, Tables
      <4> QED
        BY <1>1, <3>2, <4>1 DEF Synced
    <3> QED
      BY <3>1, <3>2
  <2>3. parts[b] = [k \in Children |-> parts[b][k]]
        /\ part[b] = [k \in Children |-> part[b][k]]
    BY <1>6 DEF IInv, TypeOK
  <2> QED
    BY <2>2, <2>3
<1>10. kind \in WithChildren /\ req[c].pc \in StampedSteps
       /\ req[c].pc \in LockingSteps
  BY <1>3 DEF WithChildren, StampedSteps, LockingSteps
<1>11. \A b \in Aggregates \ {a}, k \in Children :
           parts[b][k] # "none" => part[b][k] # "none"
  BY <1>7
<1>12. \A b, e \in Aggregates, k \in Children :
           parts[b][k] # "none" /\ parts[e][k] # "none" => b = e
  BY <1>8
<1>13. serial => \A b \in Aggregates \ {a} : parts[b] = part[b]
  BY <1>9
<1> QED
  BY <1>0, <1>3, <1>5, <1>6, <1>10, <1>11, <1>12, <1>13, PublishStep

\* Publishing the inspectors of a work log leaves other work logs alone.
LEMMA InspectorsStep ==
    ASSUME IInv, NEW c \in Clients, kind = "work_log", SyncInspectors(c)
    PROVE  IInv'
<1>1. kind \notin OneParent /\ kind \in WithChildren
  BY DEF OneParent, WithChildren
<1>2. CASE req[c].pc = "parents"
  BY <1>1, <1>2, ExistingStep DEF SyncInspectors, Publish
<1>3. CASE req[c].pc = "write"
  <2>0. PICK a : a = req[c].agg
    OBVIOUS
  <2>1. PICK parts : parts =
            [part EXCEPT ![a] =
                [k \in Children |->
                    IF k \in req[c].live THEN "live"
                    ELSE IF k \in req[c].existing THEN "none" ELSE @[k]]]
    OBVIOUS
  <2>2. PICK new : new = [version |-> req[c].stamp, owner |-> req[c].owner]
    OBVIOUS
  <2>3. /\ row' = [row EXCEPT ![a] = new]
        /\ part' = parts /\ req' = [req EXCEPT ![c] = Idle]
        /\ UNCHANGED <<kind, serial, holder, now, since>>
        /\ Answered(c, a, LiveIn(parts, a))
    BY <1>3, <2>0, <2>1, <2>2 DEF SyncInspectors, Publish
  <2>4. req[c] \in Request /\ Fields(c)
    BY DEF IInv, TypeOK
  <2>5. a \in Aggregates /\ new \in Row /\ new.version = req[c].stamp
    BY <1>3, <2>0, <2>2, <2>4 DEF Fields, SavingSteps, Request, Row
  <2>6. part \in [Aggregates -> [Children -> PartState]]
    BY DEF IInv, TypeOK
  <2>7. parts \in [Aggregates -> [Children -> PartState]]
    BY <2>1, <2>5, <2>6 DEF PartState
  <2>8. \A b \in Aggregates \ {a} : parts[b] = part[b]
    BY <2>1, <2>6
  <2>9. req[c].pc \in StampedSteps /\ req[c].pc \in LockingSteps
    BY <1>3 DEF StampedSteps, LockingSteps
  <2> QED
    BY <1>1, <2>0, <2>3, <2>5, <2>7, <2>8, <2>9, PublishStep
<1> QED
  BY <1>2, <1>3 DEF SyncInspectors, Publish

\* An aggregate without children has none after its save.
LEMMA UpsertOnlyStep ==
    ASSUME IInv, NEW c \in Clients, UpsertOnly(c), kind \notin WithChildren
    PROVE  IInv'
<1>0. PICK a : a = req[c].agg
  OBVIOUS
<1>1. req[c] \in Request /\ Fields(c) /\ req[c].pc = "upsert"
  BY DEF IInv, TypeOK, UpsertOnly
<1>2. a \in Aggregates
  BY <1>0, <1>1 DEF Fields, SavingSteps
<1>3. PICK new : new = [row[a] EXCEPT !.version = req[c].stamp]
  OBVIOUS
<1>4. new \in Row /\ new.version = req[c].stamp
  <2>1. row[a] \in Row /\ req[c].stamp \in Nat
    BY <1>1, <1>2 DEF IInv, TypeOK, Request
  <2> QED
    BY <1>3, <2>1 DEF Row
<1>5. row' = [row EXCEPT ![a] = new]
  BY <1>0, <1>2, <1>3 DEF UpsertOnly, IInv, TypeOK
<1>6. part \in [Aggregates -> [Children -> PartState]]
  BY DEF IInv, TypeOK
<1>7. \A b \in Aggregates, k \in Children : part[b][k] = "none"
  BY DEF IInv, Tables
<1>8. LiveIn(part, a) = {}
  BY <1>2, <1>7 DEF LiveIn
<1>9. /\ part' = part /\ req' = [req EXCEPT ![c] = Idle]
      /\ UNCHANGED <<kind, serial, holder, now, since>>
      /\ Answered(c, a, LiveIn(part, a))
  BY <1>0, <1>8 DEF UpsertOnly
<1>10. req[c].pc \in StampedSteps /\ kind \notin OneParent
  BY <1>1 DEF StampedSteps, WithChildren
<1> QED
  BY <1>0, <1>2, <1>4, <1>5, <1>6, <1>7, <1>9, <1>10, PublishStep

\* A sticker installation is published once; later PUTs of it only read it.
LEMMA SaveStickerStep ==
    ASSUME IInv, NEW c \in Clients, SaveSticker(c)
    PROVE  IInv'
<1>0. PICK a : a = req[c].agg
  OBVIOUS
<1>1. /\ req[c] \in Request /\ Fields(c) /\ req[c].pc = "insert"
      /\ kind = "sticker" /\ kind \notin WithChildren /\ kind \notin OneParent
  BY DEF IInv, TypeOK, SaveSticker, WithChildren, OneParent
<1>2. a \in Aggregates
  BY <1>0, <1>1 DEF Fields, SavingSteps
<1>3. part \in [Aggregates -> [Children -> PartState]]
  BY DEF IInv, TypeOK
<1>4. \A b \in Aggregates, k \in Children : part[b][k] = "none"
  BY <1>1 DEF IInv, Tables
<1>5. LiveIn(part, a) = {}
  BY <1>2, <1>4 DEF LiveIn
<1>6. CASE Refuse(c)
  BY <1>6, EndStep DEF Refuse
<1>7. CASE ~Refuse(c) /\ ~Exists(a)
  <2>1. PICK new : new = [version |-> req[c].stamp, owner |-> req[c].owner]
    OBVIOUS
  <2>2. new \in Row /\ new.version = req[c].stamp
    BY <1>1, <2>1 DEF Row, Request
  <2>3. /\ row' = [row EXCEPT ![a] = new]
        /\ part' = part /\ req' = [req EXCEPT ![c] = Idle]
        /\ UNCHANGED <<kind, serial, holder, now, since>>
        /\ Answered(c, a, LiveIn(part, a))
    BY <1>0, <1>5, <1>7, <2>1 DEF SaveSticker
  <2>4. req[c].pc \in StampedSteps
    BY <1>1 DEF StampedSteps
  <2> QED
    BY <1>0, <1>1, <1>2, <1>3, <1>4, <2>2, <2>3, <2>4, PublishStep
<1>8. CASE ~Refuse(c) /\ Exists(a)
  <2> DEFINE answer == [version |-> row[a].version, live |-> {}]
  <2>1. /\ UNCHANGED <<tables, now, since>>
        /\ req' = [req EXCEPT ![c] = Idle]
        /\ copy' \in {copy, [copy EXCEPT ![c][a] = answer]}
    BY <1>0, <1>8 DEF SaveSticker, Answered, tables
  <2>2. answer \in Copy /\ answer.version = row[a].version
        /\ answer.live = {}
    BY <1>2 DEF IInv, TypeOK, Row, Copy
  <2> HIDE DEF answer
  <2>3. \A d \in Clients, b \in Aggregates :
            copy'[d][b] = copy[d][b]
            \/ (d = c /\ b = a /\ copy'[d][b] = answer)
    BY <2>1 DEF IInv, TypeOK
  <2>4. req'[c] = Idle /\ \A d \in Clients \ {c} : req'[d] = req[d]
    BY <2>1, OneRequest DEF IInv
  <2>5. TypeOK'
    <3>1. copy' \in [Clients -> [Aggregates -> Copy]]
      <4>1. CASE copy' = copy
        BY <4>1 DEF IInv, TypeOK
      <4>2. CASE copy' = [copy EXCEPT ![c][a] = answer]
        BY <4>2, <2>2 DEF IInv, TypeOK
      <4> QED
        BY <2>1, <4>1, <4>2
    <3> QED
      BY <2>1, <3>1, IdleType DEF IInv, TypeOK, tables
  <2>6. Tables'
    BY <2>1 DEF IInv, Tables, tables, Exists
  <2>7. ASSUME NEW d \in Clients PROVE Fields(d)'
    <3>1. CASE d = c
      BY <2>4, <3>1 DEF Fields, Idle, SavingSteps, StampedSteps, LockingSteps
    <3>2. CASE d # c
      <4>1. Fields(d) /\ req'[d] = req[d]
        BY <2>4, <3>2 DEF IInv
      <4> QED
        BY <2>1, <4>1 DEF Fields, tables, PartsOf
    <3> QED
      BY <3>1, <3>2
  <2>8. Locks'
    BY <2>4, <2>7, <2>1, <1>1 DEF Locks, Fields, tables
  <2>9. ASSUME serial PROVE InTurn'
    <3>1. InTurn
      BY <2>9 DEF IInv
    <3>2. \A d \in Clients : ~Saving(d)'
      BY <1>1, <2>4, <3>1 DEF InTurn, OneTurn, Saving, Idle
    <3>3. Copies'
      <4> SUFFICES ASSUME NEW d \in Clients, NEW b \in Aggregates
                   PROVE  /\ copy'[d][b].version <= row[b].version
                          /\ copy'[d][b].version = row[b].version =>
                                 copy'[d][b].live = Live(b)
                          /\ row[b].version <= since[d] =>
                                 copy'[d][b].version = row[b].version
        BY <2>1 DEF Copies, tables, Live, LiveIn
      <4>1. /\ copy[d][b].version <= row[b].version
            /\ copy[d][b].version = row[b].version => copy[d][b].live = Live(b)
            /\ row[b].version <= since[d] => copy[d][b].version = row[b].version
        BY <3>1 DEF InTurn, Copies
      <4>2. row[a].version \in Nat /\ Live(a) = {}
        BY <1>2, <1>5 DEF IInv, TypeOK, Row, Live
      <4>3. CASE copy'[d][b] = copy[d][b]
        BY <4>1, <4>3
      <4>4. CASE b = a /\ copy'[d][b] = answer
        BY <2>2, <4>2, <4>4
      <4> QED
        BY <2>3, <4>3, <4>4
    <3>4. ASSUME NEW d \in Clients PROVE Pulled(d)'
      <4>1. CASE d = c
        BY <2>4, <4>1 DEF Pulled, Idle
      <4>2. CASE d # c
        <5>1. Pulled(d) /\ req'[d] = req[d]
              /\ \A b \in Aggregates : copy'[d][b] = copy[d][b]
          BY <2>3, <2>4, <3>1, <4>2 DEF InTurn
        <5> QED
          BY <2>1, <5>1 DEF Pulled, tables
      <4> QED
        BY <4>1, <4>2
    <3>5. ASSUME NEW d \in Clients PROVE Checked(d)'
      BY <3>2 DEF Checked, Saving, StampedSteps
    <3> QED
      BY <3>2, <3>3, <3>4, <3>5 DEF InTurn, OneTurn
  <2> QED
    BY <2>1, <2>5, <2>6, <2>7, <2>8, <2>9 DEF IInv, tables
<1> QED
  BY <1>6, <1>7, <1>8

\* The versions a pull has read are those that are there.
LEMMA PullRowsStep ==
    ASSUME IInv, NEW c \in Clients, PullRows(c)
    PROVE  IInv'
<1> DEFINE r == [req[c] EXCEPT !.pc = "pull", !.got = NewRows(c)]
<1>1. NewRows(c) \in [Aggregates -> Nat]
  BY DEF NewRows, IInv, TypeOK, Row, Null
<1>2. r \in Request /\ r.pc = "pull" /\ r.got = NewRows(c)
  BY <1>1 DEF IInv, TypeOK, Request, Steps
<1>3. req' = [req EXCEPT ![c] = r] /\ UNCHANGED <<tables, copy, since>>
      /\ now' = now
  BY DEF PullRows, IInv, TypeOK
<1> HIDE DEF r
<1>4. req'[c] = r
  BY <1>3, OneRequest DEF IInv
<1>5. \A a \in Aggregates :
          r.got[a] = IF row[a].version > since[c] THEN row[a].version ELSE Null
  BY <1>2 DEF NewRows
<1>6. \A a \in Aggregates : row[a].version \in Nat /\ row[a].version < now
  BY DEF IInv, TypeOK, Row, Tables
<1>7. Fields(c)'
  <2>1. \A a \in Aggregates : r.got[a] < now'
    BY <1>3, <1>5, <1>6 DEF IInv, Tables, TypeOK, Null
  <2> QED
    BY <1>2, <1>4, <2>1 DEF Fields, SavingSteps, StampedSteps, LockingSteps
<1>8. ASSUME serial PROVE Pulled(c)' /\ Checked(c)'
  <2>1. Copies /\ since[c] \in Nat
    BY <1>8 DEF IInv, InTurn, TypeOK
  <2>2. Pulled(c)'
    <3> SUFFICES ASSUME NEW a \in Aggregates
                 PROVE  /\ r.got[a] <= row[a].version
                        /\ r.got[a] # Null => since[c] < r.got[a]
                               /\ copy[c][a].version <= r.got[a]
                        /\ \/ row[a].version = r.got[a]
                           \/ r.got[a] = Null /\ row[a].version <= since[c]
      BY <1>3, <1>4 DEF Pulled, tables
    <3> QED
      BY <1>5, <1>6, <2>1 DEF Copies, Null
  <2>3. Checked(c)'
    BY <1>2, <1>4 DEF Checked, StampedSteps
  <2> QED
    BY <2>2, <2>3
<1>9. ~Saving(c)' /\ now' \in Nat /\ now <= now'
  BY <1>2, <1>3, <1>4 DEF Saving, IInv, TypeOK
<1>10. serial => Pulled(c)' /\ Checked(c)'
  BY <1>8
<1>11. r.pc \notin LockingSteps
  BY <1>2 DEF LockingSteps
<1> QED
  BY <1>2, <1>3, <1>7, <1>9, <1>10, <1>11, QuietStep

\* A pull that ends leaves the client with copies that were there, none of an
\* aggregate that has changed up to the last version it got.
LEMMA PullChildrenStep ==
    ASSUME IInv, NEW c \in Clients, PullChildren(c)
    PROVE  IInv'
<1>0. PICK got : got = req[c].got
  OBVIOUS
<1>1. PICK last \in Aggregates :
          /\ \A a \in Aggregates : got[a] <= got[last]
          /\ since' = [since EXCEPT ![c] = got[last]]
  BY <1>0 DEF PullChildren
<1>2. got \in [Aggregates -> Nat] /\ Fields(c) /\ req[c].pc = "pull"
  BY <1>0 DEF IInv, TypeOK, Request, PullChildren
<1>3. /\ req' = [req EXCEPT ![c] = Idle] /\ UNCHANGED <<tables, now>>
      /\ copy' = [copy EXCEPT ![c] =
                    [a \in Aggregates |->
                        IF got[a] = Null THEN copy[c][a]
                        ELSE [version |-> got[a], live |-> Live(a)]]]
  BY <1>0 DEF PullChildren, IInv, TypeOK
<1>4. req'[c] = Idle /\ \A d \in Clients \ {c} : req'[d] = req[d]
  BY <1>3, OneRequest DEF IInv
<1>5. /\ \A d \in Clients \ {c} : copy'[d] = copy[d] /\ since'[d] = since[d]
      /\ since'[c] = got[last]
      /\ \A a \in Aggregates :
             copy'[c][a] = IF got[a] = Null THEN copy[c][a]
                           ELSE [version |-> got[a], live |-> Live(a)]
  BY <1>1, <1>3 DEF IInv, TypeOK
<1>6. TypeOK'
  <2>1. ASSUME NEW a \in Aggregates
        PROVE  [version |-> got[a], live |-> Live(a)] \in Copy
    BY <1>2 DEF Copy, Live, LiveIn
  <2>2. [a \in Aggregates |->
             IF got[a] = Null THEN copy[c][a]
             ELSE [version |-> got[a], live |-> Live(a)]]
            \in [Aggregates -> Copy]
    BY <2>1 DEF IInv, TypeOK
  <2>3. copy' \in [Clients -> [Aggregates -> Copy]]
    BY <1>3, <2>2 DEF IInv, TypeOK
  <2>4. since' \in [Clients -> Nat]
    BY <1>1, <1>2 DEF IInv, TypeOK
  <2> QED
    BY <1>3, <2>3, <2>4, IdleType DEF IInv, TypeOK, tables
<1>7. Tables'
  <2>1. \A d \in Clients : since'[d] < now
    BY <1>0, <1>2, <1>5 DEF IInv, Tables, Fields
  <2> QED
    BY <1>3, <2>1 DEF IInv, Tables, tables, Exists
<1>8. ASSUME NEW d \in Clients PROVE Fields(d)'
  <2>1. CASE d = c
    BY <1>4, <2>1 DEF Fields, Idle, SavingSteps, StampedSteps, LockingSteps
  <2>2. CASE d # c
    <3>1. Fields(d) /\ req'[d] = req[d]
      BY <1>4, <2>2 DEF IInv
    <3> QED
      BY <1>3, <3>1 DEF Fields, tables, PartsOf
  <2> QED
    BY <2>1, <2>2
<1>9. Locks'
  <2> SUFFICES ASSUME NEW d \in Clients, NEW e \in Clients,
                      req'[d].pc \in LockingSteps,
                      req'[e].pc \in LockingSteps,
                      req'[d].agg = req'[e].agg
               PROVE  d = e
    BY DEF Locks
  <2>1. d # c /\ e # c
    BY <1>4 DEF Idle, LockingSteps
  <2> QED
    BY <1>4, <2>1 DEF IInv, Locks
<1>10. ASSUME serial PROVE InTurn'
  <2>1. InTurn /\ Pulled(c)
    BY <1>10 DEF IInv, InTurn
  <2>2. OneTurn'
    <3> SUFFICES ASSUME NEW d \in Clients, NEW e \in Clients,
                        Saving(d)', Saving(e)'
                 PROVE  d = e
      BY DEF OneTurn
    <3> QED
      BY <1>4, <2>1 DEF InTurn, OneTurn, Saving, Idle
  <2>3. Copies'
    <3> SUFFICES ASSUME NEW d \in Clients, NEW b \in Aggregates
                 PROVE  /\ copy'[d][b].version <= row[b].version
                        /\ copy'[d][b].version = row[b].version =>
                               copy'[d][b].live = Live(b)
                        /\ row[b].version <= since'[d] =>
                               copy'[d][b].version = row[b].version
      BY <1>3 DEF Copies, tables, Live, LiveIn
    <3>1. /\ copy[d][b].version <= row[b].version
          /\ copy[d][b].version = row[b].version => copy[d][b].live = Live(b)
          /\ row[b].version <= since[d] => copy[d][b].version = row[b].version
      BY <2>1 DEF InTurn, Copies
    <3>2. CASE d # c
      BY <1>5, <3>1, <3>2
    <3>3. CASE d = c
      <4>1. /\ got[b] <= row[b].version
            /\ \/ row[b].version = got[b]
               \/ got[b] = Null /\ row[b].version <= since[c]
               \/ got[last] < row[b].version
        BY <1>0, <1>2, <2>1 DEF Pulled
      <4>2. /\ row[b].version \in Nat /\ since[c] \in Nat
            /\ got[b] \in Nat /\ got[last] \in Nat
        BY <1>2 DEF IInv, TypeOK, Row
      <4>3. CASE got[b] = Null
        <5>1. copy'[c][b] = copy[c][b]
          BY <1>5, <4>3
        <5>2. row[b].version <= since'[c] => row[b].version <= since[c]
          BY <1>5, <4>1, <4>2, <4>3 DEF Null
        <5> QED
          BY <3>1, <3>3, <5>1, <5>2
      <4>4. CASE got[b] # Null
        <5>0. copy'[c][b] = [version |-> got[b], live |-> Live(b)]
          BY <1>5, <4>4
        <5>1. copy'[c][b].version = got[b] /\ copy'[c][b].live = Live(b)
          BY <5>0
        <5>2. row[b].version <= since'[c] => row[b].version = got[b]
          BY <1>5, <4>1, <4>2, <4>4
        <5> QED
          BY <3>3, <4>1, <5>1, <5>2
      <4> QED
        BY <4>3, <4>4
    <3> QED
      BY <3>2, <3>3
  <2>4. ASSUME NEW d \in Clients PROVE Pulled(d)' /\ Checked(d)'
    <3>1. CASE d = c
      BY <1>4, <3>1 DEF Pulled, Checked, Idle, StampedSteps
    <3>2. CASE d # c
      <4>1. /\ Pulled(d) /\ Checked(d) /\ req'[d] = req[d]
            /\ copy'[d] = copy[d] /\ since'[d] = since[d]
        BY <1>4, <1>5, <2>1, <3>2 DEF InTurn
      <4>2. Pulled(d)'
        BY <1>3, <4>1 DEF Pulled, tables
      <4>3. req[d].pc \in StampedSteps =>
                \A e \in Clients : since'[e] < req[d].stamp
        <5> SUFFICES ASSUME req[d].pc \in StampedSteps
                     PROVE  since'[c] < req[d].stamp
          BY <1>5, <4>1 DEF Checked
        <5>1. got[last] <= row[last].version
          BY <1>0, <1>2, <2>1 DEF Pulled
        <5>2. row[last].version < req[d].stamp
          BY <4>1 DEF Checked
        <5>3. /\ got[last] \in Nat /\ row[last].version \in Nat
              /\ req[d].stamp \in Nat
          BY <1>2 DEF IInv, TypeOK, Row, Request
        <5> QED
          BY <1>5, <5>1, <5>2, <5>3
      <4>4. Checked(d)'
        BY <1>3, <4>1, <4>3 DEF Checked, tables, Live, LiveIn, PartsOf, Sent,
           Exists
      <4> QED
        BY <4>2, <4>4
    <3> QED
      BY <3>1, <3>2
  <2> QED
    BY <2>2, <2>3, <2>4 DEF InTurn
<1> QED
  BY <1>3, <1>6, <1>7, <1>8, <1>9, <1>10 DEF IInv, tables

\* The claim passes on while no save is in flight, if saves take turns.
LEMMA ClaimStep ==
    ASSUME IInv, ClaimPasses
    PROVE  IInv'
<1>1. UNCHANGED <<kind, serial, row, part, now, copy, since, req>>
      /\ holder' \in Clients \cup {Null}
      /\ (serial => \A c \in Clients : ~Saving(c))
  BY DEF ClaimPasses
<1>2. TypeOK' /\ Tables' /\ Locks'
  BY <1>1 DEF IInv, TypeOK, Tables, Locks, Exists
<1>3. \A c \in Clients : Fields(c)'
  BY <1>1 DEF IInv, Fields, PartsOf
<1>4. ASSUME serial PROVE InTurn'
  <2>1. InTurn
    BY <1>4 DEF IInv
  <2>2. OneTurn' /\ Copies'
    BY <1>1, <2>1 DEF InTurn, OneTurn, Copies, Saving, Live, LiveIn
  <2>3. \A c \in Clients : Pulled(c)'
    BY <1>1, <2>1 DEF InTurn, Pulled
  <2>4. \A c \in Clients : Checked(c)'
    BY <1>1, <1>4 DEF Checked, Saving, StampedSteps
  <2> QED
    BY <2>2, <2>3, <2>4 DEF InTurn
<1> QED
  BY <1>1, <1>2, <1>3, <1>4 DEF IInv

\* A save that reads the parents of its children goes on or is refused.
LEMMA ParentsStep ==
    ASSUME IInv, NEW c \in Clients, kind \in OneParent, ReadParents(c)
    PROVE  IInv'
<1>1. CASE Refuse(c)
  BY <1>1, EndStep DEF Refuse
<1>2. CASE ~Refuse(c)
  <2>1. /\ req[c].pc = "parents"
        /\ ~\E k \in Sent(c) \ PartsOf(req[c].agg),
              b \in Aggregates \ {req[c].agg} : k \in PartsOf(b)
        /\ req' = [req EXCEPT ![c].pc = "write",
                              ![c].existing = PartsOf(req[c].agg)]
        /\ UNCHANGED <<tables, now, copy, since>>
    BY <1>2 DEF ReadParents
  <2> QED
    BY <2>1, ExistingStep
<1> QED
  BY <1>1, <1>2

\* Every step keeps the inductive invariant.
LEMMA NextInvariant ==
    ASSUME IInv, Next
    PROVE  IInv'
<1>1. CASE ClaimPasses
  BY <1>1, ClaimStep
<1>2. ASSUME NEW c \in Clients, End(c) PROVE IInv'
  <2>1. [Idle EXCEPT !.pc = Idle.pc] = Idle /\ Idle.pc = "idle"
    BY DEF Idle
  <2>2. /\ req' = [req EXCEPT ![c] = [Idle EXCEPT !.pc = "idle"]]
        /\ UNCHANGED <<tables, now, copy, since>>
    BY <1>2, <2>1 DEF End
  <2> QED
    BY <2>2, EndStep
<1>3. ASSUME NEW c \in Clients, Serve(c) PROVE IInv'
  <2>1. CASE \/ PutEquipment(c) \/ PutInspection(c) \/ PutWorkLog(c)
             \/ PutDefect(c) \/ PutProperties(c)
    BY <2>1, PutsStep
  <2>2. CASE PutSticker(c)
    BY <2>2, PutStickerStep
  <2>3. CASE \/ EquipmentOwnership(c) \/ InspectionOwnership(c)
             \/ WorkLogOwnership(c) \/ NoOwnership(c)
    BY <2>3, OwnershipStep
  <2>4. ASSUME SaveEquipment(c) \/ SaveInspection(c) PROVE IInv'
    <3>1. kind \in OneParent
      BY <2>4 DEF SaveEquipment, SaveInspection, OneParent
    <3>2. kind # "sticker" /\ kind \in WithChildren
      BY <3>1 DEF OneParent, WithChildren
    <3>3. CASE ReadParents(c)
      BY <3>1, <3>3, ParentsStep
    <3> QED
      BY <2>4, <3>1, <3>2, <3>3, CheckStep, UpsertStep, SyncedStep
         DEF SaveEquipment, SaveInspection, SyncControlPoints, SyncSteps
  <2>5. ASSUME SaveWorkLog(c) PROVE IInv'
    <3>1. kind = "work_log" /\ kind # "sticker" /\ kind \in WithChildren
      BY <2>5 DEF SaveWorkLog, WithChildren
    <3> QED
      BY <2>5, <3>1, CheckStep, UpsertStep, InspectorsStep DEF SaveWorkLog
  <2>6. ASSUME SaveDefect(c) \/ SaveProperties(c) PROVE IInv'
    <3>1. kind # "sticker" /\ kind \notin WithChildren
      BY <2>6 DEF SaveDefect, SaveProperties, WithChildren, OneParent
    <3> QED
      BY <2>6, <3>1, CheckStep, UpsertOnlyStep DEF SaveDefect, SaveProperties
  <2>7. CASE SaveSticker(c)
    BY <2>7, SaveStickerStep
  <2>8. CASE Pull(c)
    BY <2>8, PullRowsStep, PullChildrenStep DEF Pull
  <2> QED
    BY <1>3, <2>1, <2>2, <2>3, <2>4, <2>5, <2>6, <2>7, <2>8
       DEF Serve, PullEquipment, PullInspections, PullWorkLogs, PullDefects,
       PullProperties, PullStickers
<1> QED
  BY <1>1, <1>2, <1>3 DEF Next

\* The first state satisfies it.
LEMMA InitInvariant == Init => IInv
<1> SUFFICES ASSUME Init PROVE IInv
  OBVIOUS
<1>1. /\ \A c \in Clients : req[c] = Idle /\ since[c] = 0
      /\ \A c \in Clients, a \in Aggregates : copy[c][a] = NoCopy
      /\ \A a \in Aggregates : row[a] = NoRow
      /\ \A a \in Aggregates, k \in Children : part[a][k] = "none"
  BY DEF Init, Null
<1>2. TypeOK
  <2>1. NoRow \in Row
    BY DEF NoRow, Row, Null
  <2>2. NoCopy \in Copy
    BY DEF NoCopy, Copy, Null
  <2> QED
    BY <2>1, <2>2, IdleType DEF Init, TypeOK, PartState, Null
<1>3. Tables
  BY <1>1 DEF Init, Tables, NoRow, Null
<1>4. \A c \in Clients : Fields(c) /\ Pulled(c) /\ Checked(c) /\ ~Saving(c)
  BY <1>1 DEF Fields, Pulled, Checked, Saving, Idle, SavingSteps,
     StampedSteps, LockingSteps
<1>5. Locks
  BY <1>1 DEF Locks, Idle, LockingSteps
<1>6. Copies
  BY <1>1 DEF Copies, NoCopy, NoRow, Live, LiveIn, Null
<1> QED
  BY <1>2, <1>3, <1>4, <1>5, <1>6 DEF IInv, InTurn, OneTurn

\* IInv holds in every behaviour.
THEOREM Invariant == Spec => []IInv
<1>1. IInv /\ [Next]_vars => IInv'
  <2> SUFFICES ASSUME IInv, [Next]_vars PROVE IInv'
    OBVIOUS
  <2>1. CASE Next
    BY <2>1, NextInvariant
  <2>2. CASE UNCHANGED vars
    BY <2>2 DEF vars, IInv, TypeOK, Tables, Fields, Locks, InTurn, OneTurn,
       Copies, Pulled, Checked, Exists, Live, LiveIn, PartsOf, Sent, Saving
  <2> QED
    BY <2>1, <2>2
<1> QED
  BY <1>1, InitInvariant, PTL DEF Spec

-----------------------------------------------------------------------------
(* The properties                                                          *)

\* Every variable keeps its type.
THEOREM TypeCorrect == Spec => []TypeOK
<1>1. IInv => TypeOK
  BY DEF IInv
<1> QED
  BY <1>1, Invariant, PTL

\* Taking turns, asking for what is later than all one has seen misses nothing.
THEOREM NoneMissed == Spec => []NothingMissed
<1>1. IInv => NothingMissed
  BY DEF IInv, InTurn, Copies, NothingMissed
<1> QED
  BY <1>1, Invariant, PTL

\* Taking turns, a copy with the version of the aggregate has its children too.
THEOREM WholeCopies == Spec => []CopiesAreWhole
<1>1. IInv => CopiesAreWhole
  BY DEF IInv, InTurn, Copies, CopiesAreWhole
<1> QED
  BY <1>1, Invariant, PTL

\* A row is changed by the save of its aggregate only.
LEMMA Writers ==
    ASSUME IInv, [Next]_vars, NEW a \in Aggregates, row'[a] # row[a]
    PROVE  \E d \in Clients :
               /\ req[d].agg = a
               /\ \/ kind \in OneParent /\ Publish(d, Synced(d))
                  \/ /\ kind = "work_log" /\ req[d].pc = "write"
                     /\ SyncInspectors(d)
                  \/ kind \notin WithChildren /\ UpsertOnly(d)
                  \/ kind = "sticker" /\ SaveSticker(d)
<1>1. row' # row
  OBVIOUS
<1>2. PICK d \in Clients :
          \/ SaveEquipment(d) \/ SaveInspection(d) \/ SaveWorkLog(d)
          \/ SaveDefect(d) \/ SaveProperties(d) \/ SaveSticker(d)
  <2>1. Next /\ ~ClaimPasses
    BY <1>1 DEF vars, ClaimPasses
  <2>2. PICK d \in Clients : Serve(d) \/ End(d)
    BY <2>1 DEF Next
  <2>3. ~End(d) /\ ~Pull(d)
    BY <1>1 DEF End, Pull, PullRows, PullChildren, tables
  <2>4. /\ ~PutEquipment(d) /\ ~PutInspection(d) /\ ~PutWorkLog(d)
        /\ ~PutDefect(d) /\ ~PutProperties(d) /\ ~PutSticker(d)
    BY <1>1 DEF PutEquipment, PutInspection, PutWorkLog, PutDefect,
       PutProperties, PutSticker, Put, tables
  <2>5. /\ ~EquipmentOwnership(d) /\ ~InspectionOwnership(d)
        /\ ~WorkLogOwnership(d) /\ ~NoOwnership(d)
    BY <1>1 DEF EquipmentOwnership, InspectionOwnership, WorkLogOwnership,
       NoOwnership, Validated, GoTo, Refuse, tables
  <2> QED
    BY <2>2, <2>3, <2>4, <2>5 DEF Serve, PullEquipment, PullInspections,
       PullWorkLogs, PullDefects, PullProperties, PullStickers
<1>3. ~Check(d) /\ ~Upsert(d) /\ ~ReadParents(d)
  BY <1>1 DEF Check, Upsert, ReadParents, GoTo, Refuse, tables
<1>4. UNCHANGED tables => row' = row
  BY DEF tables
<1>5. CASE SaveEquipment(d) \/ SaveInspection(d)
  <2>1. kind \in OneParent /\ Publish(d, Synced(d))
    BY <1>3, <1>5 DEF SaveEquipment, SaveInspection, OneParent,
       SyncControlPoints, SyncSteps
  <2>2. row' = [row EXCEPT ![req[d].agg] = [version |-> req[d].stamp,
                                            owner |-> req[d].owner]]
    BY <2>1 DEF Publish
  <2>3. req[d].agg = a
    BY <2>2 DEF IInv, TypeOK
  <2> QED
    BY <2>1, <2>3
<1>6. CASE SaveWorkLog(d)
  <2>1. kind = "work_log" /\ SyncInspectors(d)
    BY <1>3, <1>6 DEF SaveWorkLog
  <2>2. /\ req[d].pc = "write"
        /\ row' = [row EXCEPT ![req[d].agg] = [version |-> req[d].stamp,
                                               owner |-> req[d].owner]]
    BY <1>1, <1>4, <2>1 DEF SyncInspectors, Publish
  <2>3. req[d].agg = a
    BY <2>2 DEF IInv, TypeOK
  <2> QED
    BY <2>1, <2>2, <2>3
<1>7. CASE SaveDefect(d) \/ SaveProperties(d)
  <2>1. kind \notin WithChildren /\ UpsertOnly(d)
    BY <1>3, <1>7 DEF SaveDefect, SaveProperties, WithChildren, OneParent
  <2>2. row' = [row EXCEPT ![req[d].agg].version = req[d].stamp]
    BY <2>1 DEF UpsertOnly
  <2>3. req[d].agg = a
    BY <2>2 DEF IInv, TypeOK
  <2> QED
    BY <2>1, <2>3
<1>8. CASE SaveSticker(d)
  <2>1. /\ kind = "sticker"
        /\ \/ row' = row
           \/ row' = [row EXCEPT ![req[d].agg] = [version |-> req[d].stamp,
                                                  owner |-> req[d].owner]]
    BY <1>4, <1>8 DEF SaveSticker, Refuse
  <2>2. req[d].agg = a
    BY <1>1, <2>1 DEF IInv, TypeOK
  <2> QED
    BY <1>8, <2>1, <2>2
<1> QED
  BY <1>2, <1>5, <1>6, <1>7, <1>8

\* A forced save leaves exactly the live children it sent.
LEMMA SyncedIsLive ==
    ASSUME IInv, NEW c \in Clients, req[c].pc = "write",
           req[c].force \/ Live(req[c].agg) \subseteq Sent(c)
    PROVE  LiveIn(Synced(c), req[c].agg) = req[c].live
<1>1. PICK a : a = req[c].agg
  OBVIOUS
<1>2. /\ a \in Aggregates /\ PartsOf(a) \subseteq req[c].existing
      /\ req[c].live \cap req[c].gone = {} /\ req[c].live \subseteq Children
  BY <1>1 DEF IInv, Fields, SavingSteps, TypeOK, Request
<1>3. ASSUME NEW k \in Children
      PROVE  Synced(c)[a][k] = "live" <=> k \in req[c].live
  <2>1. CASE k \in Sent(c)
    BY <1>1, <1>2, <2>1 DEF Synced, Sent
  <2>2. CASE k \notin Sent(c)
    <3>1. part[a][k] = "live" => req[c].force /\ k \in req[c].existing
      BY <1>1, <1>2, <2>2 DEF PartsOf, Live, LiveIn
    <3> QED
      BY <1>1, <1>2, <2>2, <3>1 DEF Synced, Sent
  <2> QED
    BY <2>1, <2>2
<1> QED
  BY <1>1, <1>2, <1>3 DEF LiveIn

\* A save of a work log leaves exactly the inspectors it sent.
LEMMA InspectorsAreLive ==
    ASSUME IInv, NEW c \in Clients, SyncInspectors(c), req[c].pc = "write"
    PROVE  LiveIn(part', req[c].agg) = req[c].live
<1>1. PICK a : a = req[c].agg
  OBVIOUS
<1>2. /\ a \in Aggregates /\ PartsOf(a) \subseteq req[c].existing
      /\ req[c].live \subseteq Children
  BY <1>1 DEF IInv, Fields, SavingSteps, TypeOK, Request
<1>3. part' = [part EXCEPT ![a] =
                  [k \in Children |->
                      IF k \in req[c].live THEN "live"
                      ELSE IF k \in req[c].existing THEN "none"
                      ELSE @[k]]]
  BY <1>1 DEF SyncInspectors, Publish
<1>4. part'[a] = [k \in Children |->
                     IF k \in req[c].live THEN "live"
                     ELSE IF k \in req[c].existing THEN "none"
                     ELSE part[a][k]]
  BY <1>2, <1>3 DEF IInv, TypeOK
<1>5. ASSUME NEW k \in Children
      PROVE  part'[a][k] = "live" <=> k \in req[c].live
  BY <1>2, <1>4 DEF PartsOf
<1> QED
  BY <1>1, <1>2, <1>5 DEF LiveIn

\* In any interleaving, a forced save leaves exactly the children it sent.
THEOREM ForcedWhole == Spec => ForcedSaveIsWhole
<1> DEFINE A == \A c \in Clients, a \in Aggregates :
               (req[c].pc = "write" /\ req[c].force /\ req[c].agg = a
                   /\ row'[a] # row[a]) => LiveIn(part', a) = req[c].live
<1>1. ASSUME IInv, [Next]_vars PROVE A
  <2> SUFFICES ASSUME NEW c \in Clients, NEW a \in Aggregates,
                      req[c].pc = "write", req[c].force, req[c].agg = a,
                      row'[a] # row[a]
               PROVE  LiveIn(part', a) = req[c].live
    OBVIOUS
  <2>1. kind \in WithChildren
    BY <1>1 DEF IInv, Fields, LockingSteps
  <2>2. PICK d \in Clients :
            /\ req[d].agg = a /\ req[d].pc = "write"
            /\ \/ Publish(d, Synced(d))
               \/ SyncInspectors(d)
    BY <1>1, <2>1, Writers DEF Publish, WithChildren, OneParent
  <2>3. d = c
    BY <1>1, <2>2 DEF IInv, Locks, LockingSteps
  <2> QED
    BY <1>1, <2>2, <2>3, SyncedIsLive, InspectorsAreLive DEF Publish
<1> HIDE DEF A
<1>2. IInv /\ [Next]_vars => [A]_vars
  BY <1>1
<1>3. [][A]_vars <=> ForcedSaveIsWhole
  BY DEF A, ForcedSaveIsWhole
<1> QED
  BY <1>2, <1>3, Invariant, PTL DEF Spec

\* While a save that checks the owner is in flight, saves taking turns, it is
\* the one that changes the row, and what its checks established still holds.
LEMMA CheckedWrite ==
    ASSUME IInv, [Next]_vars, serial, NEW c \in Clients, NEW a \in Aggregates,
           req[c].pc = "write", row'[a] # row[a]
    PROVE  req[c].agg = a /\ Checked(c)
<1>1. PICK d \in Clients :
          /\ req[d].agg = a
          /\ \/ Publish(d, Synced(d)) \/ req[d].pc = "write"
             \/ UpsertOnly(d) \/ SaveSticker(d)
  BY Writers
<1>2. OneTurn /\ Checked(c)
  BY DEF IInv, InTurn
<1>3. req[d].pc \in {"upsert", "write", "insert"}
  BY <1>1 DEF Publish, UpsertOnly, SaveSticker
<1>4. d = c
  BY <1>2, <1>3 DEF OneTurn, Saving
<1> QED
  BY <1>1, <1>2, <1>4

\* Taking turns, a work log is changed only by its owner.
THEOREM OwnerKept == Spec => OwnerKeepsWorkLog
<1> DEFINE A == (kind = "work_log" /\ serial /\ RequireAuth) =>
               \A c \in Clients, a \in Aggregates :
                   (req[c].pc = "write" /\ Exists(a) /\ row'[a] # row[a]) =>
                       row[a].owner = c
<1>1. ASSUME IInv, [Next]_vars PROVE A
  BY <1>1, CheckedWrite DEF Checked
<1> HIDE DEF A
<1>2. IInv /\ [Next]_vars => [A]_vars
  BY <1>1
<1>3. [][A]_vars <=> OwnerKeepsWorkLog
  BY DEF A, OwnerKeepsWorkLog
<1> QED
  BY <1>2, <1>3, Invariant, PTL DEF Spec

\* Taking turns, equipment that is there is changed from the claiming device.
THEOREM ClaimantWrites == Spec => ClaimedSave
<1> DEFINE A == (kind = "equipment" /\ serial /\ RequireAuth) =>
               \A c \in Clients, a \in Aggregates :
                   (req[c].pc = "write" /\ Exists(a) /\ row'[a] # row[a]) =>
                       holder = c
<1>1. ASSUME IInv, [Next]_vars PROVE A
  BY <1>1, CheckedWrite DEF Checked
<1> HIDE DEF A
<1>2. IInv /\ [Next]_vars => [A]_vars
  BY <1>1
<1>3. [][A]_vars <=> ClaimedSave
  BY DEF A, ClaimedSave
<1> QED
  BY <1>2, <1>3, Invariant, PTL DEF Spec

\* What a PUT of a sticker installation tells its client
LEMMA StickerAnswer ==
    ASSUME IInv, [Next]_vars, NEW c \in Clients, NEW a \in Aggregates,
           req[c].pc = "insert", copy'[c][a] # copy[c][a]
    PROVE  SaveSticker(c) /\ req[c].agg = a
<1>1. Next /\ ~ClaimPasses
  BY DEF vars, ClaimPasses
<1>2. PICK d \in Clients : Serve(d) \/ End(d)
  BY <1>1 DEF Next
<1>3. kind = "sticker" /\ req[c].agg \in Aggregates
  BY DEF IInv, Fields, SavingSteps
<1>4. SaveSticker(d) \/ PullChildren(d)
  BY <1>2, <1>3 DEF Serve, End, PutEquipment, PutInspection, PutWorkLog,
     PutDefect, PutProperties, PutSticker, EquipmentOwnership,
     InspectionOwnership, WorkLogOwnership, NoOwnership, SaveEquipment,
     SaveInspection, SaveWorkLog, SaveDefect, SaveProperties, PullEquipment,
     PullInspections, PullWorkLogs, PullDefects, PullProperties, PullStickers,
     Pull, PullRows
<1>5. d = c
  <2>1. CASE SaveSticker(d)
    <3>1. Answered(d, req[d].agg, {}) \/ copy' = copy
      BY <2>1 DEF SaveSticker, Refuse
    <3> QED
      BY <3>1 DEF Answered, IInv, TypeOK
  <2>2. CASE PullChildren(d)
    BY <2>2 DEF PullChildren, IInv, TypeOK
  <2> QED
    BY <1>4, <2>1, <2>2
<1>6. SaveSticker(c)
  BY <1>4, <1>5 DEF PullChildren
<1>7. Answered(c, req[c].agg, {}) \/ copy' = copy
  BY <1>6 DEF SaveSticker, Refuse
<1> QED
  BY <1>3, <1>6, <1>7 DEF Answered, IInv, TypeOK

\* A sticker installation never changes, and a client whose PUT succeeds knows
\* that its content is there.
THEOREM StickerKept == Spec => FirstStickerStays
<1> DEFINE A == kind = "sticker" =>
               /\ \A a \in Aggregates : Exists(a) => row'[a] = row[a]
               /\ \A c \in Clients, a \in Aggregates :
                      (req[c].pc = "insert" /\ copy'[c][a] # copy[c][a]) =>
                          row'[a].owner = req[c].owner
<1>1. ASSUME IInv, [Next]_vars PROVE A
  <2> SUFFICES ASSUME kind = "sticker" PROVE A
    OBVIOUS
  <2>1. ASSUME NEW a \in Aggregates, Exists(a), row'[a] # row[a] PROVE FALSE
    <3>1. PICK d \in Clients : req[d].agg = a /\ (UpsertOnly(d) \/ SaveSticker(d))
      BY <1>1, <2>1, Writers DEF OneParent
    <3>2. SaveSticker(d)
      BY <1>1, <3>1 DEF UpsertOnly, IInv, Fields, SavingSteps
    <3> QED
      BY <2>1, <3>1, <3>2 DEF SaveSticker, Refuse, tables
  <2>2. ASSUME NEW c \in Clients, NEW a \in Aggregates, req[c].pc = "insert",
               copy'[c][a] # copy[c][a]
        PROVE  row'[a].owner = req[c].owner
    <3>1. SaveSticker(c) /\ req[c].agg = a
      BY <1>1, <2>2, StickerAnswer
    <3>2. copy' # copy
      BY <2>2
    <3>3. \/ Exists(a) /\ row[a].owner = req[c].owner /\ row' = row
          \/ row' = [row EXCEPT ![a] = [version |-> req[c].stamp,
                                        owner |-> req[c].owner]]
      BY <3>1, <3>2 DEF SaveSticker, Refuse
    <3>4. CASE row' = [row EXCEPT ![a] = [version |-> req[c].stamp,
                                          owner |-> req[c].owner]]
      <4>1. row'[a] = [version |-> req[c].stamp, owner |-> req[c].owner]
        BY <1>1, <3>4 DEF IInv, TypeOK
      <4> QED
        BY <4>1
    <3> QED
      BY <3>3, <3>4
  <2> QED
    BY <2>1, <2>2
<1> HIDE DEF A
<1>2. IInv /\ [Next]_vars => [A]_vars
  BY <1>1
<1>3. [][A]_vars <=> FirstStickerStays
  BY DEF A, FirstStickerStays
<1> QED
  BY <1>2, <1>3, Invariant, PTL DEF Spec

-----------------------------------------------------------------------------
(* The register                                                            *)

\* Another request for one client leaves what the others ask for.
LEMMA OthersAsk ==
    ASSUME IInv, NEW c \in Clients, NEW r, req' = [req EXCEPT ![c] = r]
    PROVE  /\ \A d \in Clients \ {c} : Pending(d)' = Pending(d)
           /\ [d \in Clients |-> Pending(d)]' =
                  [[d \in Clients |-> Pending(d)] EXCEPT ![c] = Pending(c)']
<1>1. \A d \in Clients \ {c} : req'[d] = req[d]
  BY OneRequest DEF IInv
<1>2. \A d \in Clients \ {c} : Pending(d)' = Pending(d)
  BY <1>1 DEF Pending, Saving
<1> QED
  BY <1>2

\* A save asks for something.
LEMMA SavingAsks ==
    ASSUME IInv, NEW c \in Clients
    PROVE  /\ Saving(c) => /\ req[c].agg \in Aggregates
                           /\ Pending(c) # Register!Nothing
           /\ ~Saving(c) => Pending(c) = Register!Nothing
<1>1. Saving(c) => req[c].agg \in Aggregates
  BY DEF IInv, TypeOK, Request, Steps, Saving, Fields, SavingSteps
<1>2. Saving(c) => Pending(c).agg \in Aggregates
  BY <1>1 DEF Pending
<1>3. Register!Nothing.agg \notin Aggregates
  BY IdsAssumption DEF Register!Nothing, Null
<1> QED
  BY <1>1, <1>2, <1>3 DEF Pending, Register!Nothing, Null

\* A step of a request that changes nothing the register shows
LEMMA Unseen ==
    ASSUME IInv, NEW c \in Clients, NEW r, req' = [req EXCEPT ![c] = r],
           UNCHANGED <<row, part, copy>>, Saving(c)' <=> Saving(c),
           Saving(c) => /\ r.agg = req[c].agg /\ r.live = req[c].live
                        /\ r.force = req[c].force
    PROVE  UNCHANGED Register!vars
<1>1. req'[c] = r
  BY OneRequest DEF IInv
<1>2. Pending(c)' = Pending(c)
  BY <1>1 DEF Pending
<1>3. \A d \in Clients : Pending(d)' = Pending(d)
  BY <1>2, OthersAsk
<1>4. \A a \in Aggregates : Live(a)' = Live(a)
  BY DEF Live, LiveIn
<1> QED
  BY <1>3, <1>4 DEF Register!vars

\* The versions the clients know
Known == [d \in Clients |-> [b \in Aggregates |-> copy[d][b].version]]

\* The version in an answer becomes the one its client knows.
LEMMA KnownAfter ==
    ASSUME IInv, NEW c \in Clients, NEW a \in Aggregates, NEW x,
           copy' \in {copy, [copy EXCEPT ![c][a] = x]}
    PROVE  Known' \in {Known, [Known EXCEPT ![c][a] = x.version]}
<1>1. CASE copy' = copy
  BY <1>1 DEF Known
<1>2. CASE copy' = [copy EXCEPT ![c][a] = x]
  <2>1. \A d \in Clients, b \in Aggregates :
            copy'[d][b] = IF d = c /\ b = a THEN x ELSE copy[d][b]
    BY <1>2 DEF IInv, TypeOK
  <2>2. \A d \in Clients, b \in Aggregates :
            copy'[d][b].version =
                IF d = c /\ b = a THEN x.version ELSE Known[d][b]
    BY <2>1 DEF Known
  <2>3. Known' = [d \in Clients |-> [b \in Aggregates |->
                     IF d = c /\ b = a THEN x.version ELSE Known[d][b]]]
    BY <2>2 DEF Known
  <2>4. Known = [d \in Clients |-> [b \in Aggregates |-> Known[d][b]]]
    BY DEF Known
  <2> DEFINE F == Known
             G == Known'
             v == x.version
  <2>5. /\ F = [d \in Clients |-> [b \in Aggregates |-> F[d][b]]]
        /\ G = [d \in Clients |-> [b \in Aggregates |->
                   IF d = c /\ b = a THEN v ELSE F[d][b]]]
    BY <2>3, <2>4
  <2> HIDE DEF F, G, v
  <2> DEFINE H(d) == IF d = c THEN [F[c] EXCEPT ![a] = v] ELSE F[d]
  <2>6. [F EXCEPT ![c][a] = v] = [d \in Clients |-> H(d)]
    BY <2>5
  <2>7. ASSUME NEW d \in Clients PROVE G[d] = H(d)
    <3>1. CASE d = c
      BY <2>5, <3>1
    <3>2. CASE d # c
      BY <2>5, <3>2
    <3> QED
      BY <3>1, <3>2
  <2>8. G = [d \in Clients |-> G[d]]
    BY <2>5
  <2> HIDE DEF H
  <2>9. G = [F EXCEPT ![c][a] = v]
    BY <2>6, <2>7, <2>8
  <2> QED
    BY <2>9 DEF F, G, v
<1> QED
  BY <1>1, <1>2

\* A save that ends without a change
LEMMA Dropped ==
    ASSUME IInv, NEW c \in Clients, NEW r, req' = [req EXCEPT ![c] = r],
           UNCHANGED <<row, part>>, Saving(c), ~Saving(c)',
           NEW x, x.version = row[req[c].agg].version,
           copy' \in {copy, [copy EXCEPT ![c][req[c].agg] = x]}
    PROVE  Register!Drop(c)
<1>1. PICK a \in Aggregates : a = req[c].agg
  BY SavingAsks
<1> DEFINE version == [b \in Aggregates |-> row[b].version]
           parts == [b \in Aggregates |-> Live(b)]
           asked == [d \in Clients |-> Pending(d)]
<1>2. asked[c] # Register!Nothing /\ asked[c].agg = a
  BY <1>1, SavingAsks DEF Pending
<1>3. asked' = [asked EXCEPT ![c] = Register!Nothing]
  <2>1. Pending(c)' = Register!Nothing
    BY DEF Pending, Register!Nothing, Null
  <2> QED
    BY <2>1, OthersAsk
<1>4. version' = version /\ parts' = parts /\ version[a] = row[a].version
  BY DEF Live, LiveIn
<1>5. Known' \in {Known, [Known EXCEPT ![c][a] = row[a].version]}
  <2>1. copy' \in {copy, [copy EXCEPT ![c][a] = x]} /\ x.version = row[a].version
    BY <1>1
  <2>2. Known' \in {Known, [Known EXCEPT ![c][a] = x.version]}
    BY <2>1, KnownAfter
  <2> QED
    BY <2>1, <2>2
<1>6. (/\ asked[c] # Register!Nothing
       /\ Known' \in {Known, [Known EXCEPT ![c][asked[c].agg] =
                                  version[asked[c].agg]]}
       /\ asked' = [asked EXCEPT ![c] = Register!Nothing]
       /\ UNCHANGED <<version, parts>>) => Register!Drop(c)
  BY DEF Register!Drop, Known
<1> HIDE DEF version, parts, asked
<1> QED
  BY <1>2, <1>3, <1>4, <1>5, <1>6

\* A save that is published
LEMMA Saved ==
    ASSUME IInv, NEW c \in Clients, NEW a \in Aggregates, NEW v \in Nat,
           Saving(c), req[c].agg = a, req' = [req EXCEPT ![c] = Idle],
           row'[a].version = v,
           \A b \in Aggregates \ {a} : row'[b].version = row[b].version,
           \A b \in Aggregates : row[b].version < v,
           Live(a)' = req[c].live,
           \A b \in Aggregates \ {a} : Live(b)' = Live(b),
           req[c].force \/ copy[c][a].version = row[a].version,
           NEW x, x.version = v, copy' \in {copy, [copy EXCEPT ![c][a] = x]}
    PROVE  Register!Save(c)
<1> DEFINE version == [b \in Aggregates |-> row[b].version]
           parts == [b \in Aggregates |-> Live(b)]
           asked == [d \in Clients |-> Pending(d)]
<1>1. asked[c] = [agg |-> a, live |-> req[c].live, force |-> req[c].force]
  BY DEF Pending
<1>2. asked[c] # Register!Nothing
  BY SavingAsks
<1>3. asked' = [asked EXCEPT ![c] = Register!Nothing]
  <2>1. req'[c] = Idle
    BY OneRequest DEF IInv
  <2>2. Pending(c)' = Register!Nothing
    BY <2>1 DEF Pending, Saving, Idle, Register!Nothing, Null
  <2> QED
    BY <2>2, OthersAsk
<1>4. Known' \in {Known, [Known EXCEPT ![c][a] = v]}
  <2>1. Known' \in {Known, [Known EXCEPT ![c][a] = x.version]}
    BY KnownAfter
  <2> QED
    BY <2>1
<1>5. version' = [version EXCEPT ![a] = v] /\ version'[a] = v
  OBVIOUS
<1>6. parts' = [parts EXCEPT ![a] = req[c].live]
  OBVIOUS
<1>7. \A b \in Aggregates : v > version[b]
  <2>1. \A b \in Aggregates : row[b].version \in Nat
    BY DEF IInv, TypeOK, Row
  <2> QED
    BY <2>1
<1>8. req[c].force \/ Known[c][a] = version[a]
  BY DEF Known
<1>9. (/\ asked[c] # Register!Nothing
       /\ asked[c].force \/ Known[c][asked[c].agg] = version[asked[c].agg]
       /\ \A b \in Aggregates : version'[asked[c].agg] > version[b]
       /\ version' = [version EXCEPT ![asked[c].agg] = version'[asked[c].agg]]
       /\ parts' = [parts EXCEPT ![asked[c].agg] = asked[c].live]
       /\ Known' \in {Known, [Known EXCEPT ![c][asked[c].agg] =
                                  version'[asked[c].agg]]}
       /\ asked' = [asked EXCEPT ![c] = Register!Nothing]) => Register!Save(c)
  BY DEF Register!Save, Known
<1> HIDE DEF version, parts, asked
<1>10. asked[c].agg = a /\ asked[c].live = req[c].live
       /\ asked[c].force = req[c].force
  BY <1>1
<1> QED
  BY <1>2, <1>3, <1>4, <1>5, <1>6, <1>7, <1>8, <1>9, <1>10

\* Putting a request asks for its save.
LEMMA AskStep ==
    ASSUME IInv, NEW c \in Clients, NEW r \in Request,
           req' = [req EXCEPT ![c] = r], UNCHANGED <<row, part, copy>>,
           ~Saving(c), r.agg \in Aggregates,
           r.pc \in {"owner", "insert"}
    PROVE  Register!Ask(c)
<1> DEFINE version == [b \in Aggregates |-> row[b].version]
           parts == [b \in Aggregates |-> Live(b)]
           asked == [d \in Clients |-> Pending(d)]
           new == [agg |-> r.agg, live |-> r.live, force |-> r.force]
<1>1. asked[c] = Register!Nothing
  BY SavingAsks
<1>2. Pending(c)' = new
  <2>1. req'[c] = r
    BY OneRequest DEF IInv
  <2> QED
    BY <2>1 DEF Pending, Saving
<1>3. asked' = [asked EXCEPT ![c] = new]
  BY <1>2, OthersAsk
<1>4. r.live \in SUBSET Children /\ r.force \in BOOLEAN
  BY DEF Request
<1>5. UNCHANGED <<version, parts, Known>>
  BY DEF Live, LiveIn, Known
<1>6. (/\ asked[c] = Register!Nothing
       /\ \E a \in Aggregates, live \in SUBSET Children, force \in BOOLEAN :
              asked' = [asked EXCEPT ![c] =
                           [agg |-> a, live |-> live, force |-> force]]
       /\ UNCHANGED <<version, parts, Known>>) => Register!Ask(c)
  BY DEF Register!Ask, Known
<1> HIDE DEF version, parts, asked
<1> QED
  BY <1>1, <1>3, <1>4, <1>5, <1>6

\* A commit of an aggregate with children
LEMMA PublishedSave ==
    ASSUME IInv, serial, ~DisableOptimisticLocking, NEW c \in Clients,
           NEW parts, Publish(c, parts),
           LiveIn(parts, req[c].agg) = req[c].live,
           \A b \in Aggregates \ {req[c].agg} : LiveIn(parts, b) = Live(b)
    PROVE  Register!Save(c)
<1>1. PICK a \in Aggregates : a = req[c].agg
  BY SavingAsks DEF Publish, Saving
<1>2. PICK v \in Nat : v = req[c].stamp
  BY DEF IInv, TypeOK, Request
<1>3. /\ \A b \in Aggregates : row[b].version < v
      /\ req[c].force \/ copy[c][a].version = row[a].version
  <2>1. Checked(c)
    BY DEF IInv, InTurn
  <2> QED
    BY <1>1, <1>2, <2>1 DEF Checked, Publish, StampedSteps
<1>4. row'[a] = [version |-> v, owner |-> req[c].owner]
      /\ \A b \in Aggregates \ {a} : row'[b] = row[b]
  BY <1>1, <1>2 DEF Publish, IInv, TypeOK
<1>5. Live(a)' = req[c].live /\ \A b \in Aggregates \ {a} : Live(b)' = Live(b)
  BY <1>1 DEF Publish, Live, LiveIn
<1> DEFINE x == [version |-> row'[a].version, live |-> LiveIn(parts, a)]
<1>6. copy' \in {copy, [copy EXCEPT ![c][a] = x]} /\ x.version = v
  BY <1>1, <1>4 DEF Publish, Answered
<1> HIDE DEF x
<1>7. Saving(c) /\ req' = [req EXCEPT ![c] = Idle]
  BY DEF Publish, Saving
<1>8. row'[a].version = v
      /\ \A b \in Aggregates \ {a} : row'[b].version = row[b].version
  BY <1>4
<1> QED
  BY <1>1, <1>3, <1>5, <1>6, <1>7, <1>8, Saved

\* A save of equipment or an inspection leaves the others their children.
LEMMA OthersKeepLive ==
    ASSUME IInv, serial, NEW c \in Clients, req[c].pc = "write",
           kind \in OneParent
    PROVE  \A b \in Aggregates \ {req[c].agg} : LiveIn(Synced(c), b) = Live(b)
<1>1. PICK a \in Aggregates : a = req[c].agg
  BY SavingAsks DEF Saving
<1>2. /\ req[c].existing = PartsOf(a)
      /\ \A b \in Aggregates \ {a}, k \in Sent(c) : part[b][k] = "none"
  <2>1. Checked(c)
    BY DEF IInv, InTurn
  <2> QED
    BY <1>1, <2>1 DEF Checked
<1>3. ASSUME NEW b \in Aggregates \ {a}, NEW k \in Children
      PROVE  Synced(c)[b][k] = "live" <=> part[b][k] = "live"
  <2>1. CASE k \in Sent(c)
    BY <1>1, <1>2, <2>1 DEF Synced
  <2>2. CASE k \notin Sent(c)
    <3>1. k \in req[c].existing => part[b][k] = "none"
      BY <1>2 DEF PartsOf, IInv, Tables
    <3> QED
      BY <2>2, <3>1 DEF Synced
  <2> QED
    BY <2>1, <2>2
<1> QED
  BY <1>1, <1>3 DEF Live, LiveIn

\* A save of an aggregate without children
LEMMA UpsertOnlySave ==
    ASSUME IInv, serial, ~DisableOptimisticLocking, NEW c \in Clients,
           kind \notin WithChildren, UpsertOnly(c)
    PROVE  Register!Save(c)
<1>1. PICK a \in Aggregates : a = req[c].agg
  BY SavingAsks DEF UpsertOnly, Saving
<1>2. PICK v \in Nat : v = req[c].stamp
  BY DEF IInv, TypeOK, Request
<1>3. /\ \A b \in Aggregates : row[b].version < v
      /\ req[c].force \/ copy[c][a].version = row[a].version
  <2>1. Checked(c)
    BY DEF IInv, InTurn
  <2> QED
    BY <1>1, <1>2, <2>1 DEF Checked, UpsertOnly, StampedSteps
<1>4. row' = [row EXCEPT ![a].version = v] /\ part' = part
  BY <1>1, <1>2 DEF UpsertOnly
<1>5. row'[a].version = v
      /\ \A b \in Aggregates \ {a} : row'[b].version = row[b].version
  BY <1>4 DEF IInv, TypeOK, Row
<1>6. Live(a)' = req[c].live /\ \A b \in Aggregates \ {a} : Live(b)' = Live(b)
  <2>1. req[c].live = {} /\ Live(a) = {}
    BY DEF IInv, Fields, SavingSteps, UpsertOnly, Tables, Live, LiveIn
  <2> QED
    BY <1>4, <2>1 DEF Live, LiveIn
<1> DEFINE x == [version |-> row'[a].version, live |-> {}]
<1>7. copy' \in {copy, [copy EXCEPT ![c][a] = x]} /\ x.version = v
  BY <1>1, <1>5 DEF UpsertOnly, Answered
<1> HIDE DEF x
<1>8. Saving(c) /\ req' = [req EXCEPT ![c] = Idle]
  BY DEF UpsertOnly, Saving
<1> QED
  BY <1>1, <1>3, <1>5, <1>6, <1>7, <1>8, Saved

\* A refused save is dropped.
LEMMA RefusedDrop ==
    ASSUME IInv, NEW c \in Clients, Saving(c),
           Refuse(c) \/ End(c)
    PROVE  Register!Drop(c)
<1>1. PICK pc \in {"idle", "refused"} :
          req' = [req EXCEPT ![c] = [Idle EXCEPT !.pc = pc]]
  <2>1. [Idle EXCEPT !.pc = Idle.pc] = Idle /\ Idle.pc = "idle"
    BY DEF Idle
  <2> QED
    BY <2>1 DEF Refuse, End
<1>2. UNCHANGED <<row, part, copy>>
  BY DEF Refuse, End, tables
<1>3. ~Saving(c)'
  <2>1. req'[c] = [Idle EXCEPT !.pc = pc]
    BY <1>1, OneRequest DEF IInv
  <2> QED
    BY <2>1 DEF Saving, Idle
<1>4. PICK x : x = row[req[c].agg]
  OBVIOUS
<1> QED
  BY <1>1, <1>2, <1>3, <1>4, Dropped

\* A PUT of a sticker installation publishes it or finds what it would publish.
LEMMA StickerSave ==
    ASSUME IInv, serial, NEW c \in Clients, SaveSticker(c)
    PROVE  Register!Save(c) \/ Register!Drop(c)
<1>1. PICK a \in Aggregates : a = req[c].agg
  BY SavingAsks DEF SaveSticker, Saving
<1>2. Saving(c)
  BY DEF SaveSticker, Saving
<1>3. CASE Refuse(c)
  BY <1>2, <1>3, RefusedDrop
<1>4. CASE ~Refuse(c)
  <2>1. /\ req' = [req EXCEPT ![c] = Idle]
        /\ UNCHANGED part
        /\ Answered(c, a, {})
        /\ row' = IF Exists(a) THEN row
                  ELSE [row EXCEPT ![a] = [version |-> req[c].stamp,
                                           owner |-> req[c].owner]]
    BY <1>1, <1>4 DEF SaveSticker
  <2> DEFINE x == [version |-> row'[a].version, live |-> {}]
  <2>2. copy' \in {copy, [copy EXCEPT ![c][a] = x]}
        /\ x.version = row'[a].version
    BY <2>1 DEF Answered
  <2> HIDE DEF x
  <2>3. CASE Exists(a)
    <3>1. row' = row /\ x.version = row[req[c].agg].version
      BY <1>1, <2>1, <2>2, <2>3
    <3>2. ~Saving(c)'
      <4>1. req'[c] = Idle
        BY <2>1, OneRequest DEF IInv
      <4> QED
        BY <4>1 DEF Saving, Idle
    <3> QED
      BY <1>1, <1>2, <2>1, <2>2, <3>1, <3>2, Dropped
  <2>4. CASE ~Exists(a)
    <3>1. PICK v \in Nat : v = req[c].stamp
      BY DEF IInv, TypeOK, Request
    <3>2. row' = [row EXCEPT ![a] = [version |-> v, owner |-> req[c].owner]]
      BY <2>1, <2>4, <3>1
    <3>3. row'[a] = [version |-> v, owner |-> req[c].owner]
          /\ \A b \in Aggregates \ {a} : row'[b] = row[b]
      BY <3>2 DEF IInv, TypeOK
    <3>4. row'[a].version = v
          /\ \A b \in Aggregates \ {a} : row'[b].version = row[b].version
      BY <3>3
    <3>5. \A b \in Aggregates : row[b].version < v
      <4>1. Checked(c)
        BY DEF IInv, InTurn
      <4> QED
        BY <3>1, <4>1 DEF Checked, SaveSticker, StampedSteps
    <3>6. copy[c][a].version = row[a].version
      <4>1. copy[c][a].version <= row[a].version /\ row[a].version = 0
        BY <2>4 DEF IInv, InTurn, Copies, Exists, Null
      <4>2. copy[c][a].version \in Nat
        BY DEF IInv, TypeOK, Copy
      <4> QED
        BY <4>1, <4>2
    <3>7. Live(a)' = req[c].live /\ \A b \in Aggregates \ {a} : Live(b)' = Live(b)
      <4>1. kind = "sticker" /\ kind \notin WithChildren
        BY DEF SaveSticker, WithChildren, OneParent
      <4>2. req[c].live = {} /\ Live(a) = {}
        BY <1>2, <4>1 DEF IInv, TypeOK, Request, Steps, Saving, Fields,
           SavingSteps, Tables, Live, LiveIn
      <4> QED
        BY <2>1, <4>2 DEF Live, LiveIn
    <3>8. x.version = v
      BY <2>2, <3>4
    <3> QED
      BY <1>1, <1>2, <2>1, <2>2, <3>4, <3>5, <3>6, <3>7, <3>8, Saved
  <2> QED
    BY <2>3, <2>4
<1> QED
  BY <1>3, <1>4

\* A pull that ends is a read that started a while ago.
LEMMA PullLearns ==
    ASSUME IInv, serial, NEW c \in Clients, PullChildren(c)
    PROVE  Register!Learn(c)
<1>0. PICK got : got = req[c].got
  OBVIOUS
<1> DEFINE version == [b \in Aggregates |-> row[b].version]
           parts == [b \in Aggregates |-> Live(b)]
           asked == [d \in Clients |-> Pending(d)]
           seen == [b \in Aggregates |->
                       IF got[b] = Null THEN copy[c][b].version ELSE got[b]]
<1>1. /\ req' = [req EXCEPT ![c] = Idle] /\ UNCHANGED <<row, part>>
      /\ req[c].pc = "pull"
      /\ copy' = [copy EXCEPT ![c] =
                    [b \in Aggregates |->
                        IF got[b] = Null THEN copy[c][b]
                        ELSE [version |-> got[b], live |-> Live(b)]]]
  BY <1>0 DEF PullChildren, IInv, TypeOK, tables
<1>2. Pulled(c) /\ Copies /\ got \in [Aggregates -> Nat]
  BY <1>0 DEF IInv, InTurn, TypeOK, Request
<1>3. \A b \in Aggregates : row[b].version \in Nat /\ copy[c][b].version \in Nat
  BY DEF IInv, TypeOK, Row, Copy
<1>4. \A b \in Aggregates :
          /\ seen[b] \in Nat
          /\ copy[c][b].version <= seen[b] /\ seen[b] <= row[b].version
  BY <1>0, <1>1, <1>2, <1>3 DEF Pulled, Copies, Null
<1>5. /\ \A b \in Aggregates : seen[b] \in Known[c][b]..version[b]
      /\ seen \in [Aggregates -> UNION {0..version[b] : b \in Aggregates}]
  <2>1. \A b \in Aggregates :
            seen[b] \in Known[c][b]..version[b] /\ seen[b] \in 0..version[b]
    BY <1>3, <1>4 DEF Known
  <2> QED
    BY <2>1
<1>6. Known' = [Known EXCEPT ![c] = seen]
  <2>1. \A d \in Clients \ {c} : copy'[d] = copy[d]
    BY <1>1 DEF IInv, TypeOK
  <2>2. copy'[c] = [b \in Aggregates |->
                       IF got[b] = Null THEN copy[c][b]
                       ELSE [version |-> got[b], live |-> Live(b)]]
    BY <1>1 DEF IInv, TypeOK
  <2>3. \A b \in Aggregates : copy'[c][b].version = seen[b]
    BY <2>2
  <2>4. Known' = [d \in Clients |-> IF d = c THEN seen ELSE Known[d]]
    <3>1. ASSUME NEW d \in Clients
          PROVE  [b \in Aggregates |-> copy'[d][b].version] =
                     IF d = c THEN seen ELSE Known[d]
      BY <2>1, <2>3 DEF Known
    <3> QED
      BY <3>1 DEF Known
  <2> QED
    BY <2>4 DEF Known
<1>7. UNCHANGED <<version, parts, asked>>
  <2>1. Pending(c)' = Pending(c)
    <3>1. req'[c] = Idle
      BY <1>1, OneRequest DEF IInv
    <3> QED
      BY <1>1, <3>1 DEF Pending, Saving, Idle
  <2>2. UNCHANGED asked
    BY <1>1, <2>1, OthersAsk
  <2> QED
    BY <1>1, <2>2 DEF Live, LiveIn
<1>8. (/\ \E s \in [Aggregates -> UNION {0..version[b] : b \in Aggregates}] :
              /\ \A b \in Aggregates : s[b] \in Known[c][b]..version[b]
              /\ Known' = [Known EXCEPT ![c] = s]
       /\ UNCHANGED <<version, parts, asked>>) => Register!Learn(c)
  BY DEF Register!Learn, Known
<1> HIDE DEF version, parts, asked, seen
<1> QED
  BY <1>5, <1>6, <1>7, <1>8

\* A PUT asks the register for a save.
LEMMA PutAsks ==
    ASSUME IInv, NEW c \in Clients,
           \/ PutEquipment(c) \/ PutInspection(c) \/ PutWorkLog(c)
           \/ PutDefect(c) \/ PutProperties(c) \/ PutSticker(c)
    PROVE  Register!Ask(c)
<1>1. ASSUME NEW level, NEW a \in Aggregates, NEW live \in SUBSET Children,
             NEW gone \in SUBSET Children, NEW owner \in Clients \cup {Null},
             NEW force \in BOOLEAN, Put(c, level, a, live, gone, owner, force)
      PROVE  Register!Ask(c)
  <2> DEFINE r == [Idle EXCEPT !.pc = "owner", !.agg = a, !.live = live,
                               !.gone = gone, !.owner = owner, !.force = force]
  <2>1. r \in Request /\ r.pc = "owner" /\ r.agg = a
    BY IdleType DEF Idle, Request, Steps
  <2>2. req' = [req EXCEPT ![c] = r] /\ UNCHANGED <<row, part, copy>>
        /\ ~Saving(c)
    BY <1>1 DEF Put, tables, Saving
  <2> HIDE DEF r
  <2> QED
    BY <2>1, <2>2, AskStep
<1>2. CASE PutSticker(c)
  <2>1. PICK a \in Aggregates, content \in Clients :
            req' = [req EXCEPT ![c] =
                       [Idle EXCEPT !.pc = "insert", !.agg = a, !.stamp = now,
                                    !.owner = content]]
    BY <1>2 DEF PutSticker
  <2> DEFINE r == [Idle EXCEPT !.pc = "insert", !.agg = a, !.stamp = now,
                               !.owner = content]
  <2>2. r \in Request /\ r.pc = "insert" /\ r.agg = a
    BY IdleType DEF Idle, Request, Steps, IInv, TypeOK
  <2>3. req' = [req EXCEPT ![c] = r] /\ UNCHANGED <<row, part, copy>>
        /\ ~Saving(c)
    BY <1>2, <2>1 DEF PutSticker, tables, Saving
  <2> HIDE DEF r
  <2> QED
    BY <2>2, <2>3, AskStep
<1>3. CASE PutEquipment(c) \/ PutInspection(c)
  <2>1. PICK a \in Aggregates, sent \in SUBSET Children, force \in BOOLEAN :
            \E gone \in SUBSET sent :
                \/ Put(c, MODIFY, a, sent \ gone, gone, Null, force)
                \/ Put(c, INSPECT, a, sent \ gone, gone, Null, force)
    BY <1>3 DEF PutEquipment, PutInspection
  <2>2. PICK gone \in SUBSET sent, level \in {MODIFY, INSPECT} :
            Put(c, level, a, sent \ gone, gone, Null, force)
    BY <2>1
  <2> QED
    BY <1>1, <2>2
<1>4. CASE PutWorkLog(c)
  <2>1. PICK a \in Aggregates, live \in SUBSET Children, owner \in Clients,
             force \in BOOLEAN : Put(c, INSPECT, a, live, {}, owner, force)
    BY <1>4 DEF PutWorkLog
  <2> QED
    BY <1>1, <2>1
<1>5. CASE PutDefect(c) \/ PutProperties(c)
  <2>1. PICK a \in Aggregates, force \in BOOLEAN :
            Put(c, INSPECT, a, {}, {}, Null, force)
    BY <1>5 DEF PutDefect, PutProperties
  <2> QED
    BY <1>1, <2>1
<1> QED
  BY <1>2, <1>3, <1>4, <1>5

\* The statements of a save before it publishes change nothing that the
\* register shows, or end it.
LEMMA EarlierStatements ==
    ASSUME IInv, NEW c \in Clients,
           \/ EquipmentOwnership(c) \/ InspectionOwnership(c)
           \/ WorkLogOwnership(c) \/ NoOwnership(c)
           \/ Check(c) \/ Upsert(c) \/ ReadParents(c)
           \/ SyncInspectors(c) /\ req[c].pc = "parents"
    PROVE  Register!Drop(c) \/ UNCHANGED Register!vars
<1>1. Saving(c)
  BY DEF EquipmentOwnership, InspectionOwnership, WorkLogOwnership,
     NoOwnership, Validated, Check, Upsert, ReadParents, Saving
<1>2. CASE Refuse(c)
  BY <1>1, <1>2, RefusedDrop
<1>3. CASE ~Refuse(c)
  <2>1. PICK pc \in {"check", "upsert", "parents", "write"},
             stamp \in {req[c].stamp, now},
             existing \in {req[c].existing, PartsOf(req[c].agg)} :
            req' = [req EXCEPT ![c].pc = pc, ![c].stamp = stamp,
                               ![c].existing = existing]
    <3>1. CASE \/ EquipmentOwnership(c) \/ InspectionOwnership(c)
               \/ WorkLogOwnership(c) \/ NoOwnership(c) \/ Upsert(c)
      <4>1. PICK pc \in {"check", "parents"} : req' = [req EXCEPT ![c].pc = pc]
        BY <1>3, <3>1 DEF EquipmentOwnership, InspectionOwnership,
           WorkLogOwnership, NoOwnership, Validated, Upsert, GoTo
      <4>2. req' = [req EXCEPT ![c].pc = pc, ![c].stamp = req[c].stamp,
                               ![c].existing = req[c].existing]
        BY <4>1 DEF IInv, TypeOK, Request
      <4> QED
        BY <4>2
    <3>2. CASE Check(c)
      <4>1. req' = [req EXCEPT ![c].pc = "upsert", ![c].stamp = now]
        BY <1>3, <3>2 DEF Check
      <4>2. req' = [req EXCEPT ![c].pc = "upsert", ![c].stamp = now,
                               ![c].existing = req[c].existing]
        BY <4>1 DEF IInv, TypeOK, Request
      <4> QED
        BY <4>2
    <3>3. CASE \/ ReadParents(c)
               \/ SyncInspectors(c) /\ req[c].pc = "parents"
      <4>1. req' = [req EXCEPT ![c].pc = "write",
                               ![c].existing = PartsOf(req[c].agg)]
        BY <1>3, <3>3 DEF ReadParents, SyncInspectors, Publish
      <4>2. req' = [req EXCEPT ![c].pc = "write", ![c].stamp = req[c].stamp,
                               ![c].existing = PartsOf(req[c].agg)]
        BY <4>1 DEF IInv, TypeOK, Request
      <4> QED
        BY <4>2
    <3> QED
      BY <3>1, <3>2, <3>3
  <2> DEFINE r == [req[c] EXCEPT !.pc = pc, !.stamp = stamp,
                                 !.existing = existing]
  <2>2. /\ r.pc = pc /\ r.agg = req[c].agg /\ r.live = req[c].live
        /\ r.force = req[c].force
    BY DEF IInv, TypeOK, Request
  <2>3. req' = [req EXCEPT ![c] = r]
    BY <2>1 DEF IInv, TypeOK
  <2> HIDE DEF r
  <2>4. Saving(c)'
    <3>1. req'[c] = r
      BY <2>3, OneRequest DEF IInv
    <3> QED
      BY <2>2, <3>1 DEF Saving
  <2>5. UNCHANGED <<row, part, copy>>
    BY <1>3 DEF EquipmentOwnership, InspectionOwnership, WorkLogOwnership,
       NoOwnership, Validated, Check, Upsert, ReadParents, SyncInspectors,
       Publish, GoTo, tables
  <2> QED
    BY <1>1, <2>2, <2>3, <2>4, <2>5, Unseen
<1> QED
  BY <1>2, <1>3

\* Taking turns, every step is a step of the register or a stutter.
LEMMA RegisterStep ==
    ASSUME IInv, [Next]_vars, serial, ~DisableOptimisticLocking
    PROVE  Register!Next \/ UNCHANGED Register!vars
<1>1. ASSUME UNCHANGED <<row, part, copy, req>> PROVE UNCHANGED Register!vars
  BY <1>1 DEF Register!vars, Live, LiveIn, Pending, Saving
<1>2. CASE UNCHANGED vars \/ ClaimPasses
  BY <1>1, <1>2 DEF vars, ClaimPasses
<1>3. CASE \E c \in Clients : Serve(c) \/ End(c)
  <2>1. PICK c \in Clients : Serve(c) \/ End(c)
    BY <1>3
  <2>2. (\/ Register!Ask(c) \/ Register!Save(c) \/ Register!Drop(c)
         \/ Register!Learn(c)) => Register!Next
    BY DEF Register!Next
  <2>3. CASE \/ PutEquipment(c) \/ PutInspection(c) \/ PutWorkLog(c)
             \/ PutDefect(c) \/ PutProperties(c) \/ PutSticker(c)
    BY <2>2, <2>3, PutAsks
  <2>4. CASE \/ EquipmentOwnership(c) \/ InspectionOwnership(c)
             \/ WorkLogOwnership(c) \/ NoOwnership(c)
             \/ Check(c) \/ Upsert(c) \/ ReadParents(c)
             \/ SyncInspectors(c) /\ req[c].pc = "parents"
    BY <2>2, <2>4, EarlierStatements
  <2>5. CASE kind \in OneParent /\ Publish(c, Synced(c))
    <3>1. req[c].pc = "write"
      BY <2>5 DEF Publish
    <3>2. req[c].force \/ Live(req[c].agg) \subseteq Sent(c)
      BY <3>1 DEF IInv, InTurn, Checked
    <3>3. Register!Save(c)
      BY <2>5, <3>1, <3>2, SyncedIsLive, OthersKeepLive, PublishedSave
    <3> QED
      BY <2>2, <3>3
  <2>6. CASE kind = "work_log" /\ SyncInspectors(c) /\ req[c].pc = "write"
    <3>1. PICK parts : Publish(c, parts)
                       /\ \A b \in Aggregates \ {req[c].agg} : parts[b] = part[b]
      BY <2>6 DEF SyncInspectors, IInv, TypeOK
    <3>2. LiveIn(parts, req[c].agg) = req[c].live
      <4>1. LiveIn(part', req[c].agg) = req[c].live /\ part' = parts
        BY <2>6, <3>1, InspectorsAreLive DEF Publish
      <4> QED
        BY <4>1
    <3>3. \A b \in Aggregates \ {req[c].agg} : LiveIn(parts, b) = Live(b)
      BY <3>1 DEF Live, LiveIn
    <3>4. Register!Save(c)
      BY <3>1, <3>2, <3>3, PublishedSave
    <3> QED
      BY <2>2, <3>4
  <2>7. CASE kind \notin WithChildren /\ UpsertOnly(c)
    BY <2>2, <2>7, UpsertOnlySave
  <2>8. CASE SaveSticker(c)
    BY <2>2, <2>8, StickerSave
  <2>9. CASE PullChildren(c)
    BY <2>2, <2>9, PullLearns
  <2>10. CASE PullRows(c)
    <3> DEFINE r == [req[c] EXCEPT !.pc = "pull", !.got = NewRows(c)]
    <3>1. req' = [req EXCEPT ![c] = r] /\ UNCHANGED <<row, part, copy>>
          /\ ~Saving(c) /\ r.pc = "pull"
      BY <2>10 DEF PullRows, tables, Saving, IInv, TypeOK, Request
    <3> HIDE DEF r
    <3>2. ~Saving(c)'
      <4>1. req'[c] = r
        BY <3>1, OneRequest DEF IInv
      <4> QED
        BY <3>1, <4>1 DEF Saving
    <3> QED
      BY <3>1, <3>2, Unseen
  <2>11. CASE End(c)
    <3>1. CASE Saving(c)
      BY <2>2, <2>11, <3>1, RefusedDrop
    <3>2. CASE ~Saving(c)
      <4>1. req' = [req EXCEPT ![c] = Idle] /\ UNCHANGED <<row, part, copy>>
        BY <2>11 DEF End, tables
      <4>2. ~Saving(c)'
        <5>1. req'[c] = Idle
          BY <4>1, OneRequest DEF IInv
        <5> QED
          BY <5>1 DEF Saving, Idle
      <4> QED
        BY <3>2, <4>1, <4>2, Unseen
    <3> QED
      BY <3>1, <3>2
  <2>12. ASSUME SaveEquipment(c) \/ SaveInspection(c)
         PROVE  \/ Check(c) \/ Upsert(c) \/ ReadParents(c)
                \/ kind \in OneParent /\ Publish(c, Synced(c))
    BY <2>12 DEF SaveEquipment, SaveInspection, SyncControlPoints, SyncSteps,
       OneParent
  <2>13. ASSUME SaveWorkLog(c)
         PROVE  \/ Check(c) \/ Upsert(c)
                \/ SyncInspectors(c) /\ req[c].pc = "parents"
                \/ kind = "work_log" /\ SyncInspectors(c) /\ req[c].pc = "write"
    BY <2>13 DEF SaveWorkLog, SyncInspectors, Publish
  <2>14. ASSUME SaveDefect(c) \/ SaveProperties(c)
         PROVE  Check(c) \/ (kind \notin WithChildren /\ UpsertOnly(c))
    BY <2>14 DEF SaveDefect, SaveProperties, WithChildren, OneParent
  <2> QED
    BY <2>1, <2>3, <2>4, <2>5, <2>6, <2>7, <2>8, <2>9, <2>10, <2>11, <2>12,
       <2>13, <2>14
       DEF Serve, Pull, PullEquipment, PullInspections, PullWorkLogs,
       PullDefects, PullProperties, PullStickers
<1> QED
  BY <1>2, <1>3 DEF Next

\* With optimistic locking on, saves that take turns are atomic: the tables
\* and what the clients know of them behave as the register.
THEOREM Refinement ==
    ASSUME ~DisableOptimisticLocking
    PROVE  Spec => ActsAsRegister
<1> DEFINE A == serial => Register!Next
           v == Register!vars
           I == Register!Init
<1>1. Init => I
  BY DEF Init, Register!Init, Live, LiveIn, Pending, Saving, Idle, NoRow,
     NoCopy, Null, Register!Nothing
<1>2. ASSUME IInv, [Next]_vars PROVE A \/ UNCHANGED v
  BY <1>2, RegisterStep
<1>3. ActsAsRegister <=> I /\ [][A]_v
  BY DEF ActsAsRegister
<1> HIDE DEF A, v, I
<1>4. IInv /\ [Next]_vars => [A]_v
  BY <1>2
<1> QED
  BY <1>1, <1>3, <1>4, Invariant, PTL DEF Spec
=============================================================================
