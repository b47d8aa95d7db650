------------------------- MODULE ImageUploadProofs -------------------------
(***************************************************************************)
(* Proofs about ImageUpload, for any images, clients, calls and drivers.   *)
(*                                                                         *)
(* The inductive invariant follows an event of a created object on its way *)
(* from the storage through the batch of a call and the updates its        *)
(* transaction has not committed to the row: at every stage the object it  *)
(* speaks of was created.  A second one, Follow, goes the other way: the   *)
(* event of an object that was created is at one of these stages.          *)
(***************************************************************************)
EXTENDS ImageUpload, SequenceTheorems, TLAPS

Creation(i, at) == [image |-> i, kind |-> "create", at |-> at]

\* What the storage reports as created was created.
Reported ==
    /\ \A e \in stored : e.kind = "create"
    /\ \A e \in pending : e.kind = "create" => e \in stored

\* So was what a call has in its batch or in its transaction.
Handled(k) ==
    /\ \A n \in 1 .. Len(call[k].batch) :
           call[k].batch[n].kind = "create" => call[k].batch[n] \in stored
    /\ \A i \in Images :
           call[k].marks[i] # 0 => Creation(i, call[k].marks[i]) \in stored

\* A PUT in flight names an image.
Named == \A c \in Clients : put[c].pc # "idle" => put[c].image \in Images

\* An image that is UPLOADED has the moment an event of its own names.
Moments ==
    \A i \in Images :
        row[i].status = "UPLOADED" => Creation(i, row[i].at) \in stored

IInv ==
    /\ TypeOK
    /\ Named
    /\ Reported
    /\ \A k \in Calls : Handled(k)
    /\ Moments

\* The empty records have their types.
LEMMA EmptyTypes == NoRow \in Row /\ NoPut \in PutRequest /\ NoCall \in Call
<1>1. <<>> \in Seq(Event)
  OBVIOUS
<1> QED
  BY <1>1 DEF NoRow, Row, Status, NoPut, PutRequest, NoCall, Call, NoMarks

\* A call that goes on in some way, and nothing else
LEMMA CallStep ==
    ASSUME IInv, NEW k \in Calls, NEW r \in Call,
           call' = [call EXCEPT ![k] = r],
           UNCHANGED <<driver, put, now, issued, moment, stored>>,
           row' \in [Images -> Row], pending' \subseteq pending,
           lost' \subseteq stored, failures' \in Nat,
           \A n \in 1 .. Len(r.batch) :
               r.batch[n].kind = "create" => r.batch[n] \in stored,
           \A i \in Images : r.marks[i] # 0 => Creation(i, r.marks[i]) \in stored,
           \A i \in Images : row'[i].status = "UPLOADED" =>
               Creation(i, row'[i].at) \in stored
    PROVE  IInv'
<1>1. call'[k] = r /\ \A l \in Calls \ {k} : call'[l] = call[l]
  BY DEF IInv, TypeOK
<1>2. TypeOK'
  BY DEF IInv, TypeOK
<1>3. Reported'
  BY DEF IInv, Reported
<1>4. ASSUME NEW l \in Calls PROVE Handled(l)'
  <2>1. CASE l = k
    BY <1>1, <2>1 DEF Handled
  <2>2. CASE l # k
    BY <1>1, <2>2 DEF IInv, Handled
  <2> QED
    BY <2>1, <2>2
<1>5. Moments'
  BY DEF Moments, Creation
<1>6. Named'
  BY DEF IInv, Named
<1> QED
  BY <1>2, <1>3, <1>4, <1>5, <1>6 DEF IInv

\* What the message a call is at says
LEMMA CurrentMessage ==
    ASSUME IInv, NEW k \in Calls, call[k].next <= Len(call[k].batch),
           ~Skipped(call[k].batch[call[k].next])
    PROVE  /\ call[k].batch[call[k].next] \in stored
           /\ call[k].batch[call[k].next].image \in Images
           /\ call[k].batch[call[k].next].at \in Nat
           /\ call[k].batch[call[k].next] =
                  Creation(call[k].batch[call[k].next].image,
                           call[k].batch[call[k].next].at)
<1> DEFINE e == call[k].batch[call[k].next]
<1>1. call[k].batch \in Seq(Event) /\ call[k].next \in Nat \ {0}
  BY DEF IInv, TypeOK, Call
<1>2. call[k].next \in 1 .. Len(call[k].batch)
  BY <1>1
<1>3. e \in Event
  BY <1>1, <1>2
<1>4. e.kind = "create"
  BY DEF Skipped
<1>5. e \in stored
  BY <1>2, <1>4 DEF IInv, Handled
<1> QED
  BY <1>3, <1>4, <1>5 DEF Event, Creation

\* The rows with marks a call has not committed have the file of the mark.
LEMMA RowsCommitted ==
    ASSUME IInv, NEW k \in Calls, NEW i \in Images
    PROVE  /\ HeldByCall(k, i) =>
                  Creation(i, call[k].marks[i]) \in stored
           /\ row[i].status = "UPLOADED" => Creation(i, row[i].at) \in stored
BY DEF IInv, Handled, HeldByCall, Moments, Creation

\* A row after the update of its status is a row, and speaks of a stored object.
LEMMA MarkedRow ==
    ASSUME NEW old \in Row, NEW at \in Nat, NEW i \in Images,
           Creation(i, at) \in stored,
           old.status = "UPLOADED" => Creation(i, old.at) \in stored
    PROVE  /\ Marked(old, at) \in Row
           /\ Marked(old, at).status = "UPLOADED" =>
                  Creation(i, Marked(old, at).at) \in stored
<1>1. CASE old.version = 0
  BY <1>1 DEF Marked
<1>2. CASE old.version # 0
  <2>1. Marked(old, at) = [old EXCEPT !.status = "UPLOADED", !.at = at]
    BY <1>2 DEF Marked
  <2>2. Marked(old, at) \in Row /\ Marked(old, at).at = at
    BY <2>1 DEF Row, Status
  <2> QED
    BY <2>2
<1> QED
  BY <1>1, <1>2

\* The steps of PUTs and of GET upload_url change neither the calls nor what the
\* storage knows; the upsert leaves the status.
LEMMA PutSteps ==
    ASSUME IInv, NEW c \in Clients,
           Put(c) \/ Saves(c) \/ GetUploadUrl(c)
    PROVE  IInv'
<1>1. ASSUME UNCHANGED <<driver, row, call, storage, lost, failures>>,
             put' \in [Clients -> PutRequest], now' \in Nat,
             issued' \subseteq Images, Named'
      PROVE  IInv'
  <2>1. UNCHANGED <<driver, row, call, moment, pending, stored, lost, failures>>
    BY <1>1 DEF storage
  <2>2. TypeOK'
    BY <1>1, <2>1 DEF IInv, TypeOK
  <2>3. Reported' /\ Moments'
    BY <2>1 DEF IInv, Reported, Moments
  <2>4. \A k \in Calls : Handled(k)'
    BY <2>1 DEF IInv, Handled
  <2> QED
    BY <1>1, <2>2, <2>3, <2>4 DEF IInv
<1>2. CASE Put(c)
  <2>1. PICK i \in Images :
            put' = [put EXCEPT ![c] = [pc |-> "upsert", image |-> i, stamp |-> now]]
    BY <1>2 DEF Put
  <2>2. [pc |-> "upsert", image |-> i, stamp |-> now] \in PutRequest
    BY DEF IInv, TypeOK, PutRequest
  <2>3. put' \in [Clients -> PutRequest]
    BY <2>1, <2>2 DEF IInv, TypeOK
  <2>4. now' \in Nat /\ issued' \subseteq Images
    BY <1>2 DEF Put, IInv, TypeOK
  <2>5. Named'
    BY <2>1 DEF IInv, TypeOK, Named
  <2> QED
    BY <1>1, <1>2, <2>3, <2>4, <2>5 DEF Put
<1>3. CASE Upsert(c)
  <2>1. put' \in [Clients -> PutRequest]
    BY <1>3 DEF Upsert, IInv, TypeOK, PutRequest
  <2>2. Named'
    BY <1>3 DEF Upsert, IInv, TypeOK, Named, PutRequest
  <2> QED
    BY <1>1, <1>3, <2>1, <2>2 DEF Upsert, IInv, TypeOK
<1>4. CASE Commit(c)
  <2> DEFINE i == put[c].image
             old == row[i]
             new == Upserted(old, put[c].stamp)
  <2>1. row' = [row EXCEPT ![i] = new]
    BY <1>4 DEF Commit, UrlGiven
  <2>2. i \in Images
    BY <1>4 DEF Commit, UrlGiven, IInv, Named
  <2>3. put' \in [Clients -> PutRequest] /\ Named'
    BY <1>4, EmptyTypes DEF Commit, UrlGiven, IInv, TypeOK, Named, NoPut
  <2>4. put[c].stamp \in Nat
    BY DEF IInv, TypeOK, PutRequest
  <2>5. new \in Row /\ new.status = old.status /\ new.at = old.at
    BY <2>2, <2>4 DEF IInv, TypeOK, Row, Upserted
  <2>6. row' \in [Images -> Row]
    BY <2>1, <2>5 DEF IInv, TypeOK
  <2>7. issued' \subseteq Images
    BY <1>4, <2>2 DEF Commit, UrlGiven, IInv, TypeOK
  <2>8. UNCHANGED <<driver, call, now, moment, pending, stored, lost, failures>>
    BY <1>4 DEF Commit, UrlGiven, storage
  <2>9. Moments'
    <3>1. \A j \in Images : row'[j].status = row[j].status /\ row'[j].at = row[j].at
      BY <2>1, <2>2, <2>5 DEF IInv, TypeOK
    <3> QED
      BY <3>1, <2>8 DEF IInv, Moments
  <2>10. TypeOK'
    BY <2>3, <2>6, <2>7, <2>8 DEF IInv, TypeOK
  <2>11. Reported' /\ \A k \in Calls : Handled(k)'
    BY <2>8 DEF IInv, Reported, Handled
  <2> QED
    BY <2>3, <2>9, <2>10, <2>11 DEF IInv
<1>5. CASE EndPut(c)
  <2>1. put' \in [Clients -> PutRequest] /\ Named'
    BY <1>5, EmptyTypes DEF EndPut, IInv, TypeOK, Named, NoPut
  <2> QED
    BY <1>1, <1>5, <2>1 DEF EndPut, IInv, TypeOK
<1>6. CASE GetUploadUrl(c)
  <2>1. issued' \subseteq Images
    BY <1>6 DEF GetUploadUrl, UrlGiven, IInv, TypeOK
  <2>2. UNCHANGED <<put, now>> /\ Named'
    BY <1>6 DEF GetUploadUrl, UrlGiven, IInv, Named
  <2> QED
    BY <1>1, <1>6, <2>1, <2>2 DEF GetUploadUrl, UrlGiven, IInv, TypeOK
<1> QED
  BY <1>2, <1>3, <1>4, <1>5, <1>6 DEF Saves

\* What happens to an object is reported, and a created one is stored.
LEMMA HappensStep ==
    ASSUME IInv, NEW i \in Images, NEW kind \in Kinds, Happens(i, kind)
    PROVE  IInv'
<1> DEFINE e == [image |-> i, kind |-> kind, at |-> moment]
<1>1. e \in Event
  BY DEF IInv, TypeOK, Event
<1>2. UNCHANGED <<driver, row, put, call, now, issued, lost, failures>>
  BY DEF Happens
<1>3. /\ moment' = moment + 1 /\ pending' = pending \cup {e}
      /\ stored' = IF kind = "create" THEN stored \cup {e} ELSE stored
  BY DEF Happens
<1>4. stored \subseteq stored' /\ (kind = "create" => e \in stored')
  BY <1>3
<1>5. TypeOK'
  <2>1. moment' \in Nat
    BY <1>3 DEF IInv, TypeOK
  <2>2. pending' \subseteq Event /\ stored' \subseteq Event
    BY <1>1, <1>3 DEF IInv, TypeOK
  <2>3. lost' \subseteq stored'
    BY <1>2, <1>4 DEF IInv, TypeOK
  <2> QED
    BY <1>2, <2>1, <2>2, <2>3 DEF IInv, TypeOK
<1>6. Reported'
  <2>1. e.kind = kind
    OBVIOUS
  <2> HIDE DEF e
  <2>2. \A d \in stored' : d.kind = "create"
    BY <1>3, <2>1 DEF IInv, Reported
  <2>3. \A d \in pending' : d.kind = "create" => d \in stored'
    BY <1>3, <1>4, <2>1 DEF IInv, Reported
  <2> QED
    BY <2>2, <2>3 DEF Reported
<1>7. \A k \in Calls : Handled(k)'
  BY <1>2, <1>4 DEF IInv, Handled
<1>8. Moments'
  BY <1>2, <1>4 DEF IInv, Moments
<1>9. Named'
  BY <1>2 DEF IInv, Named
<1> QED
  BY <1>5, <1>6, <1>7, <1>8, <1>9 DEF IInv

\* A call begins with events that were pending.
LEMMA DeliverStep ==
    ASSUME IInv, NEW k \in Calls, Deliver(k)
    PROVE  IInv'
<1>1. PICK d \in pending, e \in pending :
          call' = [call EXCEPT ![k] =
                      [NoCall EXCEPT !.pc = "run",
                           !.batch = IF d = e THEN <<e>> ELSE <<d, e>>]]
  BY DEF Deliver
<1> DEFINE b == IF d = e THEN <<e>> ELSE <<d, e>>
           r == [NoCall EXCEPT !.pc = "run", !.batch = b]
<1>2. d \in Event /\ e \in Event
  BY DEF IInv, TypeOK
<1>3. b \in Seq(Event)
  BY <1>2
<1>4. \A n \in 1 .. Len(b) : b[n] \in pending
  OBVIOUS
<1>5. r.batch = b /\ r.marks = NoMarks /\ r \in Call
  BY <1>3, EmptyTypes DEF NoCall, Call
<1>6. \A n \in 1 .. Len(r.batch) :
          r.batch[n].kind = "create" => r.batch[n] \in stored
  BY <1>4, <1>5 DEF IInv, Reported
<1>7. \A i \in Images : r.marks[i] # 0 => Creation(i, r.marks[i]) \in stored
  BY <1>5 DEF NoMarks
<1>8. /\ UNCHANGED <<driver, put, now, issued, moment, stored>>
      /\ row' = row /\ pending' = pending /\ lost' = lost /\ failures' = failures
  BY DEF Deliver, storage
<1>9. call' = [call EXCEPT ![k] = r]
  BY <1>1
<1> HIDE DEF r, b
<1>10. /\ row' \in [Images -> Row] /\ pending' \subseteq pending
       /\ lost' \subseteq stored /\ failures' \in Nat
  BY <1>8 DEF IInv, TypeOK
<1>11. \A i \in Images : row'[i].status = "UPLOADED" =>
           Creation(i, row'[i].at) \in stored
  BY <1>8, RowsCommitted
<1> QED
  BY <1>5, <1>6, <1>7, <1>8, <1>9, <1>10, <1>11, CallStep

\* A call that moves on in its batch is a call.
LEMMA NextMessage ==
    ASSUME NEW r \in Call
    PROVE  r.next + 1 \in Nat \ {0}
BY DEF Call

\* A call that only moves on in its batch, with or without its marks
LEMMA MovesOn ==
    ASSUME IInv, NEW k \in Calls, NEW aborted \in BOOLEAN,
           NEW marks \in {call[k].marks, NoMarks},
           call' = [call EXCEPT ![k].next = @ + 1, ![k].aborted = aborted,
                                ![k].marks = marks],
           UNCHANGED <<driver, row, put, now, issued, moment, pending, stored>>,
           lost' \subseteq stored, failures' \in Nat
    PROVE  IInv'
<1> DEFINE r == [call[k] EXCEPT !.next = @ + 1, !.aborted = aborted,
                                !.marks = marks]
<1>1. call[k] \in Call
  BY DEF IInv, TypeOK
<1>2. r \in Call
  <2>1. call[k].next + 1 \in Nat \ {0} /\ marks \in [Images -> Nat]
    BY <1>1, NextMessage DEF Call, NoMarks
  <2> QED
    BY <1>1, <2>1 DEF Call
<1>3. r.batch = call[k].batch /\ r.marks = marks
  BY <1>1 DEF Call
<1>4. call' = [call EXCEPT ![k] = r]
  BY DEF IInv, TypeOK
<1> HIDE DEF r
<1>5. \A n \in 1 .. Len(r.batch) :
          r.batch[n].kind = "create" => r.batch[n] \in stored
  BY <1>3 DEF IInv, Handled
<1>6. \A i \in Images : r.marks[i] # 0 => Creation(i, r.marks[i]) \in stored
  BY <1>3 DEF IInv, Handled, NoMarks
<1>7. row' \in [Images -> Row] /\ pending' \subseteq pending
  BY DEF IInv, TypeOK
<1>8. \A i \in Images : row'[i].status = "UPLOADED" =>
          Creation(i, row'[i].at) \in stored
  BY RowsCommitted
<1> QED
  BY <1>2, <1>4, <1>5, <1>6, <1>7, <1>8, CallStep

\* An event is skipped.
LEMMA SkipStep ==
    ASSUME IInv, NEW k \in Calls, Skip(k)
    PROVE  IInv'
<1>1. call' = [call EXCEPT ![k].next = @ + 1]
  BY DEF Skip
<1>2. call[k] \in Call /\ DOMAIN call = Calls
  BY DEF IInv, TypeOK
<1>3. call' = [call EXCEPT ![k].next = @ + 1, ![k].aborted = call[k].aborted,
                           ![k].marks = call[k].marks]
  BY <1>1, <1>2 DEF Call
<1>4. call[k].aborted \in BOOLEAN
  BY <1>2 DEF Call
<1>5. lost' \subseteq stored /\ failures' \in Nat
  BY DEF Skip, IInv, TypeOK
<1> QED
  BY <1>3, <1>4, <1>5, MovesOn DEF Skip, storage

\* The failure of a statement loses events of created objects.
LEMMA FailStep ==
    ASSUME IInv, NEW k \in Calls, Fail(k), failures' \in Nat
    PROVE  IInv'
<1>1. lost' \subseteq stored
  <2>1. call[k].batch[call[k].next] \in stored
    BY CurrentMessage DEF Fail
  <2> QED
    BY <2>1 DEF Fail, Created, IInv, TypeOK
<1>2. call[k] \in Call /\ DOMAIN call = Calls
  BY DEF IInv, TypeOK
<1>3. call[k].aborted \in BOOLEAN
  BY <1>2 DEF Call
<1>4. CASE driver = "asyncpg"
  <2>1. call' = [call EXCEPT ![k].next = @ + 1]
    BY <1>4 DEF Fail
  <2>2. call' = [call EXCEPT ![k].next = @ + 1, ![k].aborted = call[k].aborted,
                             ![k].marks = call[k].marks]
    BY <1>2, <2>1 DEF Call
  <2> QED
    BY <1>1, <1>3, <2>2, MovesOn DEF Fail, storage
<1>5. CASE driver # "asyncpg"
  <2>1. call' = [call EXCEPT ![k].next = @ + 1, ![k].aborted = TRUE,
                             ![k].marks = NoMarks]
    BY <1>5 DEF Fail
  <2> QED
    BY <1>1, <2>1, MovesOn DEF Fail, storage
<1> QED
  BY <1>4, <1>5

\* An update marks the row, or the transaction of the call does.
LEMMA UpdateStep ==
    ASSUME IInv, NEW k \in Calls, Update(k)
    PROVE  IInv'
<1> DEFINE e == call[k].batch[call[k].next]
           i == e.image
<1>1. call[k].next <= Len(call[k].batch) /\ ~Skipped(e)
  BY DEF Update
<1>2. /\ e \in stored /\ i \in Images /\ e.at \in Nat
      /\ e = Creation(i, e.at)
  BY <1>1, CurrentMessage
<1> HIDE DEF e, i
<1>3. call[k] \in Call /\ DOMAIN call = Calls /\ row \in [Images -> Row]
  BY DEF IInv, TypeOK
<1>4. /\ UNCHANGED <<driver, put, now, issued, moment, stored>>
      /\ pending' = pending /\ lost' = lost /\ failures' = failures
  BY DEF Update, storage
<1>5. /\ pending' \subseteq pending /\ lost' \subseteq stored /\ failures' \in Nat
  BY <1>4 DEF IInv, TypeOK
<1>6. CASE driver = "asyncpg"
  <2>1. row' = [row EXCEPT ![i] = Marked(@, e.at)]
    BY <1>6 DEF Update, e, i
  <2>2. /\ Marked(row[i], e.at) \in Row
        /\ Marked(row[i], e.at).status = "UPLOADED" =>
               Creation(i, Marked(row[i], e.at).at) \in stored
    BY <1>2, <1>3, RowsCommitted, MarkedRow
  <2>3. row' \in [Images -> Row]
    BY <1>3, <2>1, <2>2
  <2>4. \A j \in Images : row'[j].status = "UPLOADED" =>
            Creation(j, row'[j].at) \in stored
    BY <1>3, <2>1, <2>2, RowsCommitted
  <2> DEFINE r == [call[k] EXCEPT !.next = @ + 1]
  <2>5. call' = [call EXCEPT ![k] = r]
    BY <1>3, <1>6 DEF Update
  <2>6. r \in Call /\ r.batch = call[k].batch /\ r.marks = call[k].marks
    BY <1>3, NextMessage DEF Call
  <2> HIDE DEF r
  <2>7. /\ \A n \in 1 .. Len(r.batch) :
               r.batch[n].kind = "create" => r.batch[n] \in stored
        /\ \A j \in Images : r.marks[j] # 0 => Creation(j, r.marks[j]) \in stored
    BY <2>6 DEF IInv, Handled
  <2> QED
    BY <1>4, <1>5, <2>3, <2>4, <2>5, <2>6, <2>7, CallStep
<1>7. CASE driver # "asyncpg"
  <2> DEFINE mark == IF Exists(i) THEN e.at ELSE 0
             marks == [call[k].marks EXCEPT ![i] = mark]
             r == [call[k] EXCEPT !.next = @ + 1, !.marks = marks]
  <2>1. call' = [call EXCEPT ![k] = r]
    <3>1. call' = [call EXCEPT ![k].next = @ + 1, ![k].marks[i] = mark]
      BY <1>7 DEF Update, e, i
    <3> QED
      BY <1>3, <3>1 DEF Call
  <2>2. mark \in Nat /\ call[k].marks \in [Images -> Nat]
    BY <1>2, <1>3 DEF Call
  <2>3. marks \in [Images -> Nat]
    BY <1>2, <2>2
  <2> HIDE DEF marks
  <2>4. r \in Call /\ r.batch = call[k].batch /\ r.marks = marks
    BY <1>3, <2>3, NextMessage DEF Call
  <2> USE DEF marks
  <2>5. \A j \in Images : marks[j] # 0 => Creation(j, marks[j]) \in stored
    <3>1. mark # 0 => mark = e.at
      OBVIOUS
    <3> HIDE DEF mark
    <3>2. \A j \in Images \ {i} : marks[j] = call[k].marks[j]
      BY <2>2
    <3>3. marks[i] = mark
      BY <1>2, <2>2
    <3> QED
      BY <1>2, <3>1, <3>2, <3>3 DEF IInv, Handled
  <2> HIDE DEF r
  <2>6. \A n \in 1 .. Len(r.batch) :
            r.batch[n].kind = "create" => r.batch[n] \in stored
    BY <2>4 DEF IInv, Handled
  <2>7. row' = row /\ row' \in [Images -> Row]
    BY <1>3, <1>7 DEF Update
  <2>8. \A j \in Images : row'[j].status = "UPLOADED" =>
            Creation(j, row'[j].at) \in stored
    BY <2>7, RowsCommitted
  <2>9. \A j \in Images : r.marks[j] # 0 => Creation(j, r.marks[j]) \in stored
    BY <2>4, <2>5
  <2> QED
    BY <1>4, <1>5, <2>1, <2>4, <2>6, <2>7, <2>8, <2>9, CallStep
<1> QED
  BY <1>6, <1>7

\* What was answered is pending no more.
LEMMA AnswerStep ==
    ASSUME IInv, NEW k \in Calls, Answer(k)
    PROVE  IInv'
<1> DEFINE r == IF driver = "asyncpg" THEN NoCall
                ELSE [call[k] EXCEPT !.pc = "answered"]
<1>1. call[k] \in Call /\ DOMAIN call = Calls
  BY DEF IInv, TypeOK
<1>2. call' = [call EXCEPT ![k] = r]
  BY DEF Answer
<1>3. r \in Call
  BY <1>1, EmptyTypes DEF Call
<1>4. \/ r.batch = call[k].batch /\ r.marks = call[k].marks
      \/ r = NoCall
  BY <1>1 DEF Call
<1> HIDE DEF r
<1>5. /\ \A n \in 1 .. Len(r.batch) :
             r.batch[n].kind = "create" => r.batch[n] \in stored
      /\ \A i \in Images : r.marks[i] # 0 => Creation(i, r.marks[i]) \in stored
  BY <1>4 DEF IInv, Handled, NoCall, NoMarks
<1>6. /\ row' = row /\ row' \in [Images -> Row] /\ pending' \subseteq pending
      /\ lost' \subseteq stored /\ failures' \in Nat
  BY DEF Answer, IInv, TypeOK
<1>7. \A i \in Images : row'[i].status = "UPLOADED" =>
          Creation(i, row'[i].at) \in stored
  BY <1>6, RowsCommitted
<1>8. UNCHANGED <<driver, put, now, issued, moment, stored>>
  BY DEF Answer
<1> QED
  BY <1>2, <1>3, <1>5, <1>6, <1>7, <1>8, CallStep

\* A call that ends, with what is written and lost
LEMMA CallEnds ==
    ASSUME IInv, NEW k \in Calls,
           call' = [call EXCEPT ![k] = NoCall],
           UNCHANGED <<driver, put, now, issued, moment, pending, stored>>,
           row' \in [Images -> Row], lost' \subseteq stored, failures' \in Nat,
           \A i \in Images : row'[i].status = "UPLOADED" =>
               Creation(i, row'[i].at) \in stored
    PROVE  IInv'
<1>1. NoCall.batch = <<>> /\ NoCall.marks = NoMarks
  BY DEF NoCall
<1>2. /\ \A n \in 1 .. Len(NoCall.batch) :
             NoCall.batch[n].kind = "create" => NoCall.batch[n] \in stored
      /\ \A i \in Images : NoCall.marks[i] # 0 =>
             Creation(i, NoCall.marks[i]) \in stored
  BY <1>1 DEF NoMarks
<1> QED
  BY <1>2, EmptyTypes, CallStep

\* The commit writes the marks of the transaction.
LEMMA CommitCallStep ==
    ASSUME IInv, NEW k \in Calls, CommitCall(k)
    PROVE  IInv'
<1>1. row' = [i \in Images |-> IF HeldByCall(k, i)
                               THEN Marked(row[i], call[k].marks[i])
                               ELSE row[i]]
  BY DEF CommitCall
<1>2. \A i \in Images : call[k].marks[i] \in Nat /\ row[i] \in Row
  BY DEF IInv, TypeOK, Call
<1>3. ASSUME NEW i \in Images
      PROVE  /\ row'[i] \in Row
             /\ row'[i].status = "UPLOADED" => Creation(i, row'[i].at) \in stored
  <2>1. CASE HeldByCall(k, i)
    <3>1. row'[i] = Marked(row[i], call[k].marks[i])
      BY <1>1, <2>1
    <3> QED
      BY <1>2, <2>1, <3>1, RowsCommitted, MarkedRow
  <2>2. CASE ~HeldByCall(k, i)
    BY <1>1, <1>2, <2>2, RowsCommitted
  <2> QED
    BY <2>1, <2>2
<1>4. row' \in [Images -> Row]
  BY <1>1, <1>3
<1>5. lost' \subseteq stored /\ failures' \in Nat
  BY DEF CommitCall, IInv, TypeOK
<1> QED
  BY <1>3, <1>4, <1>5, CallEnds DEF CommitCall, storage

\* What an answered call that is cut off had of created objects is lost.
LEMMA CutOffStep ==
    ASSUME IInv, NEW k \in Calls, CutOff(k)
    PROVE  IInv'
<1>1. lost' \subseteq stored
  BY DEF CutOff, Created, IInv, TypeOK
<1>2. row' = row /\ row' \in [Images -> Row] /\ failures' \in Nat
  BY DEF CutOff, IInv, TypeOK
<1>3. \A i \in Images : row'[i].status = "UPLOADED" =>
          Creation(i, row'[i].at) \in stored
  BY <1>2, RowsCommitted
<1> QED
  BY <1>1, <1>2, <1>3, CallEnds DEF CutOff, storage

\* No object and no row, to begin with
LEMMA InitInvariant == Init => IInv
<1> SUFFICES ASSUME Init PROVE IInv
  OBVIOUS
<1>1. TypeOK
  BY EmptyTypes DEF Init, TypeOK
<1>2. Named /\ Reported
  BY DEF Init, Named, Reported, NoPut
<1>3. \A k \in Calls : Handled(k)
  BY DEF Init, Handled, NoCall, NoMarks
<1>4. Moments
  BY DEF Init, Moments, NoRow
<1> QED
  BY <1>1, <1>2, <1>3, <1>4 DEF IInv

\* Every step keeps the invariant.
LEMMA NextInvariant == IInv /\ [Next]_vars => IInv'
<1> SUFFICES ASSUME IInv, [Next]_vars PROVE IInv'
  OBVIOUS
<1>1. ASSUME NEW c \in Clients, Put(c) \/ Saves(c) \/ GetUploadUrl(c)
      PROVE  IInv'
  BY <1>1, PutSteps
<1>2. ASSUME NEW i \in Images, NEW kind \in Kinds, Happens(i, kind)
      PROVE  IInv'
  BY <1>2, HappensStep
<1>3. ASSUME NEW k \in Calls, Deliver(k) \/ Handles(k) \/ FailsOutside(k) \/ CutOff(k)
      PROVE  IInv'
  <2>1. CASE Deliver(k) \/ Skip(k) \/ Update(k)
    BY <2>1, DeliverStep, SkipStep, UpdateStep
  <2>2. CASE FailsAborted(k) \/ FailsDeadlocked(k) \/ FailsOutside(k)
    <3>1. failures' \in Nat /\ Fail(k)
      BY <2>2 DEF FailsAborted, FailsDeadlocked, FailsOutside, IInv, TypeOK
    <3> QED
      BY <3>1, FailStep
  <2>3. CASE Answer(k) \/ CommitCall(k) \/ CutOff(k)
    BY <2>3, AnswerStep, CommitCallStep, CutOffStep
  <2> QED
    BY <1>3, <2>1, <2>2, <2>3 DEF Handles
<1>4. CASE UNCHANGED vars
  <2>1. UNCHANGED <<driver, row, put, call, now, issued, moment, pending, stored,
                    lost, failures>>
    BY <1>4 DEF vars
  <2>2. TypeOK' /\ Named' /\ Reported' /\ Moments'
    BY <2>1 DEF IInv, TypeOK, Named, Reported, Moments
  <2>3. \A k \in Calls : Handled(k)'
    BY <2>1 DEF IInv, Handled
  <2> QED
    BY <2>2, <2>3 DEF IInv
<1> QED
  BY <1>1, <1>2, <1>3, <1>4 DEF Next

\* The inductive invariant holds in every reachable state.
THEOREM Invariant == Spec => []IInv
BY InitInvariant, NextInvariant, PTL DEF Spec

\* Every variable has its type (Image and ImageS3Message of app/models, the
\* columns of lesiv.image).
THEOREM TypeCorrect == Spec => []TypeOK
<1>1. IInv => TypeOK
  BY DEF IInv
<1> QED
  BY <1>1, Invariant, PTL

\* An image is UPLOADED only if a file of it was stored, however the events
\* arrive and whatever fails (handle_s3_upload_callback).
THEOREM UploadedWasStored == Spec => []UploadedMeansStored
<1>1. IInv => UploadedMeansStored
  BY DEF IInv, Moments, UploadedMeansStored, Creation
<1> QED
  BY <1>1, Invariant, PTL

\* No step takes the status of an uploaded image back.
LEMMA StatusStays ==
    ASSUME IInv, [Next]_vars, NEW i \in Images, row[i].status = "UPLOADED"
    PROVE  row'[i].status = "UPLOADED"
<1>1. row \in [Images -> Row]
  BY DEF IInv, TypeOK
<1>2. ASSUME NEW old \in Row, NEW at, old.status = "UPLOADED"
      PROVE  Marked(old, at).status = "UPLOADED"
  BY <1>2 DEF Marked, Row
<1>3. ASSUME NEW c \in Clients, Commit(c)
      PROVE  row'[i].status = "UPLOADED"
  <2>1. Upserted(row[i], put[c].stamp).status = row[i].status
    BY <1>1 DEF Upserted, Row
  <2>2. row' = [row EXCEPT ![put[c].image] =
                   Upserted(row[put[c].image], put[c].stamp)]
    BY <1>3 DEF Commit, UrlGiven
  <2> QED
    BY <1>1, <2>1, <2>2
<1>4. ASSUME NEW k \in Calls, Update(k)
      PROVE  row'[i].status = "UPLOADED"
  <2> DEFINE e == call[k].batch[call[k].next]
  <2>1. \/ row' = row
        \/ row' = [row EXCEPT ![e.image] = Marked(row[e.image], e.at)]
    BY <1>4 DEF Update
  <2> HIDE DEF e
  <2> QED
    BY <1>1, <1>2, <2>1
<1>5. ASSUME NEW k \in Calls, CommitCall(k)
      PROVE  row'[i].status = "UPLOADED"
  BY <1>1, <1>2, <1>5 DEF CommitCall
<1>6. CASE row' = row
  BY <1>6
<1>7. ASSUME NEW c \in Clients, Put(c) \/ Saves(c) \/ GetUploadUrl(c)
      PROVE  row'[i].status = "UPLOADED"
  <2>1. CASE Put(c) \/ Upsert(c) \/ EndPut(c) \/ GetUploadUrl(c)
    BY <1>6, <2>1 DEF Put, Upsert, EndPut, GetUploadUrl, UrlGiven
  <2> QED
    BY <1>3, <1>7, <2>1 DEF Saves
<1>8. ASSUME NEW k \in Calls,
             Deliver(k) \/ Handles(k) \/ FailsOutside(k) \/ CutOff(k)
      PROVE  row'[i].status = "UPLOADED"
  <2>1. CASE Deliver(k) \/ Skip(k) \/ Fail(k) \/ Answer(k) \/ CutOff(k)
    BY <1>6, <2>1 DEF Deliver, Skip, Fail, Answer, CutOff
  <2> QED
    BY <1>4, <1>5, <1>8, <2>1
    DEF Handles, FailsAborted, FailsDeadlocked, FailsOutside
<1>9. CASE \/ \E j \in Images, kind \in Kinds : Happens(j, kind)
           \/ UNCHANGED vars
  BY <1>6, <1>9 DEF Happens, vars
<1> QED
  BY <1>7, <1>8, <1>9 DEF Next

\* No save and no event takes the status of an uploaded image back
\* (upsert_image, update_upload_status).
THEOREM StatusKept == Spec => StatusNeverBack
<1> DEFINE A == \A i \in Images :
                    row[i].status = "UPLOADED" => row'[i].status = "UPLOADED"
<1>1. ASSUME IInv, [Next]_vars PROVE A
  BY <1>1, StatusStays
<1> HIDE DEF A
<1>2. IInv /\ [Next]_vars => [A]_vars
  BY <1>1
<1>3. [][A]_vars <=> StatusNeverBack
  BY DEF A, StatusNeverBack
<1> QED
  BY <1>2, <1>3, Invariant, PTL DEF Spec
-----------------------------------------------------------------------------
(* The safe half of UploadReported: an image whose file was stored and     *)
(* that is not UPLOADED is still waited for, so that whether it becomes    *)
(* UPLOADED is a matter of fairness alone.                                 *)

\* An event has done what it was for, or its handling has failed.
Settled(e) == row[e.image].status = "UPLOADED" \/ e \in lost

\* The storage was told "processed", and the commit that writes the event
\* comes after that answer.
Carried(e, k) ==
    /\ call[k].pc = "answered"
    /\ \E n \in 1 .. Len(call[k].batch) : call[k].batch[n] = e
    /\ HeldByCall(k, e.image)

\* No event of a created object is forgotten: between its upload and its row
\* there is always somebody who has it.
NothingForgotten ==
    \A e \in stored :
        Settled(e) \/ e \in pending \/ \E k \in Calls : Carried(e, k)

\* Clocks start at 1, so 0 is no version and no moment.
Dated ==
    /\ now # 0 /\ moment # 0
    /\ \A c \in Clients : put[c].pc # "idle" => put[c].stamp # 0

\* A URL is given, and so a file stored, only for a row that is there.
Rooted ==
    /\ \A i \in issued : Exists(i)
    /\ \A e \in stored : Exists(e.image) /\ e.at # 0

\* What the loop has passed in its batch has its row, or its mark in the
\* transaction, or has failed; in an aborted transaction all of it has.
Dealt(k) ==
    /\ \A n \in 1 .. Len(call[k].batch) :
           n < call[k].next /\ call[k].batch[n].kind = "create" =>
               \/ Settled(call[k].batch[n])
               \/ HeldByCall(k, call[k].batch[n].image)
    /\ call[k].aborted =>
           \A n \in 1 .. Len(call[k].batch) :
               call[k].batch[n].kind = "create" => call[k].batch[n] \in lost
    /\ driver = "asyncpg" => \A i \in Images : ~HeldByCall(k, i)
    /\ call[k].pc = "answered" => call[k].next > Len(call[k].batch)

Follow ==
    /\ Dated
    /\ Rooted
    /\ \A k \in Calls : Dealt(k)
    /\ NothingForgotten

\* A row that is there stays.
LEMMA RowsStay ==
    ASSUME IInv, Dated, [Next]_vars, NEW i \in Images, Exists(i)
    PROVE  Exists(i)'
<1> SUFFICES row'[i].version # 0
  BY DEF Exists
<1>1. row \in [Images -> Row] /\ row[i].version # 0
  BY DEF IInv, TypeOK, Exists
<1>2. ASSUME NEW old \in Row, NEW at, old.version # 0
      PROVE  Marked(old, at).version # 0
  BY <1>2 DEF Marked, Row
<1>3. ASSUME NEW c \in Clients, Commit(c)
      PROVE  row'[i].version # 0
  <2>1. put[c].stamp # 0
    BY <1>3 DEF Commit, Dated
  <2>2. Upserted(row[i], put[c].stamp).version = put[c].stamp
    BY <1>1 DEF Upserted, Row
  <2>3. row' = [row EXCEPT ![put[c].image] =
                   Upserted(row[put[c].image], put[c].stamp)]
    BY <1>3 DEF Commit, UrlGiven
  <2> QED
    BY <1>1, <2>1, <2>2, <2>3
<1>4. ASSUME NEW k \in Calls, Update(k)
      PROVE  row'[i].version # 0
  <2> DEFINE e == call[k].batch[call[k].next]
  <2>1. \/ row' = row
        \/ row' = [row EXCEPT ![e.image] = Marked(row[e.image], e.at)]
    BY <1>4 DEF Update
  <2> HIDE DEF e
  <2> QED
    BY <1>1, <1>2, <2>1
<1>5. ASSUME NEW k \in Calls, CommitCall(k)
      PROVE  row'[i].version # 0
  BY <1>1, <1>2, <1>5 DEF CommitCall
<1>6. ASSUME NEW c \in Clients, Put(c) \/ Saves(c) \/ GetUploadUrl(c)
      PROVE  row'[i].version # 0
  <2>1. CASE Put(c) \/ Upsert(c) \/ EndPut(c) \/ GetUploadUrl(c)
    BY <1>1, <2>1 DEF Put, Upsert, EndPut, GetUploadUrl, UrlGiven
  <2> QED
    BY <1>3, <1>6, <2>1 DEF Saves
<1>7. ASSUME NEW k \in Calls,
             Deliver(k) \/ Handles(k) \/ FailsOutside(k) \/ CutOff(k)
      PROVE  row'[i].version # 0
  <2>1. CASE Deliver(k) \/ Skip(k) \/ Fail(k) \/ Answer(k) \/ CutOff(k)
    BY <1>1, <2>1 DEF Deliver, Skip, Fail, Answer, CutOff
  <2> QED
    BY <1>4, <1>5, <1>7, <2>1
    DEF Handles, FailsAborted, FailsDeadlocked, FailsOutside
<1>8. CASE \/ \E j \in Images, kind \in Kinds : Happens(j, kind)
           \/ UNCHANGED vars
  BY <1>1, <1>8 DEF Happens, vars
<1> QED
  BY <1>6, <1>7, <1>8 DEF Next

\* What an event has come to stays.
LEMMA SettledLasts ==
    ASSUME IInv, [Next]_vars, NEW e \in Event, lost \subseteq lost', Settled(e)
    PROVE  Settled(e)'
<1>1. e.image \in Images
  BY DEF Event
<1> QED
  BY <1>1, StatusStays DEF Settled

\* The messages of a call are events.
LEMMA BatchTypes ==
    ASSUME IInv, NEW k \in Calls
    PROVE  /\ call \in [Calls -> Call] /\ call[k] \in Call
           /\ call[k].next \in Nat \ {0} /\ Len(call[k].batch) \in Nat
           /\ \A n \in 1 .. Len(call[k].batch) :
                  /\ call[k].batch[n] \in Event
                  /\ call[k].batch[n].image \in Images
                  /\ call[k].batch[n].kind = "create" => call[k].batch[n] \in stored
<1>1. call \in [Calls -> Call] /\ call[k] \in Call
  BY DEF IInv, TypeOK
<1>2. call[k].batch \in Seq(Event) /\ call[k].next \in Nat \ {0}
  BY <1>1 DEF Call
<1>3. \A n \in 1 .. Len(call[k].batch) : call[k].batch[n] \in Event
  BY <1>2
<1> QED
  BY <1>1, <1>2, <1>3 DEF IInv, Handled, Event

\* A call that the step is not about has dealt with what it had dealt with.
LEMMA DealtLasts ==
    ASSUME IInv, [Next]_vars, NEW k \in Calls, call'[k] = call[k],
           driver' = driver, lost \subseteq lost', Dealt(k)
    PROVE  Dealt(k)'
<1>1. ASSUME NEW n \in 1 .. Len(call[k].batch), Settled(call[k].batch[n])
      PROVE  Settled(call[k].batch[n])'
  <2>1. PICK e \in Event : e = call[k].batch[n]
    BY BatchTypes
  <2>2. Settled(e)'
    BY <1>1, <2>1, SettledLasts
  <2> QED
    BY <2>1, <2>2 DEF Settled
<1>2. \A i : HeldByCall(k, i)' <=> HeldByCall(k, i)
  BY DEF HeldByCall
<1> QED
  BY <1>1, <1>2 DEF Dealt

\* A step of one call, with what it does to the events it has
LEMMA OneCall ==
    ASSUME IInv, Follow, [Next]_vars, NEW k \in Calls,
           \A l \in Calls \ {k} : call'[l] = call[l],
           UNCHANGED <<driver, put, now, issued, moment, stored>>,
           lost \subseteq lost', Dealt(k)',
           \A e \in stored : e \in pending /\ e \notin pending' =>
               Settled(e)' \/ Carried(e, k)',
           \A e \in stored : Carried(e, k) => Settled(e)' \/ Carried(e, k)'
    PROVE  Follow'
<1>1. \A e \in stored : e \in Event /\ e.image \in Images
  BY DEF IInv, TypeOK, Event
<1>2. Dated'
  BY DEF Follow, Dated
<1>3. Rooted'
  <2>1. \A i \in issued : i \in Images
    BY DEF IInv, TypeOK
  <2>2. \A i \in Images : Exists(i) => Exists(i)'
    BY RowsStay DEF Follow
  <2>3. \A i \in issued' : Exists(i)'
    BY <2>1, <2>2 DEF Follow, Rooted
  <2>4. \A e \in stored' : Exists(e.image)' /\ e.at # 0
    BY <1>1, <2>2 DEF Follow, Rooted
  <2> QED
    BY <2>3, <2>4 DEF Rooted
<1>4. \A l \in Calls : Dealt(l)'
  BY DealtLasts DEF Follow
<1>5. ASSUME NEW e \in stored
      PROVE  Settled(e)' \/ e \in pending' \/ \E l \in Calls : Carried(e, l)'
  <2>1. Settled(e) \/ e \in pending \/ \E l \in Calls : Carried(e, l)
    BY DEF Follow, NothingForgotten
  <2>2. Settled(e) => Settled(e)'
    BY <1>1, SettledLasts
  <2>3. ASSUME NEW l \in Calls \ {k}, Carried(e, l)
        PROVE  Carried(e, l)'
    BY <2>3 DEF Carried, HeldByCall
  <2> QED
    BY <2>1, <2>2, <2>3
<1>6. NothingForgotten'
  BY <1>5 DEF NothingForgotten
<1> QED
  BY <1>2, <1>3, <1>4, <1>6 DEF Follow

\* A call that moves on in its batch: the message it was at is not about a
\* created object, or has its row or its mark, or has failed.
LEMMA DealsNext ==
    ASSUME IInv, Follow, [Next]_vars, NEW k \in Calls,
           call[k].pc = "run", call'[k].pc = "run",
           call'[k].batch = call[k].batch, call'[k].next = call[k].next + 1,
           driver' = driver, lost \subseteq lost',
           call[k].next <= Len(call[k].batch),
           NEW e, e = call[k].batch[call[k].next],
           e.kind = "create" => Settled(e)' \/ HeldByCall(k, e.image)',
           \/ \A i \in Images : HeldByCall(k, i) => HeldByCall(k, i)'
           \/ \A n \in 1 .. Len(call[k].batch) :
                  call[k].batch[n].kind = "create" => call[k].batch[n] \in lost',
           call'[k].aborted =>
               \/ call[k].aborted
               \/ \A n \in 1 .. Len(call[k].batch) :
                      call[k].batch[n].kind = "create" => call[k].batch[n] \in lost',
           driver = "asyncpg" => \A i \in Images : ~HeldByCall(k, i)'
    PROVE  Dealt(k)'
<1> DEFINE b == call[k].batch
           m == call[k].next
<1>1. /\ m \in Nat \ {0} /\ Len(b) \in Nat
      /\ \A n \in 1 .. Len(b) :
             b[n] \in Event /\ b[n].image \in Images
             /\ (b[n].kind = "create" => b[n] \in stored)
  BY BatchTypes
<1>2. Dealt(k)
  BY DEF Follow
<1>3. ASSUME NEW n \in 1 .. Len(b), n < m + 1,
             NEW d \in Event, d = b[n], d.kind = "create"
      PROVE  Settled(d)' \/ HeldByCall(k, d.image)'
  <2>1. CASE n = m
    BY <1>3, <2>1
  <2>2. CASE n # m
    <3>1. n < m
      BY <1>1, <1>3, <2>2
    <3>2. Settled(d) \/ HeldByCall(k, d.image)
      BY <1>2, <1>3, <3>1 DEF Dealt
    <3>3. Settled(d) => Settled(d)'
      BY SettledLasts
    <3>4. d \in lost' => Settled(d)'
      BY DEF Settled
    <3> QED
      BY <1>1, <1>3, <3>2, <3>3, <3>4
  <2> QED
    BY <2>1, <2>2
<1>4. call'[k].aborted =>
          \A n \in 1 .. Len(b) : b[n].kind = "create" => b[n] \in lost'
  BY <1>2 DEF Dealt
<1>5. \A n \in 1 .. Len(b) : n < m + 1 /\ b[n].kind = "create" =>
          \/ row'[b[n].image].status = "UPLOADED" \/ b[n] \in lost'
          \/ call'[k].marks[b[n].image] # 0
  BY <1>1, <1>3 DEF Settled, HeldByCall
<1>6. call'[k].batch = b /\ call'[k].next = m + 1
  OBVIOUS
<1> QED
  BY <1>4, <1>5, <1>6 DEF Dealt, Settled, HeldByCall

\* A call that is not answered carries nothing.
LEMMA CarriesNothing ==
    ASSUME NEW e, NEW k \in Calls, call[k].pc # "answered"
    PROVE  ~Carried(e, k)
BY DEF Carried

\* A call begins with nothing dealt with.
LEMMA DeliverFollows ==
    ASSUME IInv, Follow, [Next]_vars, NEW k \in Calls, Deliver(k)
    PROVE  Follow'
<1>1. PICK d \in pending, e \in pending :
          call' = [call EXCEPT ![k] =
                      [NoCall EXCEPT !.pc = "run",
                           !.batch = IF d = e THEN <<e>> ELSE <<d, e>>]]
  BY DEF Deliver
<1> DEFINE r == [NoCall EXCEPT !.pc = "run",
                     !.batch = IF d = e THEN <<e>> ELSE <<d, e>>]
<1>2. r.next = 1 /\ ~r.aborted /\ r.marks = NoMarks /\ r.pc = "run"
  BY DEF NoCall
<1> HIDE DEF r
<1>3. call'[k] = r /\ \A l \in Calls \ {k} : call'[l] = call[l]
  BY <1>1, BatchTypes DEF r
<1>4. Dealt(k)'
  BY <1>2, <1>3 DEF Dealt, HeldByCall, NoMarks
<1>5. /\ UNCHANGED <<driver, put, now, issued, moment, pending, stored, lost>>
      /\ call[k].pc = "idle"
  BY DEF Deliver, storage
<1>6. \A d1 \in stored : ~Carried(d1, k)
  BY <1>5, CarriesNothing
<1> QED
  BY <1>3, <1>4, <1>5, <1>6, OneCall

\* What is skipped is not about a created object.
LEMMA SkipFollows ==
    ASSUME IInv, Follow, [Next]_vars, NEW k \in Calls, Skip(k)
    PROVE  Follow'
<1>1. call \in [Calls -> Call] /\ call[k] \in Call
  BY BatchTypes
<1>2. call' = [call EXCEPT ![k].next = @ + 1]
  BY DEF Skip
<1>3. /\ \A l \in Calls \ {k} : call'[l] = call[l]
      /\ call'[k].pc = call[k].pc /\ call'[k].batch = call[k].batch
      /\ call'[k].next = call[k].next + 1 /\ call'[k].marks = call[k].marks
      /\ call'[k].aborted = call[k].aborted
  BY <1>1, <1>2 DEF Call
<1>4. /\ UNCHANGED <<driver, put, now, issued, moment, pending, stored, lost>>
      /\ call[k].pc = "run" /\ call[k].next <= Len(call[k].batch)
      /\ call[k].batch[call[k].next].kind # "create"
  BY DEF Skip, storage, Skipped
<1>5. \A i \in Images : HeldByCall(k, i)' <=> HeldByCall(k, i)
  BY <1>3 DEF HeldByCall
<1>6. driver = "asyncpg" => \A i \in Images : ~HeldByCall(k, i)'
  BY <1>5 DEF Follow, Dealt
<1>7. Dealt(k)'
  BY <1>3, <1>4, <1>5, <1>6, DealsNext
<1>8. \A e \in stored : ~Carried(e, k)
  BY <1>4, CarriesNothing
<1> QED
  BY <1>3, <1>4, <1>7, <1>8, OneCall

\* The UPDATE finds the row, which is there because the URL was given after its
\* commit.
LEMMA UpdateFollows ==
    ASSUME IInv, Follow, [Next]_vars, NEW k \in Calls, Update(k)
    PROVE  Follow'
<1>1. PICK e : e = call[k].batch[call[k].next]
  OBVIOUS
<1>2. PICK i : i = e.image
  OBVIOUS
<1>3. call \in [Calls -> Call] /\ call[k] \in Call
  BY BatchTypes
<1>4. /\ call[k].pc = "run" /\ call[k].next <= Len(call[k].batch)
      /\ ~Skipped(e)
  BY <1>1 DEF Update
<1>5. e \in stored /\ i \in Images /\ e.at \in Nat
  BY <1>1, <1>2, <1>4, CurrentMessage
<1>6. Exists(i) /\ e.at # 0
  BY <1>2, <1>5 DEF Follow, Rooted
<1>7. UNCHANGED <<driver, put, now, issued, moment, pending, stored, lost>>
  BY DEF Update, storage
<1>8. /\ \A l \in Calls \ {k} : call'[l] = call[l]
      /\ call'[k].pc = call[k].pc /\ call'[k].batch = call[k].batch
      /\ call'[k].next = call[k].next + 1
      /\ call'[k].aborted = call[k].aborted
      /\ \/ driver = "asyncpg" /\ call'[k].marks = call[k].marks
            /\ row' = [row EXCEPT ![i] = Marked(row[i], e.at)]
         \/ driver # "asyncpg"
            /\ call'[k].marks = [call[k].marks EXCEPT ![i] = e.at]
  <2>1. CASE driver = "asyncpg"
    <3>1. /\ call' = [call EXCEPT ![k].next = @ + 1]
          /\ row' = [row EXCEPT ![i] = Marked(row[i], e.at)]
      BY <1>1, <1>2, <2>1 DEF Update
    <3> QED
      BY <1>3, <2>1, <3>1 DEF Call
  <2>2. CASE driver # "asyncpg"
    <3>1. call' = [call EXCEPT ![k].next = @ + 1, ![k].marks[i] = e.at]
      BY <1>1, <1>2, <1>6, <2>2 DEF Update
    <3> QED
      BY <1>3, <2>2, <3>1 DEF Call
  <2> QED
    BY <2>1, <2>2
<1>9. call[k].marks \in [Images -> Nat] /\ row \in [Images -> Row]
  BY <1>3 DEF Call, IInv, TypeOK
<1>10. \A j \in Images : HeldByCall(k, j) => HeldByCall(k, j)'
  BY <1>6, <1>8, <1>9 DEF HeldByCall
<1>11. row'[i].status = "UPLOADED" \/ HeldByCall(k, i)'
  <2>1. CASE driver = "asyncpg"
    <3>1. Marked(row[i], e.at).status = "UPLOADED"
      BY <1>5, <1>6, <1>9 DEF Marked, Exists, Row
    <3> QED
      BY <1>5, <1>8, <1>9, <2>1, <3>1
  <2>2. CASE driver # "asyncpg"
    BY <1>5, <1>6, <1>8, <1>9, <2>2 DEF HeldByCall
  <2> QED
    BY <2>1, <2>2
<1>12. Settled(e)' \/ HeldByCall(k, i)'
  BY <1>2, <1>11 DEF Settled
<1>13. driver = "asyncpg" => \A j \in Images : ~HeldByCall(k, j)'
  BY <1>8 DEF Follow, Dealt, HeldByCall
<1>14. Dealt(k)'
  BY <1>1, <1>2, <1>4, <1>7, <1>8, <1>10, <1>12, <1>13, DealsNext
<1>15. \A d \in stored : ~Carried(d, k)
  BY <1>4, CarriesNothing
<1> QED
  BY <1>7, <1>8, <1>14, <1>15, OneCall

\* What fails is lost, and with a transaction all of its batch.
LEMMA FailFollows ==
    ASSUME IInv, Follow, [Next]_vars, NEW k \in Calls, Fail(k)
    PROVE  Follow'
<1>1. /\ call \in [Calls -> Call] /\ call[k] \in Call
      /\ \A n \in 1 .. Len(call[k].batch) :
             call[k].batch[n].kind = "create" => call[k].batch[n] \in stored
      /\ \A n \in 1 .. Len(call[k].batch) : n \in DOMAIN call[k].batch
  <2>1. call[k].batch \in Seq(Event)
    BY BatchTypes DEF Call
  <2> QED
    BY <2>1, BatchTypes
<1>2. /\ UNCHANGED <<driver, put, now, issued, moment, pending, stored>>
      /\ call[k].pc = "run" /\ call[k].next <= Len(call[k].batch)
      /\ ~Skipped(call[k].batch[call[k].next])
  BY DEF Fail, storage
<1>3. \A d \in stored : ~Carried(d, k)
  BY <1>2, CarriesNothing
<1>4. PICK e : e = call[k].batch[call[k].next]
  OBVIOUS
<1>5. CASE driver = "asyncpg"
  <2>1. /\ \A l \in Calls \ {k} : call'[l] = call[l]
        /\ call'[k].pc = call[k].pc /\ call'[k].batch = call[k].batch
        /\ call'[k].next = call[k].next + 1 /\ call'[k].marks = call[k].marks
        /\ call'[k].aborted = call[k].aborted
        /\ lost' = lost \cup {e}
    BY <1>1, <1>4, <1>5 DEF Fail, Call
  <2>2. \A i \in Images : HeldByCall(k, i)' <=> HeldByCall(k, i)
    BY <2>1 DEF HeldByCall
  <2>3. driver = "asyncpg" => \A i \in Images : ~HeldByCall(k, i)'
    BY <2>2 DEF Follow, Dealt
  <2>4. Settled(e)'
    BY <2>1 DEF Settled
  <2>5. Dealt(k)'
    BY <1>2, <1>4, <2>1, <2>2, <2>3, <2>4, DealsNext
  <2> QED
    BY <1>2, <1>3, <2>1, <2>5, OneCall
<1>6. CASE driver # "asyncpg"
  <2>1. /\ \A l \in Calls \ {k} : call'[l] = call[l]
        /\ call'[k].pc = call[k].pc /\ call'[k].batch = call[k].batch
        /\ call'[k].next = call[k].next + 1
        /\ lost' = lost \cup Created(k)
    BY <1>1, <1>6 DEF Fail, Call
  <2>2. \A n \in 1 .. Len(call[k].batch) :
            call[k].batch[n].kind = "create" => call[k].batch[n] \in lost'
    BY <1>1, <2>1 DEF Created
  <2>3. e.kind = "create" => Settled(e)'
    <3>1. call[k].next \in 1 .. Len(call[k].batch)
      BY <1>2, BatchTypes
    <3> QED
      BY <1>4, <2>2, <3>1 DEF Settled
  <2>4. Dealt(k)'
    BY <1>2, <1>4, <1>6, <2>1, <2>2, <2>3, DealsNext
  <2> QED
    BY <1>2, <1>3, <2>1, <2>4, OneCall
<1> QED
  BY <1>5, <1>6

\* What the storage is told was processed has its row, or a mark that is about
\* to be committed, or is lost.
LEMMA AnswerFollows ==
    ASSUME IInv, Follow, [Next]_vars, NEW k \in Calls, Answer(k)
    PROVE  Follow'
<1> DEFINE b == call[k].batch
<1>1. call \in [Calls -> Call] /\ call[k] \in Call
  BY BatchTypes
<1>2. /\ UNCHANGED <<driver, row, put, now, issued, moment, stored, lost>>
      /\ call[k].pc = "run" /\ call[k].next > Len(b)
      /\ pending' = pending \ {b[n] : n \in DOMAIN b}
  BY DEF Answer
<1>3. \A n \in 1 .. Len(b) : n < call[k].next
  BY <1>2, BatchTypes
<1>4. ASSUME NEW e \in stored, e \in pending, e \notin pending'
      PROVE  /\ \E n \in 1 .. Len(b) : b[n] = e
             /\ Settled(e) \/ HeldByCall(k, e.image)
  <2>1. DOMAIN b = 1 .. Len(b)
    <3>1. b \in Seq(Event)
      BY <1>1 DEF Call
    <3> QED
      BY <3>1
  <2>2. PICK n \in 1 .. Len(b) : b[n] = e
    BY <1>2, <1>4, <2>1
  <2>3. e.kind = "create"
    BY DEF IInv, Reported
  <2> QED
    BY <1>3, <2>2, <2>3 DEF Follow, Dealt
<1>5. \A e \in stored : ~Carried(e, k)
  BY <1>2, CarriesNothing
<1>6. \A e : Settled(e)' <=> Settled(e)
  BY <1>2 DEF Settled
<1>7. CASE driver = "asyncpg"
  <2>1. call'[k] = NoCall /\ \A l \in Calls \ {k} : call'[l] = call[l]
    BY <1>1, <1>7 DEF Answer
  <2>2. Dealt(k)'
    BY <2>1 DEF Dealt, NoCall, NoMarks, HeldByCall
  <2>3. \A e \in stored : e.image \in Images
    BY DEF IInv, TypeOK, Event
  <2>4. \A i \in Images : ~HeldByCall(k, i)
    BY <1>7 DEF Follow, Dealt
  <2> QED
    BY <1>2, <1>4, <1>5, <1>6, <2>1, <2>2, <2>3, <2>4, OneCall
<1>8. CASE driver # "asyncpg"
  <2>1. /\ \A l \in Calls \ {k} : call'[l] = call[l]
        /\ call'[k].pc = "answered" /\ call'[k].batch = b
        /\ call'[k].next = call[k].next /\ call'[k].marks = call[k].marks
        /\ call'[k].aborted = call[k].aborted
    BY <1>1, <1>8 DEF Answer, Call
  <2>2. \A i : HeldByCall(k, i)' <=> HeldByCall(k, i)
    BY <2>1 DEF HeldByCall
  <2>3. Dealt(k)
    BY DEF Follow
  <2>4. Dealt(k)'
    <3>1. \A n \in 1 .. Len(b) : b[n].kind = "create" =>
              Settled(b[n]) \/ HeldByCall(k, b[n].image)
      BY <1>3, <2>3 DEF Dealt
    <3> QED
      BY <1>2, <1>8, <2>1, <2>3, <3>1 DEF Dealt, Settled, HeldByCall
  <2>5. \A e \in stored : e \in pending /\ e \notin pending' =>
            Settled(e)' \/ Carried(e, k)'
    BY <1>4, <1>6, <2>1, <2>2 DEF Carried
  <2> QED
    BY <1>2, <1>5, <2>1, <2>4, <2>5, OneCall
<1> QED
  BY <1>7, <1>8

\* A call that is over has written what it carried, or lost it.
LEMMA EndFollows ==
    ASSUME IInv, Follow, [Next]_vars, NEW k \in Calls, CommitCall(k) \/ CutOff(k)
    PROVE  Follow'
<1>1. call \in [Calls -> Call] /\ call[k] \in Call /\ row \in [Images -> Row]
  BY BatchTypes DEF IInv, TypeOK
<1>2. /\ UNCHANGED <<driver, put, now, issued, moment, pending, stored>>
      /\ lost \subseteq lost'
      /\ call'[k] = NoCall /\ \A l \in Calls \ {k} : call'[l] = call[l]
  BY <1>1 DEF CommitCall, CutOff, storage
<1>3. Dealt(k)'
  BY <1>2 DEF Dealt, NoCall, NoMarks, HeldByCall
<1>4. ASSUME NEW e \in stored, Carried(e, k)
      PROVE  Settled(e)'
  <2>1. CASE CommitCall(k)
    <3>1. e.image \in Images /\ HeldByCall(k, e.image) /\ Exists(e.image)
      BY <1>4 DEF Carried, Follow, Rooted, IInv, TypeOK, Event
    <3>2. row'[e.image] = Marked(row[e.image], call[k].marks[e.image])
      BY <2>1, <3>1 DEF CommitCall
    <3>3. row'[e.image].status = "UPLOADED"
      BY <1>1, <3>1, <3>2 DEF Marked, Exists, Row
    <3> QED
      BY <3>3 DEF Settled
  <2>2. CASE CutOff(k)
    <3>1. call[k].batch \in Seq(Event)
      BY <1>1 DEF Call
    <3>2. e \in Created(k)
      BY <1>4, <3>1 DEF Carried, Created
    <3>3. lost' = lost \cup Created(k)
      BY <1>4, <2>2 DEF Carried, CutOff
    <3> QED
      BY <3>2, <3>3 DEF Settled
  <2> QED
    BY <2>1, <2>2
<1> QED
  BY <1>2, <1>3, <1>4, OneCall

\* Saves leave events and calls alone, and a URL is given for a row that is
\* there.
LEMMA PutFollows ==
    ASSUME IInv, Follow, [Next]_vars, NEW c \in Clients,
           Put(c) \/ Saves(c) \/ GetUploadUrl(c)
    PROVE  Follow'
<1>1. UNCHANGED <<driver, call, moment, pending, stored, lost>>
  BY DEF Put, Saves, Upsert, Commit, EndPut, GetUploadUrl, UrlGiven, storage
<1>2. /\ row \in [Images -> Row] /\ put \in [Clients -> PutRequest]
      /\ \A i \in issued : i \in Images
      /\ \A e \in stored : e \in Event /\ e.image \in Images
  BY DEF IInv, TypeOK, Event
<1>3. \A i \in Images : Exists(i) => Exists(i)'
  BY RowsStay DEF Follow
<1>4. Dated'
  <2>1. now \in Nat /\ now # 0 /\ moment # 0
    BY DEF IInv, TypeOK, Follow, Dated
  <2>2. now' # 0
    BY <2>1 DEF Put, Saves, Upsert, Commit, EndPut, GetUploadUrl
  <2>3. ASSUME NEW d \in Clients, put'[d].pc # "idle"
        PROVE  put'[d].stamp # 0
    <3>1. put[d].pc # "idle" => put[d].stamp # 0
      BY DEF Follow, Dated
    <3>2. CASE Put(c)
      <4>1. PICK i \in Images :
              put' = [put EXCEPT ![c] = [pc |-> "upsert", image |-> i, stamp |-> now]]
        BY <3>2 DEF Put
      <4> QED
        BY <1>2, <2>1, <2>3, <3>1, <4>1
    <3>3. CASE Upsert(c)
      <4>1. put' = [put EXCEPT ![c].pc = "commit"] /\ put[c].pc = "upsert"
        BY <3>3 DEF Upsert
      <4>2. put'[d].stamp = put[d].stamp /\ put[d].pc # "idle"
        BY <1>2, <2>3, <4>1 DEF PutRequest
      <4> QED
        BY <3>1, <4>2
    <3>4. CASE Commit(c) \/ EndPut(c)
      <4>1. put' = [put EXCEPT ![c] = NoPut]
        BY <3>4 DEF Commit, EndPut
      <4> QED
        BY <1>2, <2>3, <3>1, <4>1 DEF NoPut
    <3>5. CASE GetUploadUrl(c)
      BY <2>3, <3>1, <3>5 DEF GetUploadUrl
    <3> QED
      BY <3>2, <3>3, <3>4, <3>5 DEF Saves
  <2> QED
    BY <1>1, <2>1, <2>2, <2>3 DEF Dated
<1>5. \A i \in issued' : Exists(i)'
  <2>1. \A i \in issued : Exists(i)'
    BY <1>2, <1>3 DEF Follow, Rooted
  <2>2. CASE Commit(c)
    <3> DEFINE i == put[c].image
    <3>1. issued' \in {issued, issued \cup {i}}
      BY <2>2 DEF Commit, UrlGiven
    <3>2. i \in Images /\ put[c].stamp # 0
      BY <2>2 DEF Commit, IInv, Named, Follow, Dated
    <3>3. row' = [row EXCEPT ![i] = Upserted(row[i], put[c].stamp)]
      BY <2>2 DEF Commit, UrlGiven
    <3>4. Upserted(row[i], put[c].stamp).version = put[c].stamp
      BY <1>2, <3>2 DEF Upserted, Row
    <3> HIDE DEF i
    <3>5. row'[i].version # 0
      BY <1>2, <3>2, <3>3, <3>4
    <3>6. PICK j : j = i
      OBVIOUS
    <3>7. Exists(j)'
      BY <3>5, <3>6 DEF Exists
    <3> QED
      BY <2>1, <3>1, <3>6, <3>7
  <2>3. CASE GetUploadUrl(c)
    <3>1. PICK i \in Images : Exists(i) /\ UrlGiven(i)
      BY <2>3 DEF GetUploadUrl
    <3>2. issued' \in {issued, issued \cup {i}} /\ Exists(i)'
      BY <1>3, <3>1 DEF UrlGiven
    <3> QED
      BY <2>1, <3>2
  <2>4. CASE Put(c) \/ Upsert(c) \/ EndPut(c)
    BY <2>1, <2>4 DEF Put, Upsert, EndPut
  <2> QED
    BY <2>2, <2>3, <2>4 DEF Saves
<1>6. Rooted'
  BY <1>1, <1>2, <1>3, <1>5 DEF Follow, Rooted
<1>7. \A k \in Calls : Dealt(k)'
  BY <1>1, DealtLasts DEF Follow
<1>8. NothingForgotten'
  <2>1. \A e \in stored : Settled(e) => Settled(e)'
    BY <1>1, <1>2, SettledLasts
  <2>2. \A e \in stored, k \in Calls : Carried(e, k) => Carried(e, k)'
    BY <1>1 DEF Carried, HeldByCall
  <2> QED
    BY <1>1, <2>1, <2>2 DEF Follow, NothingForgotten
<1> QED
  BY <1>4, <1>6, <1>7, <1>8 DEF Follow

\* What happens to an object is pending.
LEMMA HappensFollows ==
    ASSUME IInv, Follow, [Next]_vars, NEW i \in Images, NEW kind \in Kinds,
           Happens(i, kind)
    PROVE  Follow'
<1>1. UNCHANGED <<driver, row, put, call, now, issued, lost>>
  BY DEF Happens
<1>2. PICK e : e = [image |-> i, kind |-> kind, at |-> moment]
  OBVIOUS
<1>3. /\ moment' = moment + 1 /\ pending' = pending \cup {e}
      /\ stored' = IF kind = "create" THEN stored \cup {e} ELSE stored
      /\ kind = "create" => i \in issued
  BY <1>2 DEF Happens
<1>4. e.image = i /\ e.at = moment
  BY <1>2
<1>5. moment \in Nat /\ moment # 0
  BY DEF IInv, TypeOK, Follow, Dated
<1>6. Dated'
  BY <1>1, <1>3, <1>5 DEF Follow, Dated
<1>7. Rooted'
  BY <1>1, <1>3, <1>4, <1>5 DEF Follow, Rooted, Exists
<1>8. \A k \in Calls : Dealt(k)'
  BY <1>1, DealtLasts DEF Follow
<1>9. NothingForgotten'
  <2>1. \A d : Settled(d) => Settled(d)'
    BY <1>1 DEF Settled
  <2>2. \A d, k : Carried(d, k) => Carried(d, k)'
    BY <1>1 DEF Carried, HeldByCall
  <2> QED
    BY <1>3, <2>1, <2>2 DEF Follow, NothingForgotten
<1> QED
  BY <1>6, <1>7, <1>8, <1>9 DEF Follow

\* No event, and nothing to follow
LEMMA InitFollows == Init => Follow
<1> SUFFICES ASSUME Init PROVE Follow
  OBVIOUS
<1>1. Dated
  BY DEF Init, Dated, NoPut
<1>2. Rooted /\ NothingForgotten
  BY DEF Init, Rooted, NothingForgotten
<1>3. \A k \in Calls : Dealt(k)
  BY DEF Init, Dealt, NoCall, NoMarks, HeldByCall
<1> QED
  BY <1>1, <1>2, <1>3 DEF Follow

\* Every step keeps the events in somebody's hands.
LEMMA NextFollows == IInv /\ Follow /\ [Next]_vars => Follow'
<1> SUFFICES ASSUME IInv, Follow, [Next]_vars PROVE Follow'
  OBVIOUS
<1>1. ASSUME NEW c \in Clients, Put(c) \/ Saves(c) \/ GetUploadUrl(c)
      PROVE  Follow'
  BY <1>1, PutFollows
<1>2. ASSUME NEW i \in Images, NEW kind \in Kinds, Happens(i, kind)
      PROVE  Follow'
  BY <1>2, HappensFollows
<1>3. ASSUME NEW k \in Calls, Deliver(k) \/ Handles(k) \/ FailsOutside(k) \/ CutOff(k)
      PROVE  Follow'
  BY <1>3, DeliverFollows, SkipFollows, UpdateFollows, FailFollows, AnswerFollows,
     EndFollows DEF Handles, FailsAborted, FailsDeadlocked, FailsOutside
<1>4. CASE UNCHANGED vars
  <2>1. UNCHANGED <<driver, row, put, call, now, issued, moment, pending, stored,
                    lost>>
    BY <1>4 DEF vars
  <2>2. Dated' /\ Rooted'
    BY <2>1 DEF Follow, Dated, Rooted, Exists
  <2>3. \A k \in Calls : Dealt(k)'
    BY <2>1, DealtLasts DEF Follow
  <2>4. NothingForgotten'
    BY <2>1 DEF Follow, NothingForgotten, Settled, Carried, HeldByCall
  <2> QED
    BY <2>2, <2>3, <2>4 DEF Follow
<1> QED
  BY <1>1, <1>2, <1>3, <1>4 DEF Next

\* The event of a stored file is in its row, failed, pending with the storage or
\* about to be committed, with both drivers, whichever calls run together, are
\* cut off or undone by PostgreSQL (handle_s3_upload_callback and the exit code
\* of get_db_connection).
THEOREM NoneForgotten == Spec => []NothingForgotten
<1>1. Follow => NothingForgotten
  BY DEF Follow
<1> QED
  BY <1>1, InitFollows, NextFollows, Invariant, PTL DEF Spec
=============================================================================
