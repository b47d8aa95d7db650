---------------------------- MODULE ImageUpload ----------------------------
(***************************************************************************)
(* Images and their files.  A client PUTs an image, gets a URL to upload   *)
(* its file to the object storage, and the storage reports what happened   *)
(* to its objects by calling POST /image/s3-upload-callback with a batch   *)
(* of events, which marks images as UPLOADED.                              *)
(*                                                                         *)
(* With asyncpg every UPDATE of a call is committed on its own; with       *)
(* psycopg2 a call is one transaction, committed after its answer is sent  *)
(* (the exit code of get_db_connection).  The storage is external: it      *)
(* delivers an event until a call that has it is answered, so late, out of *)
(* order or more than once.                                                *)
(***************************************************************************)
EXTENDS Integers, Sequences

CONSTANTS
    Images,      \* ids
    Clients,     \* inspectors with a PUT in flight
    Members,     \* those with access to the plant
    Allowed,     \* those who also have the level INSPECT
    Calls,       \* callbacks in flight
    Drivers,     \* settings.db_driver: those to look at
    DisableOptimisticLocking,
    MaxStamps,   \* bound of a run: versions given out
    MaxEvents,   \* bound of a run: what happens to objects
    MaxFailures  \* bound of a run: failing statements and calls cut off

AllDrivers == {"asyncpg", "psycopg2"}
Kinds == {"create", "other"}  \* ObjectCreate; any other, or malformed

ASSUME NoneAssumption == 0 \notin Images
ASSUME AllowedAssumption == Allowed \subseteq Members /\ Members \subseteq Clients
ASSUME DriversAssumption == Drivers \subseteq AllDrivers
ASSUME SettingAssumption == DisableOptimisticLocking \in BOOLEAN
ASSUME BoundsAssumption ==
    MaxStamps \in Nat /\ MaxEvents \in Nat /\ MaxFailures \in Nat

VARIABLES
    driver,    \* rigid
    row,       \* the table lesiv.image
    put,       \* the PUT each client has in flight
    call,      \* the callbacks in flight
    now,       \* the clock: the version the next save will take
    moment,    \* the clock of the storage
    issued,    \* images an upload URL was given for
    pending,   \* events the storage has yet to deliver
    stored,    \* every object created so far, as its event
    lost,      \* events of created objects whose handling failed
    failures   \* how many statements and calls have failed

vars ==
    <<driver, row, put, call, now, issued, moment, pending, stored, lost,
      failures>>
storage == <<moment, pending, stored>>

Status == {"UNKNOWN", "UPLOADED", "MISSING"}
Event == [image : Images, kind : Kinds, at : Nat]
Row == [version : Nat,    \* server_modified_at; 0 while there is no row
        status : Status,
        at : Nat]         \* server_uploaded_at; 0 for NULL
NoRow == [version |-> 0, status |-> "UNKNOWN", at |-> 0]
PutRequest ==
    [pc : {"idle", "upsert", "commit"}, image : Images \cup {0}, stamp : Nat]
NoPut == [pc |-> "idle", image |-> 0, stamp |-> 0]
Call ==
    [pc : {"idle", "run", "answered"},
     batch : Seq(Event),       \* payload.messages
     next : Nat \ {0},         \* idx, from 1
     marks : [Images -> Nat],  \* updates not committed, 0 for none
     aborted : BOOLEAN]        \* the transaction has failed
NoMarks == [i \in Images |-> 0]
NoCall == [pc |-> "idle", batch |-> <<>>, next |-> 1, marks |-> NoMarks,
           aborted |-> FALSE]

Exists(i) == row[i].version # 0

\* Rows held by the transaction of a PUT or of a call
HeldByPut(c, i) == put[c].pc = "commit" /\ put[c].image = i
HeldByCall(k, i) == call[k].marks[i] # 0

\* An upsert waits for whoever has written the row, an INSERT not committed yet
\* included (ON CONFLICT waits for its id).
FreeForUpsert(c, i) ==
    /\ \A d \in Clients \ {c} : ~HeldByPut(d, i)
    /\ \A k \in Calls : ~HeldByCall(k, i)

\* An UPDATE waits for those who hold a row that is there; an INSERT not
\* committed yet it does not see.
FreeForUpdate(k, i) ==
    /\ \A l \in Calls \ {k} : ~HeldByCall(l, i)
    /\ Exists(i) => \A c \in Clients : ~HeldByPut(c, i)
-----------------------------------------------------------------------------
(* PUT /image and GET /image/{id}/upload_url                               *)

\* generate_upload_presigned_url, which may fail, and the answer, which may be
\* lost; no row is touched.
UrlGiven(i) == issued' \in {issued, issued \cup {i}}

\* upsert_image up to the clock: level, access, get_by_id and the comparison of
\* versions, which refuses an unforced body with a stale one.
Put(c) ==
    /\ put[c].pc = "idle" /\ c \in Allowed
    /\ now <= MaxStamps
    /\ \E i \in Images, force \in BOOLEAN :
       \E known \in {0, row[i].version} :
           /\ \/ ~Exists(i) \/ force \/ DisableOptimisticLocking
              \/ known = row[i].version
           /\ put' = [put EXCEPT ![c] =
                         [pc |-> "upsert", image |-> i, stamp |-> now]]
    /\ now' = now + 1
    /\ UNCHANGED <<driver, row, call, issued, storage, lost, failures>>

\* Mutant: the URL is given before the row is committed.
UpsertWithUrl(c) ==
    /\ put[c].pc = "upsert"
    /\ FreeForUpsert(c, put[c].image)
    /\ put' = [put EXCEPT ![c].pc = "commit"]
    /\ issued' = issued \cup {put[c].image}
    /\ UNCHANGED <<driver, row, call, now, storage, lost, failures>>

\* The upsert waits for the row and holds it until the commit.
Upsert(c) ==
    /\ put[c].pc = "upsert"
    /\ FreeForUpsert(c, put[c].image)
    /\ put' = [put EXCEPT ![c].pc = "commit"]
    /\ UNCHANGED <<driver, row, call, now, issued, storage, lost, failures>>

\* Mutant: DO UPDATE SET also takes EXCLUDED.upload_status.
UpsertedAfresh(old, stamp) == [NoRow EXCEPT !.version = stamp]

\* What the upsert leaves in the row: a new row takes the columns' defaults.
Upserted(old, stamp) == [old EXCEPT !.version = stamp]

\* The transaction ends, and then the answer gives the upload URL.
Commit(c) ==
    LET i == put[c].image IN
    /\ put[c].pc = "commit"
    /\ row' = [row EXCEPT ![i] = Upserted(@, put[c].stamp)]
    /\ put' = [put EXCEPT ![c] = NoPut]
    /\ UrlGiven(i)
    /\ UNCHANGED <<driver, call, now, storage, lost, failures>>

\* A save fails, or its process or client is gone.
EndPut(c) ==
    /\ put[c].pc # "idle"
    /\ put' = [put EXCEPT ![c] = NoPut]
    /\ UNCHANGED <<driver, row, call, now, issued, storage, lost, failures>>

\* get_upload_url
GetUploadUrl(c) ==
    /\ c \in Members
    /\ \E i \in Images : Exists(i) /\ UrlGiven(i)
    /\ UNCHANGED <<driver, row, put, call, now, storage, lost, failures>>
-----------------------------------------------------------------------------
(* The object storage                                                      *)

\* Something happens to the object of an image and will be reported; only an
\* upload with its URL creates one.
Happens(i, kind) ==
    LET e == [image |-> i, kind |-> kind, at |-> moment] IN
    /\ kind = "create" => i \in issued
    /\ moment <= MaxEvents
    /\ moment' = moment + 1
    /\ pending' = pending \cup {e}
    /\ stored' = IF kind = "create" THEN stored \cup {e} ELSE stored
    /\ UNCHANGED <<driver, row, put, call, now, issued, lost, failures>>

\* The storage calls the callback with one or two events.
Deliver(k) ==
    /\ call[k].pc = "idle"
    /\ \E d, e \in pending :
           call' = [call EXCEPT ![k] =
                       [NoCall EXCEPT !.pc = "run",
                            !.batch = IF d = e THEN <<e>> ELSE <<d, e>>]]
    /\ UNCHANGED <<driver, row, put, now, issued, storage, lost, failures>>
-----------------------------------------------------------------------------
(* handle_s3_upload_callback                                               *)

Created(k) == {e \in stored : \E n \in DOMAIN call[k].batch : call[k].batch[n] = e}

\* Mutant: event_type is not looked at.
SkippedNever(e) == FALSE

\* Events that are not ObjectCreate, and those whose created_at or object id
\* does not parse, are skipped.  (A payload that is not of the form of
\* StorageEventPayload is refused as a whole before anything is read.)
Skipped(e) == e.kind # "create"

Skip(k) ==
    /\ call[k].pc = "run" /\ call[k].next <= Len(call[k].batch)
    /\ Skipped(call[k].batch[call[k].next])
    /\ call' = [call EXCEPT ![k].next = @ + 1]
    /\ UNCHANGED <<driver, row, put, now, issued, storage, lost, failures>>

\* Mutant: the status is written in lower case.
MarkedInLowerCase(old, at) ==
    IF old.version = 0 THEN old ELSE [old EXCEPT !.status = "uploaded", !.at = at]

\* UPDATE lesiv.image SET upload_status, server_uploaded_at WHERE id
Marked(old, at) ==
    IF old.version = 0 THEN old ELSE [old EXCEPT !.status = "UPLOADED", !.at = at]

\* update_upload_status waits for the row.  With psycopg2 it goes on holding
\* it, and a statement after one that failed fails too.
Update(k) ==
    LET e == call[k].batch[call[k].next] IN
    /\ call[k].pc = "run" /\ call[k].next <= Len(call[k].batch)
    /\ ~Skipped(e) /\ ~call[k].aborted
    /\ FreeForUpdate(k, e.image)
    /\ IF driver = "asyncpg"
       THEN /\ row' = [row EXCEPT ![e.image] = Marked(@, e.at)]
            /\ call' = [call EXCEPT ![k].next = @ + 1]
       ELSE /\ row' = row
            /\ call' = [call EXCEPT ![k].next = @ + 1, ![k].marks[e.image] =
                           IF Exists(e.image) THEN e.at ELSE 0]
    /\ UNCHANGED <<driver, put, now, issued, storage, lost, failures>>

\* The statement fails: the exception is caught and the call goes on.  With
\* psycopg2 the whole transaction is undone.
Fail(k) ==
    LET e == call[k].batch[call[k].next] IN
    /\ call[k].pc = "run" /\ call[k].next <= Len(call[k].batch)
    /\ ~Skipped(e)
    /\ IF driver = "asyncpg"
       THEN lost' = lost \cup {e} /\ call' = [call EXCEPT ![k].next = @ + 1]
       ELSE /\ lost' = lost \cup Created(k)
            /\ call' = [call EXCEPT ![k].next = @ + 1, ![k].aborted = TRUE,
                                    ![k].marks = NoMarks]
    /\ UNCHANGED <<driver, row, put, now, issued, storage>>

\* A statement fails for a reason outside: a timeout, a lost connection.
FailsOutside(k) ==
    /\ ~call[k].aborted /\ failures < MaxFailures
    /\ failures' = failures + 1
    /\ Fail(k)

\* In an aborted transaction every statement fails.
FailsAborted(k) ==
    /\ call[k].aborted
    /\ failures' = failures
    /\ Fail(k)

\* Two calls wait for rows of each other, and PostgreSQL fails one of them.
WaitsFor(k, l) ==
    /\ call[k].pc = "run" /\ call[k].next <= Len(call[k].batch)
    /\ HeldByCall(l, call[k].batch[call[k].next].image)
FailsDeadlocked(k) ==
    /\ \E l \in Calls \ {k} : WaitsFor(k, l) /\ WaitsFor(l, k)
    /\ failures' = failures
    /\ Fail(k)

\* The answer: "processed", whatever happened to the events.
Answer(k) ==
    /\ call[k].pc = "run" /\ call[k].next > Len(call[k].batch)
    /\ pending' = pending \ {call[k].batch[n] : n \in DOMAIN call[k].batch}
    /\ call' = [call EXCEPT ![k] =
                   IF driver = "asyncpg" THEN NoCall
                   ELSE [@ EXCEPT !.pc = "answered"]]
    /\ UNCHANGED <<driver, row, put, now, issued, moment, stored, lost, failures>>

\* get_db_connection commits what was not rolled back.
CommitCall(k) ==
    /\ call[k].pc = "answered"
    /\ row' = [i \in Images |-> IF HeldByCall(k, i)
                                THEN Marked(row[i], call[k].marks[i])
                                ELSE row[i]]
    /\ call' = [call EXCEPT ![k] = NoCall]
    /\ UNCHANGED <<driver, put, now, issued, storage, lost, failures>>

\* The process of a call is gone; what it did not answer is delivered again.
CutOff(k) ==
    /\ call[k].pc # "idle" /\ failures < MaxFailures
    /\ failures' = failures + 1
    /\ lost' = IF call[k].pc = "answered" THEN lost \cup Created(k) ELSE lost
    /\ call' = [call EXCEPT ![k] = NoCall]
    /\ UNCHANGED <<driver, row, put, now, issued, storage>>
-----------------------------------------------------------------------------
Init ==
    /\ driver \in Drivers
    /\ row = [i \in Images |-> NoRow]
    /\ put = [c \in Clients |-> NoPut]
    /\ call = [k \in Calls |-> NoCall]
    /\ now = 1
    /\ moment = 1
    /\ issued = {}
    /\ pending = {}
    /\ stored = {}
    /\ lost = {}
    /\ failures = 0

Saves(c) == Upsert(c) \/ Commit(c) \/ EndPut(c)
Handles(k) ==
    Skip(k) \/ Update(k) \/ FailsAborted(k) \/ FailsDeadlocked(k) \/ Answer(k)
        \/ CommitCall(k)

Next ==
    \/ \E c \in Clients : Put(c) \/ Saves(c) \/ GetUploadUrl(c)
    \/ \E i \in Images, kind \in Kinds : Happens(i, kind)
    \/ \E k \in Calls :
           Deliver(k) \/ Handles(k) \/ FailsOutside(k) \/ CutOff(k)

\* A PUT and a call go on once they have begun: who waits for a row waits for a
\* transaction that goes on, or is in a deadlock, which PostgreSQL ends.  The
\* storage delivers what it has to report.
Fairness ==
    /\ \A c \in Clients : WF_vars(Saves(c))
    /\ \A k \in Calls : WF_vars(Handles(k))
    /\ WF_vars(\E k \in Calls : Deliver(k))

Spec == Init /\ [][Next]_vars /\ Fairness
-----------------------------------------------------------------------------
(* Properties                                                              *)

\* Every variable has its type.
TypeOK ==
    /\ driver \in Drivers
    /\ row \in [Images -> Row]
    /\ put \in [Clients -> PutRequest]
    /\ call \in [Calls -> Call]
    /\ now \in Nat /\ moment \in Nat
    /\ issued \subseteq Images
    /\ pending \subseteq Event
    /\ stored \subseteq Event
    /\ lost \subseteq stored
    /\ failures \in Nat

\* An image is UPLOADED only if its file was, whatever else happens to objects
\* and is reported (db/migrations/V8: "upload_status tracks whether the image
\* file has been uploaded to S3").
UploadedMeansStored ==
    \A i \in Images :
        row[i].status = "UPLOADED" => \E e \in stored : e.image = i

\* An image that is UPLOADED stays so, whichever saves of it, forced or not,
\* run together with the callbacks (tests/test_image.py: "PUT /image must never
\* overwrite upload_status set by the S3 callback").
StatusNeverBack ==
    [][\A i \in Images :
           row[i].status = "UPLOADED" => row'[i].status = "UPLOADED"]_vars

\* However its events arrive, an image with a file becomes UPLOADED, unless the
\* handling of one of them failed: the row is always there before the first.
UploadReported ==
    \A i \in Images :
        (\E e \in stored : e.image = i) ~>
            (row[i].status = "UPLOADED" \/ \E e \in lost : e.image = i)
=============================================================================
