--------------------------- MODULE RefreshTokens ---------------------------
(***************************************************************************)
(* Refresh-token sessions: POST /auth/login, /auth/refresh and             *)
(* /auth/change-password over the table lesiv.tokens.                      *)
(*                                                                         *)
(* The unit of interleaving is one SQL statement of one request, run at    *)
(* READ COMMITTED: a statement sees the rows committed when it starts.     *)
(* /auth/refresh runs in one transaction, so its INSERT and UPDATE become  *)
(* visible together, at its commit (RefreshRotate, RevokeChain);           *)
(* /auth/login and /auth/change-password run without one, so every         *)
(* statement of theirs commits by itself (asyncpg's autocommit).  An       *)
(* UPDATE of many rows chooses them when it starts and may wait for row    *)
(* locks, so it is two steps: choose the rows, then write them.            *)
(*                                                                         *)
(* A token id is its place in the order of insertion, and stands for the   *)
(* token's UUID, its secret string and the hash of that string; a password *)
(* hash is the number of passwords the inspector has had (each bcrypt hash *)
(* is salted, so each is new); times are ticks, starting at 1.             *)
(***************************************************************************)
EXTENDS Integers, Sequences, FiniteSets

CONSTANTS
    Inspectors,       \* the inspectors that can log in
    Devices,          \* the device ids of their phones
    Requests,         \* slots for the HTTP requests in flight
    RefreshLifetime,  \* refresh_token_lifetime_days, in ticks
    ReuseLifetime,    \* reuse_lifetime_min, in ticks (0 turns recovery off)
    MaxTokens,        \* bound of a run: rows ever inserted
    MaxPassword,      \* bound of a run: passwords an inspector ever has
    MaxTime           \* bound of a run: ticks of the clock

\* SQL NULL, and "no token"; ids, hashes and times are all at least 1.
Null == 0

ASSUME RequestsAssumption == Null \notin Inspectors /\ Null \notin Devices
ASSUME LifetimeAssumption == RefreshLifetime \in Nat /\ ReuseLifetime \in Nat
ASSUME BoundsAssumption ==
    MaxTokens \in Nat /\ MaxPassword \in Nat /\ MaxTime \in Nat

VARIABLES
    tokens,    \* lesiv.tokens: the committed rows, in the order of insertion
    password,  \* lesiv.inspector.password_hash of every inspector
    now,       \* the clock of the application and of the database
    known,     \* the refresh tokens some client has received
    req,       \* what each request in flight has read so far and does next
    serial     \* rigid: clients wait for an answer before the next request
               \* that touches the same session

vars == <<tokens, password, now, known, req, serial>>

Token ==
    [inspector   : Inspectors,
     device      : Devices,
     session     : Nat,       \* auxiliary: the token issued with a password
                              \* that this one descends from
     expires_at  : Nat,
     revoked     : BOOLEAN,
     replaced_by : Nat,       \* replaced_by_id
     used_at     : Nat,
     ciphertext  : Nat]       \* replacement_token_encrypted: the token whose
                              \* string it decrypts to
Operations == {"login", "refresh", "change"}
Steps == {"idle", "insert", "rotate", "recover", "reuse", "revokeChain",
          "update", "revokeAll", "revokeChosen", "answered"}
Results == {"none", "issued", "recovered", "denied", "unreadable", "reused"}

Request ==
    [op        : Operations,
     pc        : Steps,
     inspector : Inspectors \cup {Null},
     device    : Devices \cup {Null},
     token     : Nat,          \* the refresh token the client presented
     hash      : Nat,          \* password_hash as change_password read it
     asOf      : Nat,          \* "now" as refresh read the clock
     visited   : SUBSET Nat,   \* _recover_refresh: rows already followed ...
     link      : Nat,          \* ... replaced_by_id of the row in hand ...
     cipher    : Nat,          \* ... and its ciphertext
     chosen    : SUBSET Nat,   \* rows a started UPDATE is going to revoke
     answer    : Nat,          \* the refresh token in the response
     result    : Results]

Idle == [op |-> "login", pc |-> "idle", inspector |-> Null, device |-> Null,
         token |-> Null, hash |-> Null, asOf |-> Null, visited |-> {},
         link |-> Null, cipher |-> Null, chosen |-> {}, answer |-> Null,
         result |-> "none"]

Ids == DOMAIN tokens
Live(t) == ~tokens[t].revoked
Busy(r) == req[r].pc # "idle"

\* Every request inserts at most one row: the bound leaves room for those in
\* flight, so that no request is stopped by it half way.
Room == Len(tokens) + Cardinality({r \in Requests : Busy(r)}) < MaxTokens

\* What "serial" asks of the clients: a password change runs alone for its
\* inspector, and a session has one refresh at a time.
Alone(r, op, i, t) ==
    serial => \A q \in Requests \ {r} :
        (Busy(q) /\ req[q].inspector = i) =>
            /\ op # "change" /\ req[q].op # "change"
            /\ (op = "refresh" /\ req[q].op = "refresh") =>
                   tokens[req[q].token].session # tokens[t].session
-----------------------------------------------------------------------------
(* The statements of queries/auth.sql, as functions of the table.          *)

\* create_refresh_token: the row a request of inspector i inserts
NewRow(i, d, s) ==
    [inspector |-> i, device |-> d, session |-> s,
     expires_at |-> now + RefreshLifetime, revoked |-> FALSE,
     replaced_by |-> Null, used_at |-> Null, ciphertext |-> Null]

\* Mutant: revoke_and_replace without "revoked = TRUE".
ReplaceOnly(rows, old, new) ==
    [rows EXCEPT ![old] = [@ EXCEPT !.replaced_by = new, !.used_at = now,
                                    !.ciphertext = new]]

\* Mutant: revoke_and_replace given the old id for the replacement's.
LinkToSelf(rows, old, new) ==
    [rows EXCEPT ![old] = [@ EXCEPT !.revoked = TRUE, !.replaced_by = old,
                                    !.used_at = now, !.ciphertext = old]]

\* Mutant: the submitted token is encrypted instead of its replacement.
EncryptSubmitted(rows, old, new) ==
    [rows EXCEPT ![old] = [@ EXCEPT !.revoked = TRUE, !.replaced_by = new,
                                    !.used_at = now, !.ciphertext = old]]

\* revoke_and_replace: an UPDATE of the old row whatever state it is in
RevokeAndReplace(rows, old, new) ==
    [rows EXCEPT ![old] = [@ EXCEPT !.revoked = TRUE, !.replaced_by = new,
                                    !.used_at = now, !.ciphertext = new]]

\* revoke_all_tokens_for_inspector, revoke_token_chain: the SET clause
Revoke(rows, S) ==
    [t \in DOMAIN rows |->
        IF t \in S THEN [rows[t] EXCEPT !.revoked = TRUE, !.ciphertext = Null]
                   ELSE rows[t]]

\* revoke_token_chain: the recursive CTE that walks back, which is in every set
\* that holds the token and the predecessors of its members.  Links lead to
\* younger tokens, and at most one leads to each (RotationForest).
Predecessors(t) == {p \in Ids : tokens[p].replaced_by = t}
Back(t) ==
    {u \in Ids : \A S \in SUBSET Ids :
        (t \in S /\ \A v \in S : Predecessors(v) \subseteq S) => u \in S}

\* The last row it comes to
Root(t) == CHOOSE u \in Back(t) : Predecessors(u) = {}

\* The one that follows the links forward
Forward(t) ==
    {u \in Ids : \A S \in SUBSET Ids :
        (t \in S /\ \A v \in S : tokens[v].replaced_by \in S \cup {Null})
            => u \in S}

\* Mutant: only the CTE that walks back.
ChainBack(t) == Back(t)

\* The rows of the UPDATE
Chain(t) == Forward(Root(t))

-----------------------------------------------------------------------------
(* Answers.  None of the service functions is an answer too: a 401 or 409. *)

\* Mutant: recovery answers with the token it was given.
AnsweredSubmitted(r, result, token) ==
    req' = [req EXCEPT ![r].pc = "answered", ![r].result = result,
                       ![r].answer = IF result = "recovered"
                                     THEN req[r].token ELSE token]

Answered(r, result, token) ==
    req' = [req EXCEPT ![r].pc = "answered", ![r].result = result,
                       ![r].answer = token]

\* POST /auth/login: get_inspector_by_username and verify_password, against
\* the password the inspector has now or one from before.
LoginRead(r, i, d, given) ==
    /\ ~Busy(r) /\ Room /\ Alone(r, "login", i, Null)
    /\ req' = [req EXCEPT ![r] =
                [Idle EXCEPT !.op = "login", !.inspector = i, !.device = d,
                             !.pc = IF given = password[i] THEN "insert"
                                                          ELSE "answered",
                             !.result = IF given = password[i] THEN "none"
                                                              ELSE "denied"]]
    /\ UNCHANGED <<tokens, password, now, known, serial>>

\* create_refresh_token of login and, as its last statement, of
\* change_password: a new session
InsertToken(r) ==
    /\ req[r].pc = "insert"
    /\ tokens' = Append(tokens, NewRow(req[r].inspector, req[r].device,
                                       Len(tokens) + 1))
    /\ Answered(r, "issued", Len(tokens) + 1)
    /\ UNCHANGED <<password, now, known, serial>>

\* The branch refresh takes for the row it read, at time now
InReuseWindow(t) ==
    ReuseLifetime > 0 /\ tokens[t].used_at # Null
    /\ now < tokens[t].used_at + ReuseLifetime

\* Mutant: a token in its recovery window is rotated once more.
NextStepRotates(t) ==
    IF tokens[t].expires_at <= now THEN "answered"
    ELSE IF ~tokens[t].revoked \/ InReuseWindow(t) THEN "rotate" ELSE "reuse"

NextStep(t) ==
    IF tokens[t].expires_at <= now THEN "answered"
    ELSE IF ~tokens[t].revoked THEN "rotate"
    ELSE IF InReuseWindow(t) THEN "recover" ELSE "reuse"

\* POST /auth/refresh: get_token_by_hash, the clock, and the branch they lead
\* to.  (The 401 for a string no row has changes nothing and is left out.)
RefreshRead(r, t) ==
    /\ ~Busy(r) /\ Room /\ Alone(r, "refresh", tokens[t].inspector, t)
    /\ req' = [req EXCEPT ![r] =
                [Idle EXCEPT !.op = "refresh", !.pc = NextStep(t),
                             !.inspector = tokens[t].inspector,
                             !.device = tokens[t].device,
                             !.token = t, !.asOf = now, !.visited = {t},
                             !.link = tokens[t].replaced_by,
                             !.cipher = tokens[t].ciphertext,
                             !.result = IF NextStep(t) = "answered"
                                        THEN "denied" ELSE "none"]]
    /\ UNCHANGED <<tokens, password, now, known, serial>>

\* Mutant: the answer goes out although the transaction is rolled back.
RotateRolledBack(r) ==
    /\ req[r].pc = "rotate"
    /\ Answered(r, "issued", Len(tokens) + 1)
    /\ UNCHANGED <<tokens, password, now, known, serial>>

\* create_refresh_token, revoke_and_replace and the commit of the refresh.
\* The row read by RefreshRead is not read again.
RefreshRotate(r) ==
    /\ req[r].pc = "rotate"
    /\ LET old == req[r].token
           new == Len(tokens) + 1
       IN  /\ tokens' = Append(RevokeAndReplace(tokens, old, new),
                               NewRow(req[r].inspector, req[r].device,
                                      tokens[old].session))
           /\ Answered(r, "issued", new)
    /\ UNCHANGED <<password, now, known, serial>>

\* What _recover_refresh asks of the replacement it looks up
Usable(r, t) ==
    /\ t = req[r].link
    /\ t \notin req[r].visited
    /\ tokens[t].inspector = req[r].inspector
    /\ tokens[t].device = req[r].device
    /\ ~(tokens[t].expires_at <= req[r].asOf)

\* One turn of the loop of _recover_refresh: the ciphertext in hand leads to
\* the replacement; the loop ends at one that is not revoked.
RecoverHop(r) ==
    /\ req[r].pc = "recover"
    /\ LET t == req[r].cipher IN
       \/ /\ req[r].link = Null \/ t = Null
          /\ Answered(r, "denied", Null)
       \/ /\ req[r].link # Null /\ t # Null
          /\ \/ Answered(r, "unreadable", Null)   \* another key, corrupt text
             \/ ~Usable(r, t) /\ Answered(r, "denied", Null)
             \/ Usable(r, t) /\ Live(t) /\ Answered(r, "recovered", t)
             \/ /\ Usable(r, t) /\ ~Live(t)
                /\ req' = [req EXCEPT ![r].visited = @ \cup {t},
                                      ![r].link = tokens[t].replaced_by,
                                      ![r].cipher = tokens[t].ciphertext]
    /\ UNCHANGED <<tokens, password, now, known, serial>>

\* Reuse outside the window: revoke_token_chain starts, and chooses its rows
ReuseDetected(r) ==
    /\ req[r].pc = "reuse"
    /\ req' = [req EXCEPT ![r].pc = "revokeChain",
                          ![r].chosen = Chain(req[r].token)]
    /\ UNCHANGED <<tokens, password, now, known, serial>>

\* ... writes them and commits, before the 401
RevokeChain(r) ==
    /\ req[r].pc = "revokeChain"
    /\ tokens' = Revoke(tokens, req[r].chosen)
    /\ Answered(r, "reused", Null)
    /\ UNCHANGED <<password, now, known, serial>>
-----------------------------------------------------------------------------
\* POST /auth/change-password: get_inspector_by_id and verify_password
PasswordRead(r, i, d, given) ==
    /\ ~Busy(r) /\ Room /\ Alone(r, "change", i, Null)
    /\ password[i] < MaxPassword
    /\ req' = [req EXCEPT ![r] =
                [Idle EXCEPT !.op = "change", !.inspector = i, !.device = d,
                             !.hash = password[i],
                             !.pc = IF given = password[i] THEN "update"
                                                          ELSE "answered",
                             !.result = IF given = password[i] THEN "none"
                                                              ELSE "denied"]]
    /\ UNCHANGED <<tokens, password, now, known, serial>>

\* Mutant: sessions are left alone.
PasswordUpdateOnly(r) ==
    /\ req[r].pc = "update"
    /\ LET i == req[r].inspector IN
       \/ /\ password[i] = req[r].hash
          /\ password' = [password EXCEPT ![i] = @ + 1]
          /\ req' = [req EXCEPT ![r].pc = "insert"]
       \/ /\ password[i] # req[r].hash
          /\ Answered(r, "denied", Null)
          /\ UNCHANGED password
    /\ UNCHANGED <<tokens, now, known, serial>>

\* Mutant: the statement that matched no row is repeated until it does.
PasswordUpdateWaits(r) ==
    /\ req[r].pc = "update"
    /\ password[req[r].inspector] = req[r].hash
    /\ password' = [password EXCEPT ![req[r].inspector] = @ + 1]
    /\ req' = [req EXCEPT ![r].pc = "revokeAll"]
    /\ UNCHANGED <<tokens, now, known, serial>>

\* update_password: writes only over the hash that was verified
PasswordUpdate(r) ==
    /\ req[r].pc = "update"
    /\ LET i == req[r].inspector IN
       \/ /\ password[i] = req[r].hash
          /\ password' = [password EXCEPT ![i] = @ + 1]
          /\ req' = [req EXCEPT ![r].pc = "revokeAll"]
       \/ /\ password[i] # req[r].hash
          /\ Answered(r, "denied", Null)
          /\ UNCHANGED password
    /\ UNCHANGED <<tokens, now, known, serial>>

\* revoke_all_tokens_for_inspector starts, and chooses its rows ...
RevokeAll(r) ==
    /\ req[r].pc = "revokeAll"
    /\ req' = [req EXCEPT ![r].pc = "revokeChosen",
                          ![r].chosen = {t \in Ids : tokens[t].inspector
                                                     = req[r].inspector}]
    /\ UNCHANGED <<tokens, password, now, known, serial>>

\* ... and writes them; the new session is inserted next
RevokeChosen(r) ==
    /\ req[r].pc = "revokeChosen"
    /\ tokens' = Revoke(tokens, req[r].chosen)
    /\ req' = [req EXCEPT ![r].pc = "insert", ![r].chosen = {}]
    /\ UNCHANGED <<password, now, known, serial>>
-----------------------------------------------------------------------------
\* The response reaches the client, or is lost on the way.
Respond(r) ==
    /\ req[r].pc = "answered"
    /\ req' = [req EXCEPT ![r] = Idle]
    /\ \/ known' = known \cup ({req[r].answer} \ {Null})
       \/ req[r].answer # Null /\ UNCHANGED known
    /\ UNCHANGED <<tokens, password, now, serial>>

\* The process or its connection dies: what is not committed is rolled back,
\* what autocommit has written stays.
Crash(r) ==
    /\ Busy(r) /\ req[r].pc # "answered"
    /\ req' = [req EXCEPT ![r] = Idle]
    /\ UNCHANGED <<tokens, password, now, known, serial>>

Tick ==
    /\ now < MaxTime
    /\ now' = now + 1
    /\ UNCHANGED <<tokens, password, known, req, serial>>

Init ==
    /\ tokens = <<>>
    /\ password = [i \in Inspectors |-> 1]
    /\ now = 1
    /\ known = {}
    /\ req = [r \in Requests |-> Idle]
    /\ serial \in BOOLEAN

\* The steps the server owes a request it has accepted
Serve(r) ==
    \/ InsertToken(r) \/ RefreshRotate(r) \/ RecoverHop(r)
    \/ ReuseDetected(r) \/ RevokeChain(r)
    \/ PasswordUpdate(r) \/ RevokeAll(r) \/ RevokeChosen(r)
    \/ Respond(r)

\* What a client may send
Send(r) ==
    \/ \E i \in Inspectors, d \in Devices : \E given \in 1..password[i] :
           LoginRead(r, i, d, given) \/ PasswordRead(r, i, d, given)
    \/ \E t \in known : RefreshRead(r, t)

Next == Tick \/ \E r \in Requests : Send(r) \/ Serve(r) \/ Crash(r)

\* An accepted request is served to its end: the event loop runs every ready
\* handler, and asyncpg gives every statement a timeout (command_timeout of
\* init_async_db_pool).  Clients owe nothing.
Fairness == \A r \in Requests : WF_vars(Serve(r))

Spec == Init /\ [][Next]_vars /\ Fairness
-----------------------------------------------------------------------------
(* Properties that hold whatever the clients do.                           *)

\* Every variable has its type.
TypeOK ==
    /\ tokens \in Seq(Token)
    /\ password \in [Inspectors -> Nat]
    /\ now \in Nat
    /\ known \subseteq Ids
    /\ req \in [Requests -> Request]
    /\ serial \in BOOLEAN

\* Rotation links form a forest: a link leads to a younger token of the same
\* session, inspector and device, and no two tokens were replaced by the same
\* one.  The loop of _recover_refresh ends and revoke_token_chain finds one
\* root because of it, also after racing rotations have overwritten a link.
RotationForest ==
    \A t \in Ids : LET u == tokens[t].replaced_by IN
        u # Null =>
            /\ u \in Ids /\ u > t
            /\ tokens[u].session = tokens[t].session
            /\ tokens[u].inspector = tokens[t].inspector
            /\ tokens[u].device = tokens[t].device
            /\ \A s \in Ids \ {t} : tokens[s].replaced_by # u

\* What recovery reads of a row is consistent: a token that was never used has
\* nothing to recover, a rotated one has its deadline, and a ciphertext leads
\* to the very token replaced_by_id names.
RecoveryMaterial ==
    \A t \in Ids : LET row == tokens[t] IN
        /\ Live(t) => row.replaced_by = Null
        /\ (row.used_at = Null) <=> (row.replaced_by = Null)
        /\ row.ciphertext \in {Null, row.replaced_by}

\* The refresh token a refresh answers with is a younger one of the session
\* the presented token belongs to, never the submitted token itself, and
\* outlives the moment the request was judged at.
AnswerStaysInSession ==
    \A r \in Requests : LET t == req[r].token  u == req[r].answer IN
        (req[r].op = "refresh" /\ u # Null) =>
            /\ u \in Ids /\ u > t
            /\ tokens[u].session = tokens[t].session
            /\ tokens[u].inspector = tokens[t].inspector
            /\ tokens[u].device = tokens[t].device
            /\ tokens[u].expires_at >= req[r].asOf

\* A request the server has accepted is answered and done.
RequestsFinish == \A r \in Requests : Busy(r) ~> ~Busy(r)
-----------------------------------------------------------------------------
(* Properties that hold while clients take turns ("serial"): requests of   *)
(* other sessions, lost answers, crashes and the clock interleave freely.  *)

InSession(t) == {u \in Ids : tokens[u].session = tokens[t].session}

\* Rotation hands the session over: it never has two tokens that refresh.
SingleLiveToken ==
    serial => \A t \in Ids : \A u \in InSession(t) :
                  Live(t) /\ Live(u) => t = u

\* A client that lost an answer and asks again keeps its session: a refresh
\* is turned down only if the token it presents has expired or its session
\* has no live token left, and what it is given instead is live.
RetryKeepsSession ==
    serial => \A r \in Requests : LET t == req[r].token IN
        (req[r].op = "refresh" /\ req[r].pc = "answered") =>
            /\ req[r].result \in {"issued", "recovered"} => Live(req[r].answer)
            /\ req[r].result = "denied" =>
                   \/ tokens[t].expires_at <= now
                   \/ \A u \in InSession(t) :
                          Live(u) => tokens[u].expires_at <= now

\* Reuse after the recovery window ends the session: when the 401 is sent no
\* token of it is live.
ReuseEndsSession ==
    serial => \A r \in Requests :
        req[r].result = "reused" =>
            \A u \in InSession(req[r].token) : ~Live(u)

\* When a password change is answered, the session it issued is the only one
\* of the inspector that can refresh.
PasswordChangeEndsSessions ==
    serial => \A r \in Requests :
        (req[r].op = "change" /\ req[r].answer # Null) =>
            {t \in Ids : Live(t) /\ tokens[t].inspector = req[r].inspector}
                = {req[r].answer}

\* A rotation is final: no later request brings the token back, gives it
\* another replacement or extends its recovery window.
RotationFinal(rows, rowsNext) ==
    \A t \in DOMAIN rows : rows[t].revoked =>
        /\ rowsNext[t].revoked
        /\ rowsNext[t].replaced_by = rows[t].replaced_by
        /\ rowsNext[t].used_at = rows[t].used_at

RotationIsFinal == [][serial => RotationFinal(tokens, tokens')]_vars

\* The refresh tokens, their session and its owner, in the order of issue
Origin == [t \in Ids |-> [inspector |-> tokens[t].inspector,
                           device |-> tokens[t].device,
                           session |-> tokens[t].session]]

Register == INSTANCE SessionRegister WITH
    origin <- Origin,
    current <- {t \in Ids : Live(t)},
    offered <- [r \in Requests |-> req[r].answer]

\* Clients taking turns, every statement is a step on a register of sessions,
\* or none: a session has one current token, which a rotation hands over and
\* recovery finds again; it ends for good, as a whole, by reuse or a password
\* change; and a token on its way to a client is current when it gets there,
\* whatever requests of other sessions do.
ActsAsRegister ==
    Register!Init /\ [][serial => Register!Next]_(Register!vars)

\* plans/auth.md, "Handling race conditions": of two refreshes close together
\* only one rotation succeeds.  Without turns it does not hold: see README.
OneRotation == [][RotationFinal(tokens, tokens')]_vars
=============================================================================
