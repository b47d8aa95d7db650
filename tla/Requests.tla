------------------------------ MODULE Requests ------------------------------
(***************************************************************************)
(* A burst of requests on their way through AuthMiddleware and the         *)
(* dependencies of their handlers, and the connection pool they share.     *)
(*                                                                         *)
(* The middleware takes a connection to look the inspector up and leaves   *)
(* its generator with break: the event loop closes it in a task of its     *)
(* own, so the connection may come back before or after the handler takes  *)
(* one.  Whoever waits for a connection competes with newcomers: the pool  *)
(* promises no order.  Who the request is from is decided up to three      *)
(* times, at different moments and from headers read in different ways.    *)
(***************************************************************************)
EXTENDS Integers, FiniteSets

CONSTANTS
    Requests,
    Inspectors,    \* ids
    Tokens,        \* what headers may hold
    Sub,           \* the inspector a token names
    Signed,        \* tokens that are access tokens signed with our key
    Drivers,       \* settings.db_driver: those to look at
    RequireAuth,   \* settings.require_auth: the values to look at
    TrustInvalid,  \* settings.trust_invalid_tokens: the values to look at
    PoolSize       \* max_size, maxconn

Nobody == 0
Anonymous == -1
AllDrivers == {"asyncpg", "psycopg2"}

ASSUME RequestsAssumption == IsFiniteSet(Requests)
ASSUME InspectorsAssumption == Nobody \notin Inspectors /\ Anonymous \notin Inspectors
ASSUME TokensAssumption ==
    /\ "none" \notin Tokens /\ "malformed" \notin Tokens
    /\ Sub \in [Tokens -> Inspectors]
    /\ Signed \subseteq Tokens
ASSUME SettingsAssumption ==
    /\ Drivers \subseteq AllDrivers
    /\ RequireAuth \subseteq BOOLEAN /\ TrustInvalid \subseteq BOOLEAN
ASSUME PoolAssumption == PoolSize \in Nat \ {0}

VARIABLES
    driver, requireAuth, trustInvalid,  \* rigid
    inspectors,  \* ids in the table lesiv.inspector
    valid,       \* tokens verify_access_token accepts
    req,         \* the requests
    free         \* connections of the pool nobody holds

settings == <<driver, requireAuth, trustInvalid>>
vars == <<settings, inspectors, valid, req, free>>

\* Routes: the health check; login and refresh; change-password; logs,
\* dictionaries and the upload callback, which do not ask who calls; those that
\* do; and those that read the token once more, for its device: the claim of a
\* plant before anything else, the PUTs with an OwnershipValidator after the
\* user.
Routes == {"root", "login", "password", "data", "user", "claim", "save"}
Guarded(route) == route \in {"data", "user", "claim", "save"}
TakesUser(route) == route \in {"password", "user", "claim", "save"}

Steps ==
    {"new", "front", "verify", "enter", "back", "user", "payload", "run",
     "exit", "done"}
Request ==
    [pc : Steps,
     route : Routes,
     front : Tokens \cup {"none", "malformed"},  \* the middleware's token
     back : Tokens \cup {"none"},                \* that of the dependencies
     current : Inspectors \cup {Nobody},         \* request.state.current_user
     payload : Inspectors \cup {Nobody, Anonymous},
     user : Inspectors \cup {Nobody, Anonymous},
     closing : BOOLEAN]          \* the middleware's generator is to be closed
NewRequest ==
    [pc |-> "new", route |-> "root", front |-> "none", back |-> "none",
     current |-> Nobody, payload |-> Nobody, user |-> Nobody, closing |-> FALSE]

At(r, pc) == req[r].pc = pc
GoTo(r, pc) == req' = [req EXCEPT ![r].pc = pc]
-----------------------------------------------------------------------------
(* Whom a token stands for                                                 *)

\* verify_access_token, or decode_token_without_validation
Accepted(t) == t \in valid \/ (trustInvalid /\ t \in Signed)

\* get_current_inspector, and get_inspector_by_id for a trusted token
Inspector(t) ==
    IF Accepted(t) /\ Sub[t] \in inspectors THEN Sub[t] ELSE Nobody

\* Mutant: who is not recognised is anonymous whatever REQUIRE_AUTH says.
OtherwiseAnonymous(who) == IF who = Nobody THEN Anonymous ELSE who

\* The end of get_current_user and get_token_payload: 401 or anonymous
Otherwise(who) == IF who = Nobody /\ ~requireAuth THEN Anonymous ELSE who
-----------------------------------------------------------------------------
(* The pool                                                                *)

\* The acquire of asyncpg waits; the getconn of psycopg2 raises PoolError, which
\* the middleware and the exception handler answer.
Take(r, from, to) ==
    /\ At(r, from)
    /\ IF free > 0
       THEN GoTo(r, to) /\ free' = free - 1
       ELSE driver = "psycopg2" /\ GoTo(r, "done") /\ free' = free
    /\ UNCHANGED <<settings, inspectors, valid>>
-----------------------------------------------------------------------------
(* AuthMiddleware                                                          *)

\* A request comes.  Without Authorization the middleware takes X-Auth-Token; the
\* dependencies take Authorization only as Bearer, and else X-Auth-Token.  A token
\* nobody will read is left out.
Arrive(r) ==
    /\ At(r, "new")
    /\ \E route \in Routes, front \in Tokens \cup {"none", "malformed"},
          back \in Tokens \cup {"none"} :
           LET checked == requireAuth /\ Guarded(route) IN
           /\ front = "none" => back = "none"
           /\ req' = [req EXCEPT ![r] =
                         [NewRequest EXCEPT
                             !.route = route,
                             !.front = IF checked THEN front ELSE "none",
                             !.back = IF TakesUser(route) THEN back ELSE "none",
                             !.pc = IF ~checked THEN "enter"
                                    ELSE IF front \in Tokens THEN "front"
                                    ELSE "done"]]
    /\ UNCHANGED <<settings, inspectors, valid, free>>

\* async for conn in get_db_connection()
TakeFront(r) == Take(r, "front", "verify")

\* Mutant: the connection is given back at once, and once more by the close.
VerifyAndRelease(r) ==
    LET who == Inspector(req[r].front) IN
    /\ At(r, "verify")
    /\ req' = [req EXCEPT ![r].current = who, ![r].closing = TRUE,
                          ![r].front = "none",
                          ![r].pc = IF who = Nobody THEN "done" ELSE "enter"]
    /\ free' = free + 1
    /\ UNCHANGED <<settings, inspectors, valid>>

\* The look-up and the break: 401, or on to the handler.  The token is not looked
\* at again.
Verify(r) ==
    LET who == Inspector(req[r].front) IN
    /\ At(r, "verify")
    /\ req' = [req EXCEPT ![r].current = who, ![r].closing = TRUE,
                          ![r].front = "none",
                          ![r].pc = IF who = Nobody THEN "done" ELSE "enter"]
    /\ UNCHANGED <<settings, inspectors, valid, free>>

\* A statement of the look-up fails: 503.
VerifyFails(r) ==
    /\ At(r, "verify")
    /\ req' = [req EXCEPT ![r].closing = TRUE, ![r].front = "none",
                          ![r].pc = "done"]
    /\ UNCHANGED <<settings, inspectors, valid, free>>

\* Mutant: the handler is called inside the async for.
CloseAfterAnswer(r) ==
    /\ req[r].closing /\ At(r, "done")
    /\ req' = [req EXCEPT ![r].closing = FALSE]
    /\ free' = free + 1
    /\ UNCHANGED <<settings, inspectors, valid>>

\* The event loop runs aclose() of the generator.
CloseFront(r) ==
    /\ req[r].closing
    /\ req' = [req EXCEPT ![r].closing = FALSE]
    /\ free' = free + 1
    /\ UNCHANGED <<settings, inspectors, valid>>
-----------------------------------------------------------------------------
(* The dependencies and the handler                                        *)

\* get_token_payload: 401, or on
ReadPayload(r, refused, to) ==
    LET t == req[r].back
        who == Otherwise(IF Accepted(t) THEN Sub[t] ELSE Nobody)
    IN
    req' = [req EXCEPT ![r].payload = who,
                       ![r].pc = IF who = Nobody THEN refused ELSE to]

\* The health check asks for nothing; a claim begins with get_token_payload.
Enter(r) ==
    /\ At(r, "enter")
    /\ \/ req[r].route = "root" /\ GoTo(r, "done")
       \/ req[r].route \notin {"root", "claim"} /\ GoTo(r, "back")
       \/ req[r].route = "claim" /\ ReadPayload(r, "done", "back")
    /\ UNCHANGED <<settings, inspectors, valid, free>>

\* The one get_db_connection of a handler and its dependencies
TakeBack(r) == Take(r, "back", "user")

\* get_current_user, where the route asks for it
Authenticate(r) ==
    LET who == Otherwise(Inspector(req[r].back)) IN
    /\ At(r, "user")
    /\ \/ ~TakesUser(req[r].route) /\ GoTo(r, "run")
       \/ /\ TakesUser(req[r].route)
          /\ req' = [req EXCEPT ![r].user = who,
                                ![r].pc = IF who = Nobody THEN "exit"
                                          ELSE IF req[r].route = "save"
                                          THEN "payload" ELSE "run"]
    /\ UNCHANGED <<settings, inspectors, valid, free>>

\* get_ownership_validator
Validator(r) ==
    /\ At(r, "payload")
    /\ ReadPayload(r, "exit", "run")
    /\ UNCHANGED <<settings, inspectors, valid, free>>

\* A statement of the look-up fails, and the exception handler answers.
AuthenticateFails(r) ==
    /\ At(r, "user") /\ TakesUser(req[r].route)
    /\ GoTo(r, "exit")
    /\ UNCHANGED <<settings, inspectors, valid, free>>

\* The handler returns or raises.
Run(r) ==
    /\ At(r, "run")
    /\ GoTo(r, "exit")
    /\ UNCHANGED <<settings, inspectors, valid, free>>

\* The exit code of get_db_connection
Exit(r) ==
    /\ At(r, "exit")
    /\ GoTo(r, "done")
    /\ free' = free + 1
    /\ UNCHANGED <<settings, inspectors, valid>>
-----------------------------------------------------------------------------
(* The world around                                                        *)

\* An access token expires; the keys of the storage do not.
Expire(t) ==
    /\ t \in valid \cap Signed
    /\ valid' = valid \ {t}
    /\ UNCHANGED <<settings, inspectors, req, free>>

\* An inspector is deleted.
Remove(i) ==
    /\ i \in inspectors
    /\ inspectors' = inspectors \ {i}
    /\ UNCHANGED <<settings, valid, req, free>>
-----------------------------------------------------------------------------
Init ==
    /\ driver \in Drivers
    /\ requireAuth \in RequireAuth
    /\ trustInvalid \in TrustInvalid
    /\ inspectors \in SUBSET Inspectors
    /\ valid \in SUBSET Tokens
    /\ req = [r \in Requests |-> NewRequest]
    /\ free = PoolSize

Advance(r) ==
    \/ TakeFront(r) \/ Verify(r) \/ VerifyFails(r)
    \/ Enter(r)
    \/ TakeBack(r) \/ Authenticate(r) \/ AuthenticateFails(r)
    \/ Validator(r) \/ Run(r) \/ Exit(r)

Next ==
    \/ \E r \in Requests : Arrive(r) \/ Advance(r) \/ CloseFront(r)
    \/ \E t \in Tokens : Expire(t)
    \/ \E i \in Inspectors : Remove(i)

\* Requests go on when they can and generators get closed; a statement ends,
\* with asyncpg by command_timeout at the latest, with psycopg2, which sets no
\* timeout, because PostgreSQL answers.
Fairness == \A r \in Requests : WF_vars(Advance(r)) /\ WF_vars(CloseFront(r))

Spec == Init /\ [][Next]_vars /\ Fairness
-----------------------------------------------------------------------------
(* Properties                                                              *)

\* Every variable has its type; the pool never has more connections than it made.
TypeOK ==
    /\ driver \in Drivers
    /\ requireAuth \in RequireAuth /\ trustInvalid \in TrustInvalid
    /\ inspectors \subseteq Inspectors
    /\ valid \subseteq Tokens
    /\ req \in [Requests -> Request]
    /\ free \in 0 .. PoolSize

\* With REQUIRE_AUTH a handler runs for an inspector that was known when it was
\* asked, even if the token expires or the inspector is deleted on the way, and
\* plants are claimed and saved in the name of the user whose rights were checked.
KnownServed ==
    \A r \in Requests : requireAuth /\ At(r, "run") =>
        /\ Guarded(req[r].route) => req[r].current # Nobody
        /\ TakesUser(req[r].route) => req[r].user \in Inspectors
        /\ req[r].route \in {"claim", "save"} =>
               req[r].payload = req[r].user

\* Requests never block each other for good: however many come, all are answered
\* and every connection comes back.
SettlesDown ==
    <>[](free = PoolSize /\ \A r \in Requests : At(r, "new") \/ At(r, "done"))
=============================================================================
