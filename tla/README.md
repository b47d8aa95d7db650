# A TLA+ model of the inspection backend

The program is a FastAPI service over PostgreSQL. Inspectors carry phones that
work offline; a phone logs in, pulls what changed since its last pull
(`modified_since`), claims the plants it is going to edit, and saves plants,
groups, equipment, inspections and work logs back with PUT requests that carry
the version it had read. Image files go to object storage, which calls the
service back.

Everything that is hard about it happens between requests. The service keeps no
state of its own: the state is the database, each request is a transaction at
PostgreSQL's default isolation level READ COMMITTED (or, for login and password
changes, no transaction at all), and the checks of a request are SELECTs that
take no lock. So the unit of interleaving in all modules is **one SQL
statement**: a statement sees the rows committed when it starts, and statements
of other requests run between any two statements of a request.

## Inventory

| part of the system | state | operations | interacts with | hard behaviour | what makes it correct |
|---|---|---|---|---|---|
| **Sessions** (`routers/auth.py`, `services/auth.py`, `queries/auth.sql`) | `lesiv.tokens` (rotation links, revoked flag, recovery deadline, encrypted replacement), `inspector.password_hash` | login, refresh (rotate, recover, detect reuse), change-password | the clock; clients that lose answers | racing rotations, lost answers, retries at the edge of the recovery window, crash inside change-password, an unbounded loop and two recursive CTEs over links | links form a forest; an answer stays in its session; one live token per session; reuse and password changes end sessions; every request ends |
| **Plant groups** (`repositories/plant_group.py`) | `plant_group` (parent), `plant_group_membership` | PUT: optimistic lock, cycle check, upsert, sync of the plants, move | plants (`/plant-group`, delta pull) | two moves that cross, plants moved between check and write, row-lock deadlocks, endless CTE | groups form a forest; a plant changes groups only if asked to; versions grow; nobody waits for ever |
| **Plants, facilities, claims** (`repositories/plant.py`, `utils/claim_utils.py`, `services/ownership_validator.py`) | `plant` (version, creator, claim), `facility`, `inspector_plant_access` | claim, release, PUT (access, claim, version, facility sync, grants) | every child aggregate checks the plant's claim; permissions | check-then-update of claims, claims that expire at midnight UTC, concurrent creation, version taken before the row lock | one claim at a time; only the claiming device saves; no save overwrites what its client has not seen; creator and facility owner never change |
| **Permissions** (`services/permission_service.py`) | `inspector_plant_access`, `inspector.access_level` | check access, grant on creation | read by all routers | a grant inside the creating transaction | creator and internal inspectors see the plant as soon as it exists |
| **Access-token check** (`middleware/auth.py`, `dependencies/`) | none (a signed JWT; one read of the inspector) | identify the caller, up to three times per request, from headers read in two ways | all routers; the pool | a second connection per request; tokens that expire and inspectors that go between two checks | nobody unknown is served; what is done in a name is allowed to that name |
| **Equipment, inspections, work logs** (`repositories/equipment.py`, `inspection.py`, `work_log.py`) | one row each and their children (control points; steps and image links; inspectors) | PUT with ownership check, optimistic lock, upsert and child sync; GET by plant | the plant's claim (equipment), the claim by creator (work log), the steps (inspection) | a child taken over by another parent, a child added while others are deleted, claim and owner checked on an unlocked row | children are not stolen, nothing unseen is deleted, only owner or claimant saves |
| **Defects, equipment properties** | one row each | PUT with optimistic lock; GET by plant | - | versions | nothing unseen is overwritten |
| **Images** (`routers/image.py`) | `image` (version, upload status, server times) | PUT, presigned URL, storage callback | object storage delivers events at least once, in any order | late, duplicated, reordered events; a batch that fails in the middle, or deadlocks with another | UPLOADED is true and final; an upload is reported |
| **Sticker installations** | immutable rows | PUT; GET by plant | - | retries with the same id | an id keeps its content |
| **Delta pull** (`modified_since`) | - | GET of each entity | every writer | a version taken before the commit; rows and children read one after the other | a client misses nothing and sees whole aggregates |
| **Connections and transactions** (`database.py`) | two pools (asyncpg, psycopg2) | acquire, begin, commit, release | every request | exhaustion, a connection held while another is asked for, a generator left with `break` | requests end; every connection comes back, once |
| **Logs, dictionaries, application shell, schema, scripts** | rows nothing reads; constant tables | append; list; start-up | - | - | - |

`PROJECT.json` lists the components with their status, and the hazards with the
line where each one bites and the properties that watch it.

## Plan

In order of importance of what is modelled:

1. `RefreshTokens` - sessions. **Done**, with proofs (`RefreshTokensProofs`,
   and `RefreshTurnsProofs` for what needs turns), and `SessionRegister`, the
   abstract specification of a session, which it implements (`ActsAsRegister`).
   **Done**, proved (`RefreshSessionsProofs`).
2. `PlantGroups` - the tree of groups. **Done**, with proofs.
3. `PlantClaims` - plants, facilities, claims and plant access. **Done**, with
   proofs; and `PlantRegister`, the abstract specification of a plant that is held
   by one device and saved as a whole, which it implements (`ActsAsRegister`).
   **Done**, proved.
4. `Aggregates` - the PUT and the pull that equipment, inspections, work logs,
   defects, properties and sticker installations share, with what differs.
   **Done**, with proofs.
5. `AggregateRegister` - the abstract specification of 4: a register replaced as a
   whole. `Aggregates` implements it (`ActsAsRegister`). **Done**, proved.
6. `ImageUpload` - images, upload URLs and the storage callback. **Done**, with
   proofs.
7. `Requests` - the way of a request through middleware and dependencies, and the
   pool. **Done**, with proofs.
8. Left: the image links of inspection steps.

## Conventions

*Requests* are slots: a request in flight is a record in `req` that holds its
local variables and `pc`, the statement it runs next. An action is one statement
together with the code that runs up to the next statement. Statements that only
write inside a transaction are merged into the commit that publishes them where
no lock they take matters; where it does, `pc` says which rows the request holds.

*`Null`* is SQL's NULL.

*`serial`* is a rigid Boolean: chosen in `Init`, changed by no action. When it is
TRUE, clients take turns on the same object (what that means is the operator
`Alone` of each module); when it is FALSE, nothing is assumed. One run therefore
covers both: a property `P` is claimed for every interleaving, and `serial => P`
for the interleavings the application was designed for. The properties that
hold only with turns are exactly the places where the code checks and then acts
without a lock: such a property says that the check is right, not that the race is
excluded. Some of those races have a run that shows them (`refresh_race`, `group_cycle`,
`claim_race`, `aggregate_steal`); the others are described with their modules ("Without
turns").

*Clocks.* Expiry is compared with ticks (`RefreshTokens`) or days
(`PlantClaims`, claims expire at midnight UTC). Versions
(`server_modified_at`) are the order in which requests read the clock: two
requests never read the same millisecond.

*Crashes.* `Crash(r)` (`End(c)`, `EndPut(c)`, `CutOff(k)`) ends a request at any
statement: an open transaction is rolled back, what autocommit has written stays.

*Mutants.* Operators whose comment begins with "Mutant:" are plausible wrong
versions of the operator after them; no specification uses them. `PROJECT.json`
says which property each one must break.

*Deadlock.* The runs say `CHECK_DEADLOCK FALSE`: the clients may all stop, and
the bounds stop them. That requests do not wait for each other for ever is a
property of its own (`NoStandstill`, `RequestsFinish`).

## RefreshTokens

| TLA+ | code |
|---|---|
| `tokens` | `lesiv.tokens`; a row's place in the sequence stands for its id, its secret string and the string's hash |
| `session` (auxiliary) | the token issued with a password from which a row descends |
| `password` | `inspector.password_hash`, counted |
| `known` | refresh tokens that reached a client |
| `LoginRead`, `InsertToken` | `AuthService.login` (two autocommitted statements) |
| `RefreshRead`, `RefreshRotate` | `AuthService.refresh`: the read and the branches; INSERT and UPDATE, published at the commit |
| `RecoverHop` | one turn of the loop in `_recover_refresh` |
| `ReuseDetected`, `RevokeChain` | `revoke_token_chain`: the CTEs choose the rows, then the UPDATE writes them |
| `Back`, `Root`, `Forward`, `Chain` | its two recursive CTEs, each as the least set that is closed under the join, and what they give the UPDATE |
| `PasswordRead`, `PasswordUpdate`, `RevokeAll`, `RevokeChosen`, `InsertToken` | `change_password`, four statements, each committed by itself |
| `Respond` | the response arrives or is lost |

*Fairness.* `WF_vars(Serve(r))` for each slot: the event loop runs every handler
that is ready, and asyncpg, the driver this module is about, ends every statement
after `command_timeout`, so an accepted request gets its next step. Sending, crashing and the clock are not fair. `RequestsFinish` rests on
it; it fails if a loop can go on for ever or a statement can be retried for ever.

*Bounds of the run.* One inspector with one device, two requests at a time, four
tokens, two passwords, three ticks, tokens that live two ticks and are
recoverable for one. Four tokens are the least that hold a session of three
(a rotation overwritten by a race, and its successor) beside a second session;
three ticks reach both edges, the end of the recovery window and the expiry, with
one tick to spare. Two requests are enough for every race of the module, since
each one is between two writers. Symmetry is not used (the run checks liveness).

*What it shows.* In every interleaving, racing rotations included: links lead to
younger tokens of the same session and no token has two predecessors
(`RotationForest`), what recovery reads is consistent (`RecoveryMaterial`), a
refresh never answers with a token of another session or with the one it was
given (`AnswerStaysInSession`), and every accepted request ends (`RequestsFinish`). With turns: one live token
per session (`SingleLiveToken`), a lost answer costs nobody the session
(`RetryKeepsSession`), reuse and password changes end the sessions they are
about (`ReuseEndsSession`, `PasswordChangeEndsSessions`), a rotation is final
(`RotationIsFinal`). All of it together is `ActsAsRegister`, a refinement:
`SessionRegister` knows no links, deadlines, ciphertexts or recursive queries, only
sessions with a current token, which is handed over by a rotation (`Pass`), given
again to a client that missed an answer (`Remind`), or gone for good, for a
whole session (`End`) or all of an inspector's (`EndAll`). The rows a rotation
publishes in one commit are one step there; a hop of the recovery loop is none,
except the last; and no token is taken from a client to which it is still on its
way.

*Where code and documents differ* (`refresh_race`). `plans/auth.md` promises that
of two simultaneous refreshes only one rotates. `revoke_and_replace` does not look
at the state of the row, so both do: the second overwrites link, deadline and
ciphertext of the first, and the first replacement stays live but is no longer
on the chain that `revoke_token_chain` walks.

*Without turns* the properties about password changes and reuse fail as well:
`routers/auth.py:105` "revokes all existing tokens", but the UPDATE chooses rows before it
writes them, and a rotation that commits in between leaves its new token, and the
session, alive. The answer to reuse has the same gap.

## PlantGroups

| TLA+ | code |
|---|---|
| `parent`, `modified`, `member` | `plant_group.parent_id`, `.server_modified_at`, `plant_group_membership`, committed |
| `SaveRead` | `save`: `get_by_id`, optimistic lock, self-reference guard, the clock |
| `CheckCycle` | `_check_cyclic_dependency`; skipped if the group had no row when it was read |
| `UpsertGroup` | `upsert_group`; takes the row lock, the foreign key looks up the parent |
| `SyncRead`, `CheckPlant`, `RemovePlant`, `AddPlant` | `_sync_plant_ids`, a statement each; the loops run over sets, so in any order |
| `Commit` | the end of `async with transaction` |
| `DeadlockAbort` | PostgreSQL aborts one of the saves that wait in a circle |

`Ancestors(p)` is what the recursive CTE returns: the rows in every set that
contains `p` and is closed under `parent`. `Endless(p)` says that the CTE, which
uses UNION ALL, would not end: with asyncpg the statement times out and the handler
answers 400; psycopg2 has no timeout, and there it would not answer.

*Turns*: saves in flight concern different groups and plants, and at most one of
them sets a parent.

*Bounds of the run.* Three groups, two plants, two saves in flight, three saves
in all. A cycle of three groups needs three saves; a lock cycle needs two plants
and two saves; a move needs two groups and one plant. Symmetry over
groups, plants and slots (no action names one; the run has no liveness).

*What it shows.* With turns the tree stays a forest (`TurnsKeepForest`), a commit
leaves the group with the plants it was asked for (`SavedAsAsked`), plants change
groups only with `move_plants` (`NoSilentMove`), and an unforced save overwrites
only what its client had seen, with a later version (`VersionsChecked`). In every
interleaving, whatever rows saves move in whatever order, one of them can go on
(`NoStandstill`): circles of lock waits are possible, and the deadlock detector is
what resolves them.

*Where code and documents differ.* `group_cycle`: the router "prevents cyclic
dependencies", but two saves that run together can each pass the check on rows
committed so far and close a cycle; a group that has no row yet is not checked
at all. `group_version`: a test says that a group whose members change shows up
in `modified_since`; a move takes the plant from a group whose version stays.

*Without turns* `NoSilentMove` and `VersionsChecked` fail: a plant of another group is a
400 without `move_plants` (`routers/plant_group.py:69`), but of two saves with the same free
plant both find it free, and the later upsert moves it.

## PlantClaims and PlantRegister

| TLA+ | code |
|---|---|
| `plant`, `facility`, `access` | `plant` (version, creator, claim), `facility`, `inspector_plant_access` |
| `ClaimRead`, `ClaimWrite` | `claim`: read and decide; `claim_plant`, an unconditional UPDATE |
| `ReleaseRead`, `ReleaseWrite` | `release_plant`: access check; the UPDATE |
| `SaveRead`, `OwnerCheck`, `VersionCheck` | PUT: access, `validate_plant_ownership`, optimistic lock; each reads the plant again |
| `UpsertPlant`, `SyncRead`, `Commit` | `upsert_plant` takes the row lock; `_sync_facilities`; grants; the commit |
| `NewDay` | midnight UTC |

*Turns*: requests in flight concern different plants and facilities. Claims may
expire between the steps of a request all the same.

*Bounds of the run.* An internal and an external inspector, two devices, two
plants, one facility, two requests in flight, three versions, two days. A race for
a claim needs two users on one plant and two versions after the plant's creation;
a facility changing owner needs two plants. Symmetry over devices, plants,
facilities and slots.

*What it shows.* In every interleaving, also when two clients create the same
plant: the creator of a plant and the plant of a facility never change
(`OriginsStay`), creator and internal inspectors have access from the first moment
(`AccessFollowsCreation`). With turns: a claim passes to another user only
when it is stale or released (`ClaimExclusive`), the device that saves holds the
claim when its save is published (`OnlyClaimantSaves`), unforced saves lose
nothing (`NothingLost`), every change raises the version (`ChangesVersioned`).
All of it together is `ActsAsRegister`, a refinement: `PlantRegister` knows no
statements, row locks, re-reads or rows marked as deleted, only plants with a
version, a holder and facilities. A request in flight is `asked`, and takes effect
in one step, in which everything the code has decided before still holds. The
register adds what a save leaves behind: exactly the facilities its body keeps,
with `force` or without.

*Where code and documents differ* (`claim_race`). `claim_plant` "returns 409 if
plant is claimed by another user": two claims that read the free plant both
succeed, and the later UPDATE takes over the earlier claim.

*Without turns* the checks of a save protect less than `routers/plant.py` and
`plans/api-design.md` say, since they read rows nobody has locked. "Only the user who
claimed the plant can modify it", but a claim that is released after `OwnerCheck` stops
nothing. A version that does not match is rejected with 409, but the one `VersionCheck`
compares may have been replaced when the save writes, and what replaced it is
overwritten. A save without `force` is rejected if the server has extra facilities, but
one that is added after the check is deleted by `Commit`. These are `OnlyClaimantSaves`
and `NothingLost` without `serial`; TLC finds each trace on the instance of `claim_race`.

## Aggregates and AggregateRegister

| TLA+ | code |
|---|---|
| `kind` (rigid) | which of the six tables the behaviour is about |
| `row`, `part` | the table of the aggregates (version, owner) and that of their children (where each is, and whether it is marked as deleted) |
| `holder` | `plant.claimed_by_device_id`, as far as `validate_equipment_ownership` looks |
| `copy`, `since` | what each client has, and the latest version it has pulled |
| `PutEquipment` ... `PutSticker` | the routers: level, access, the body |
| `EquipmentOwnership`, `InspectionOwnership`, `WorkLogOwnership`, `NoOwnership` | `OwnershipValidator`, or its absence |
| `Check` | `save` up to the clock: `get_by_id`, version, extra children |
| `Upsert`, `UpsertOnly` | `upsert_*`, which takes the row lock |
| `ReadParents`, `Publish(Synced)` | `_sync_control_points`, `_sync_steps`; writes are published at the commit |
| `SyncInspectors` | `_sync_inspectors`, which removes with or without `force` |
| `SaveSticker` | INSERT ... ON CONFLICT DO NOTHING and the comparison |
| `PullRows`, `PullChildren` | GET by plant: two statements |
| `End` | a refused request is over; any other rolls back |

One save is one row of the aggregate's table; what a work log's `inspector_id` is to
`WorkLogOwnership` are the fields of a sticker installation that no save may change
(`immutable_fields`; its `installed_at` is not compared). Merged into one step are statements between which nothing can be told
apart: `get_by_id` and the clock; the upserts of children and the commit that
publishes them. GET by id is a pull of one aggregate, and left out. That a client
asks with the latest version it has pulled is an assumption about the app: the
service takes any `modified_since`. With `require_auth` off every caller is
anonymous. `validate_equipment_ownership` lets a save pass if it finds no plant;
here the plant, and whatever an aggregate hangs on, is there.

*Turns* (`MayTurn`): one save at a time, and claims pass only in between; pulls run
at any moment.

*Bounds of the run.* All six kinds, two clients with access and level, two
aggregates, one child, two versions. Stealing needs two aggregates and one child;
a missed row needs two rows, two versions and a pull; a child removed needs two
saves of one aggregate. Symmetry over clients, aggregates and children (no action
names one; the run has no liveness). Levels and membership, which decide only
whether a PUT is heard, are constants, and the proofs speak of all their values.

*What it shows.* In every interleaving: a forced save leaves exactly the live
children it sent, because the upsert of the row comes first and keeps other saves
of the aggregate out until the commit (`ForcedSaveIsWhole`), and a sticker
installation never changes and a PUT succeeds only for what is there, so a PUT can
be repeated (`FirstStickerStays`). With turns: a client that asks for what is newer
than all it has misses nothing (`NothingMissed`), although a pull reads rows
and children apart its copies are whole where they are current
(`CopiesAreWhole`), only its owner changes a work log (`OwnerKeepsWorkLog`) and only
the claimant equipment (`ClaimedSave`). All of it together is
`ActsAsRegister`, a refinement: `AggregateRegister` knows no rows, children tables or
statements, only registers that are replaced as a whole by clients that know what
they replace; a request in flight is `asked`, a client's copy is `known`, and a PUT
is one step, that of its commit.

Without turns `NothingMissed` fails: a save that has read the clock commits after a
later one was pulled, and stays unseen until its next change. `OwnerKeepsWorkLog` and
`ClaimedSave` fail too: owner and claim are checked on rows nobody has locked, and
"only the user who claimed the parent plant can modify equipment"
(`routers/equipment.py:108`) stops no save whose claim passes to another device after
the check.

*Where code and documents differ.* `aggregate_steal`: the routers "never allow
stealing child entities", but of two saves with the same new child each finds it
free, and the later upsert takes it (`equipment_id = EXCLUDED.equipment_id`).
`aggregate_force`: `force=true` "marks extra child entities as deleted", but for
inspections the ownership check refuses a body without them first, whatever
`force` says. The tests of `force` run without authentication (`tests/conftest.py`),
where that check is skipped.

## ImageUpload

| TLA+ | code |
|---|---|
| `driver` (rigid) | `settings.db_driver` |
| `row` | `lesiv.image`: version, `upload_status`, `server_uploaded_at` |
| `Put`, `Upsert`, `Commit`, `EndPut` | `upsert_image`: checks and clock; the statement that takes the row lock; commit, then the URL; failure |
| `GetUploadUrl`, `UrlGiven` | `get_upload_url`, `generate_upload_presigned_url` |
| `issued`, `pending`, `stored` (external) | the object storage: which uploads are possible, what it has to report, what was uploaded |
| `Deliver` | a call with a batch of events |
| `Skip`, `Update`, `Fail...`, `Answer` | the loop of `handle_s3_upload_callback` and its answer |
| `CommitCall` | the exit code of `get_db_connection`, after the answer is sent |
| `lost` (auxiliary) | events whose handling failed after which the storage was told "processed" |

With asyncpg every UPDATE of a call commits by itself and failures concern one
event. With psycopg2 the call is one transaction: it keeps its rows until the end,
two calls may wait for each other (`FailsDeadlocked`), and a failing statement takes
the others with it (`FailsAborted`).

*Fairness.* Weak fairness of the steps of a PUT and of a call once it has begun
(the event loop; the waits for rows end because those who hold them commit, fail or
are found in a deadlock; with asyncpg `command_timeout` ends a statement at the latest,
psycopg2 has none and depends on PostgreSQL to answer), and of delivery as a whole:
the storage delivers what was not answered. Clients and uploads are not fair.

*Bounds of the run.* Two images, one client, two calls, two events, two versions,
one failure, both drivers. A deadlock needs two images, two calls and two events; a
save racing a callback needs two versions. One client can have its save under way
beside both calls; what several clients do to each other's saves is nothing but to wait,
and `StatusNeverBack` and `UploadedMeansStored` are proved for any number of them.

*What it shows.* UPLOADED stands for a file that was stored
(`UploadedMeansStored`), no save, forced or not, takes it back (`StatusNeverBack`), and
an image whose file was stored becomes UPLOADED, whatever the order and the number
of deliveries, unless the handling of one of its events failed (`UploadReported`). The
last rests on the URL being given only after the commit: the row is there before
the first event can be. The exception is real: the callback catches every error
and answers "processed", and nothing delivers such an event again.
An event that is not `ObjectCreate`, or whose moment or id does not parse, is skipped by
itself (`Skipped`); a payload of another form is refused as a whole (422) and left out.

*Locks.* An upsert waits for every uncommitted write of its id, an UPDATE only for writers
of a row that is there (`FreeForUpsert`, `FreeForUpdate`): an event that overtakes the
INSERT of its image marks nothing.

*Where code and documents differ.* The migration that adds `server_uploaded_at` says that
it "records when the S3 upload event was received"
(`db/migrations/V8__add_upload_status_to_image.sql:3`). The callback stores the moment of
creation the event names (`routers/image.py:235-249`), and of several events that of the
one handled last: two events handled in reverse order set the column back, as a moment
of receipt never would be. So no property checked is about this column: `UploadedMeansStored`
and `UploadReported` speak of `upload_status` only.

## Requests

| TLA+ | code |
|---|---|
| `free`, `Take` | the pool: `acquire` waits, `getconn` raises when it is empty |
| `Arrive` | headers as the middleware and as the dependencies read them; routes the middleware lets through |
| `TakeFront`, `Verify`, `VerifyFails` | `AuthMiddleware.dispatch`: `async for conn in get_db_connection()`, look-up, `break` |
| `CloseFront` | the generator the `break` left behind, closed by the event loop in a task of its own |
| `Enter`, `ReadPayload`, `Validator` | `get_token_payload`, before anything else in a claim, after the user in a save |
| `TakeBack`, `Authenticate` | the one `get_db_connection` of a request and `get_current_user` |
| `Run`, `Exit` | the handler; the exit code of `get_db_connection` |
| `Expire`, `Remove` (external) | time; an administrator |

A look-up (verification and query) is one step, and a token nobody reads is
left out. FastAPI caches dependencies: a request has one connection of its own,
and that of the middleware beside it as long as its generator is open.

*Fairness.* Weak fairness of each request's next step and of closing its
generator, for a finite burst: each slot carries one request. A statement ends, with
asyncpg by `command_timeout` at the latest, with psycopg2 because PostgreSQL answers. The pool is not fair to
those who wait when newcomers come, so an endless stream might starve a
request; what is shown is that requests cannot stop one another for good.

*Bounds of the run.* Two requests of any of seven routes, a pool of two, one
inspector, an access token and the storage's keys, all settings and both drivers.
Two requests that each hold one connection and want another are the smallest
circle; a mutant that keeps the middleware's connection during the handler closes it.

*What it shows.* However tokens expire and inspectors go on the way: with
`require_auth` a handler runs only for a caller that was known, and a claim or a
save carries the device of the user whose rights were checked (`KnownServed`),
although middleware, payload and user are read at different moments and from
headers read in different ways. No connection is given back twice (`TypeOK`), all come
back, and every request ends (`SettlesDown`).
With `require_auth` off, payload and user of a request may differ.

## What is proved

The eight modules `...Proofs` hold proofs that TLAPS checks, for any values of the
constants: any number of inspectors, devices, groups, plants, facilities,
aggregates, children, images, calls and requests in flight, pools of any size, and
whatever the bounds on tokens, saves and days are. They rest on the named assumptions
of the modules only: that `Null` is no identifier, that internal users are users,
that levels, lifetimes and bounds are natural numbers, that a burst of requests is
finite and the pool not empty.

Each model has one inductive invariant `IInv`; TLC has confirmed it on the
instances above before it was proved. The theorems about properties
follow from it. `RefreshTokens` has a second one, `TurnInv`, on top of it.

**RefreshTokens** - `TypeCorrect`, `LinksFormForest`, `MaterialConsistent`,
`RecoveryGoesForward`, `AnswersStayInSession`, in every interleaving. A forest of
links is not inductive alone: that `revoke_and_replace` may overwrite a link
without harm rests on the new token having no predecessor, because it is the
youngest; that the tokens a request holds (the one presented, those visited, the
link and ciphertext in hand) agree with each other although the rows may have
changed since rests on links only ever being replaced by links to younger tokens
of the same session.

**RefreshTokens, with turns** (`RefreshTurnsProofs`) - `SingleLive`, `RetriesKept`,
`ReuseEnds`, `PasswordEnds`, `RotationsFinal`: every property of the run `refresh`
that needs turns. `TurnInv` says of the table that a session is one chain
(`Chained`) with at most one live token (`OneLive`), and that a revoked token with
nothing to recover means its session is over (`Spent`); of each request, what it
has made sure of about the rows it is about (`Secured` of `Foot`: a refresh's
session, a password change's inspector). Two requests in their turns are about
different rows (`Elsewhere`), so the one's step leaves the other's knowledge alone
(`SecuredLasts`), and each action has only its own request to answer for
(`OneTurn`). `ChainIsSession` shows that the two CTEs return exactly the session: going
back ends at a token without predecessor, by the least member of what is reached
(`LeastMember`), and going forward leaves no youngest-missing token out. That
recovery never turns a retry down while the session lives needs `Spent`, and that
younger tokens expire later (`Origins`).

**Sessions as a register** (`RefreshSessionsProofs`) - `Refinement`: while clients
take turns every step of `RefreshTokens` is a step of `SessionRegister` or
changes nothing it sees; `EndedForGood`: a session without a live token stays
without. Beyond `TurnInv` this needs `GivenInv`: a refresh presents a token its
client has (`Given`), and the session a login has started is its one live token,
which nobody else has (`Fresh`). It follows that what is on its way to a client is
current (`AnswersCurrent`), before and after each step; so the rows a request
revokes are in nobody's answer, which is `Settled` of the register.

**PlantGroups** - `TypeCorrect` and `NoneStuck` in every interleaving; `ForestKept`,
`CheckEnds`, `VersionsGrow`, `BodyPublished`, `MovesAsked` while saves take turns. For the
forest the invariant keeps, from the cycle check to the commit, a set of groups
that is closed under `parent`, holds the new parent and not the group
(`Checked`). That a group without a row needs no check follows from the foreign
key: nothing has it as its parent, so all other groups are such a set. Saves
that only clear a parent keep the set closed; one more save that sets a parent
may not, which is what the run `group_cycle` shows. `MoveKeepsForest` concludes.
`CheckIsExact` is about the query itself: on a forest, a group stays off every
cycle with its new parent if and only if the query does not return it, so the
check neither lets a cycle pass nor refuses a move without need. `NoneStuck`
rests on a save waiting only for saves in flight (`WaitsForBusy`): nobody who is
done keeps a lock. `Synced` says how far the three loops of `_sync_plant_ids` are.

**PlantClaims** - `TypeCorrect`, `AccessGranted` and `OriginsKept` in every
interleaving; `ClaimRespected`, `ClaimantSaves`, `UnseenKept`, `VersionsGrow` and
`Refinement` with turns: all properties of the run `plant_claims`. `Fields` holds
what the code secures for good (a plant once read does not disappear, what
`_sync_facilities` has read stays a facility of the plant, who creates a plant is a
user); `Ours` holds what the checks have established and only turns preserve (the
claim, the version, the facilities listed, and that at the commit the list
`_sync_facilities` has read still names every facility of the plant: without it a
forced save could leave one alive that its body does not name). The refinement has
one lemma for each question a client asks and for each commit.

**Aggregates** - `TypeCorrect`, `ForcedWhole` and `StickerKept` in every
interleaving; `NoneMissed`, `WholeCopies`, `OwnerKept` and `ClaimantWrites` with turns;
and `Refinement`: with the optimistic lock on, every behaviour whose saves take
turns is one of `AggregateRegister`. `Locks` and `Fields` carry the first group (who
writes children holds the row, and has listed all children there are). For pulls
the invariant says what a pull in flight has read of each aggregate (`Pulled`):
it is still so, or the aggregate was not new, or it was saved since with a
version later than all the pull has read. The last case is why the client
will ask for it next time, and why a copy with old row and new children cannot pass
for the new version. `Checked` keeps what a save has established until its commit.

**ImageUpload** - `TypeCorrect`, `UploadedWasStored`, `StatusKept`. The invariant follows
an event from the storage through batch and uncommitted transaction to the row; it keeps
more than `UploadedWasStored` says, namely that the moment in the row is that of some
upload (`Moments`).
`NoneForgotten` is the way back, and all of `UploadReported` but the fairness: the
event of a file that was stored is in its row, with the storage, in an answered call
that is about to commit, or among those whose handling failed. It needs a second
invariant, `Follow`: what the loop has passed in its batch has its row or its mark
(`Dealt`), and every file belongs to a row that is there (`Rooted`), so no UPDATE misses.

**Requests** - `TypeCorrect`, `OnlyKnownServed`. The first needs counting: free
connections, those held in the middleware and those held in handlers add up to the
pool (`Conserved`), so a connection that is given back was held. The second
remembers that payload and user come from the same token. `NoneStuck` and
`ForwardOnly` are all of `SettlesDown` but the fairness: as long as a request that
has arrived is not answered, one of them can go on without waiting, whatever the
pool's size, and every step brings its request nearer to its end.

## What is only model-checked

Liveness under fairness (`RequestsFinish`, `UploadReported`, `SettlesDown`) is out
of the prover's reach, and with it the last step from what is proved of them
(`RecoveryGoesForward`; `NoneForgotten`; `NoneStuck` and `ForwardOnly`) to the
properties. Every other property of the passing runs is a theorem.
`NoStandstill` says in terms of locks, not of ENABLED, who can go on, so that it
could be proved.

## What is not modelled

- The image links of inspection steps: rows that are synchronised like steps, with
  no check of whose they are; pulls of plants, groups and images, which use the same
  condition on `server_modified_at` as those of the aggregates.
- The formats of tokens and headers, keys and signatures: `Requests` keeps what they
  decide. The other modules begin with requests whose caller is known.
- Access levels in `PlantClaims` and `PlantGroups`: their requests are those of
  inspectors whose level allows changes; others get a 403 before anything is read.
- The psycopg2 path of sessions and saves: one implicit transaction spans a login
  or a password change there, which leaves fewer interleavings than the
  asyncpg path that is modelled. It is modelled where it has more: in
  `ImageUpload` and in the pool of `Requests`. In a serverless process requests
  come one at a time; the modules let them run together all the same.
- Creation and closing of the pools, and two first requests that race to create one.
- Inspectors whose account is deleted: the query for the inspectors of a work log
  (`queries/work_log.sql:20-26`) leaves them out, so such a child is neither pulled nor
  removed by a save. In `Aggregates` accounts stay.
- An aggregate saved before what it hangs on (no foreign key forbids it): see the
  hazard at `queries/equipment.sql:15`.
- Client logs (rows nothing reads), dictionaries (read only), the application
  shell (start-up, configuration, logging), operators' scripts, and methods nothing
  calls (`delete` of several repositories).
- Names, texts, coordinates and other payloads; wording and layout of answers;
  `is_deleted` of groups, plants and aggregates, which no check of these modules
  looks at.
- Two requests that read the same millisecond as their version (see the hazard at
  `db_utils.py:35`).
