# pyxle-plugins: a TLA+ verification project

The repository holds three plugins of the Pyxle web framework: `pyxle-db`
(database access on sqlite, PostgreSQL and MySQL, with migrations and a
request-scoped transaction), `pyxle-auth` (accounts, sessions, tokens, roles,
OAuth) and `pyxle-mail`. This directory models the parts of them where processes,
threads and coroutines meet on shared state, checks the models with TLC and
proves the central results with TLAPS.

    tlc -config migrator_sqlite.cfg MCMigrator     # one run; runs are in PROJECT.json
    tlapm Migrator_proofs.tla                      # one proof module

Paths below are relative to `src/packages/`.

## The system

| Part | State | Operations | Talks to |
|---|---|---|---|
| `pyxle_db/database.py` facade | `_connected`, a connect lock, a counter | `connect`, `execute`, `fetch*`, `transaction`, `aclose`, `close` | one backend |
| `pyxle_db/backends/sqlite.py` | list of connections, generation, one cached connection per thread; or one `:memory:` connection and an RLock | one-shot statements, `executemany`, transactions, `sync_transaction`, `close_sync` | threads (`asyncio.to_thread`), the file |
| `pyxle_db/backends/postgresql.py`, `mysql.py` | a lazily created driver pool | the same, with savepoints | asyncpg, asyncmy |
| `pyxle_db/migrator.py` | the tracking table, a directory of files | `discover`, `apply_all`, `status` | the facade, other processes that migrate the same database |
| `pyxle_db/middleware.py`, `autotx.py` | per request: `_tx`, `_tx_ctx`, the manual flag, the watched response | ASGI `__call__`, proxied queries, commit or rollback | facade, ORM session, the application and the tasks it spawns |
| `pyxle_db/plugin.py`, `orm/`, `cli/` | engine and session factory | start-up, shutdown, Alembic | all of the above |
| `pyxle_db/sql.py`, `url.py`, `rows.py`, `errors.py` | none | splitting and translation of SQL, parsing, value types | |
| `pyxle_auth/service.py` | tables `users`, `sessions` | sign up, sign in, resolve, change and reset a password, confirm an e-mail | `tokens.py`, `ratelimit.py` |
| `pyxle_auth/tokens.py`, `ratelimit.py`, `api_tokens.py`, `rbac.py` | one or two tables each | issue/consume, count/reset, create/resolve/revoke, define/grant | facade |
| `pyxle_auth/jwt_tokens.py` | `jwt_refresh_tokens` | `issue_pair`, `refresh`, `revoke_family`, `revoke_all_for_user` | facade |
| `pyxle_auth/oauth/` | `oauth_identities`, a signed state cookie | start, callback, account resolution | providers, `service.py` |
| `pyxle_auth/middleware.py`, `guards.py`, `settings.py`, `plugin.py` | per-request user | authentication of a request, checks, start-up | the services |
| `pyxle_mail/` | none between calls | `send` through smtp, Resend or the console | the provider |

What makes the system hard:

* **Several processes, one database.** Every worker migrates at start-up. The scan
  for pending files is outside any lock, the lock differs per dialect, and on
  MySQL a DDL statement commits by itself.
* **Await points.** The unit of work, the pools and the facade test a field, await,
  and assign it.
* **Threads under coroutines.** A sqlite statement runs in a thread that a
  cancellation of the coroutine does not stop.
* **Several statements, no transaction.** The refresh of a JWT, the password
  change and OAuth linking read and then write in separate commits.
* **Partial failure.** A commit may fail, its reply may be lost, a worker may die.

What correctness means for each part:

* migrator: a migration takes effect once, as a whole, in order, from one content;
  a call that returns has all its files recorded; workers racing at start-up all
  come up.
* request unit of work: nothing of a failed response is durable, everything of a
  successful one is, and no transaction or session outlives the request.
* sqlite connections: `close_sync` misses no connection, a transaction has its
  connection to itself, a lock is always given back, calls end.
* refresh tokens: one successor per token, one usable token per family, a
  revocation is final.
* accounts and their tokens: a link is redeemed once, a change of password is final,
  of one caller's links the newest alone is live.
* sessions: a request acts only as somebody its credentials stood for when it
  arrived; a session never outlives its absolute age.
* limits: no attempt beyond a bucket's limit, no owner locked out by others'
  guesses, no API token beyond the cap; a deleted role has no holder.
* OAuth: a browser finishes only its own flow, an identity reaches only an account
  whose address was verified for it.
* server pools: no pool is left open unknown to the backend, no connection stays
  with a call that has ended, and none goes back with a transaction nobody tried to end.
* start-up: what a worker serves has its schema, no account or session is lost,
  repeated starts change nothing.
* SQL text: the driver reads what was written; a script is cut where its server
  would cut it.

## The modules

| Module | Models | Checked by | Proofs |
|---|---|---|---|
| `MigrationHistory` | what the migrator promises: a file's statements and its tracking row appear in one atomic step (`Spec`), or at least never before the earlier files (`LogSpec`) | refinement | |
| `Migrator` | `migrator.py`, `apply_all` by several processes | `MCMigrator`: `migrator_*` | `Migrator_proofs` |
| `RequestUnitOfWork` | `middleware.py`, `autotx.py` of pyxle-db, one request and its tasks | `MCRequestUnitOfWork`: `request` | `RequestUnitOfWork_proofs` |
| `SqliteConnections` | `backends/sqlite.py` on a file | `MCSqliteConnections`: `sqlite_*` | `SqliteConnections_proofs` |
| `ServerPools` | `database.py`, `backends/postgresql.py`, `backends/mysql.py`, `backends/base.py` | `MCServerPools`: `server_pools` | `ServerPools_proofs` |
| `SqlText` | `sql.py` | `MCServerPools`: `server_pools` | |
| `RefreshChains` | what rotation promises: a family goes from token to token one at a time | refinement | |
| `JwtRefresh` | refresh tokens of `jwt_tokens.py` | `MCCredentials`: `credentials`; `MCJwtRefresh`: `jwt_reuse` | `JwtRefresh_proofs` |
| `SingleUseLinks` | what `tokens.py` promises: issue, redemption and sweep of a link are single steps | refinement | |
| `Accounts` | `service.py` and `tokens.py`: passwords, sessions' rows, single-use tokens | `MCCredentials`: `credentials` | `Credentials_proofs` |
| `Credentials` | the sum of `JwtRefresh` and `Accounts` | the same | the same |
| `Sessions` | `middleware.py` and `guards.py` of pyxle-auth, `resolve_session`, cookies and access tokens | `MCSessions`: `sessions` | `Sessions_proofs` |
| `RateLimiter` | `ratelimit.py` and what `service.py` charges | `MCAuthServices`: `auth_services` | `AuthServices_proofs` |
| `TokenAllowance` | what `api_tokens.py` promises: a token is granted in one step below the cap, and withdrawn for good | refinement | |
| `ApiTokens` | `api_tokens.py` | the same | the same |
| `Roles` | `rbac.py` | the same | the same |
| `OAuthSignIn` | `oauth/service.py`, `oauth/routes.py` and the state cookie | the same | the same |
| `Startup` | both `plugin.py`, every `ensure_schema`, the auth migrations | the same; `MCStartup`: `auth_upgrade` | the same |
| `AuthServices` | the sum of the five above | `MCAuthServices`: `auth_services` | the same |

Modules of components that share no table are checked several to a run:
`Credentials`, `AuthServices` and `MCServerPools` are sums. A behaviour is of one
of their modules, chosen in the initial state by `side` or `service`; the variables of
the others do not change. So each module is explored in full and the runs add up
their states, where a product would multiply them. What couples two components at
run time is modelled where it is used: the Migrator's lock and its two tracking
tables as one atomic step per migration in `Startup`, the permission check of `Roles`
as a yes or a 403 in `Sessions`, the rate limit's refusal as a call that changes
nothing in `Accounts`, the commit or rollback of a session in `RequestUnitOfWork`.

Definitions whose comment begins with "Mutant" are faulty variants of the
definition that follows them; no specification uses them. Replacing the
definition by its variant makes TLC report the property it is paired with in
PROJECT.json, which shows that the property depends on that line of the code.

### Migrator

A step is one database round trip. `Call` is `discover()`: the directory is read once
per call and may differ between processes and calls (a deployment that adds or edits a
file). `LoadApplied` is the scan with its checks for drifted and vanished files.
`CreateTable` is its first statement, `CREATE TABLE IF NOT EXISTS`, outside the busy
retry: a sqlite connection whose schema lacks the table (`blind`) needs the write lock
for it, and `LockedOut` is the "database is locked" of a worker that finds it taken
for longer than the busy timeout. `Begin`, `BusyTimeout`, `Wake` and `AcquireLock` are
the three lock protocols. `Recheck`, `RunStatement`, `InsertRow` and `Commit` are
`_apply_in_transaction`; `Release` is the MySQL guard transaction; `Resolve` is
`_resolve_tracking_conflict`. `Settle` is the loop of `apply_all`: what each outcome
of `_apply_one` makes of the rest of the work list. Checksums are the contents
themselves; `effects` counts the durable runs of each statement of each content.
Faults are a failing statement, a lost COMMIT reply, a dropped guard connection and a
crash. `GET_LOCK` that times out is issued again, so the process stays where it is.

`MigrationHistory` is the abstract specification, and `History == INSTANCE
MigrationHistory WITH tracked <- tracked, effects <- effects` the refinement
mapping: lock, work list, attempts and faults are hidden. `ImplementsHistory` is
`History!Spec`, in which every step applies one file as a whole, after the earlier
ones of its directory. That is too much to ask of MySQL, where a DDL statement takes
effect by itself and two processes may run one script once a guard connection is
lost. `ImplementsLog` is `History!LogSpec`: statements take effect one by one and
perhaps twice, but still after the earlier files are recorded, and a row comes once
and means the whole script.

### RequestUnitOfWork

`Main` produces the response; the other tasks are the ones it spawned, for
instance with `asyncio.gather`, and may outlive it. `StartOpening` is
`_executor` up to its await: it stores a new context in `_tx_ctx` and enters it.
`FinishOpening` assigns `_tx`. `SendStart` and `SendFinal` are what `send_wrapper` sees,
`FinishUow`, `FinishSession` and `Escape` the end of `__call__`. `SingleWriter` makes
an opening wait, or time out, while another writer is open, as `BEGIN IMMEDIATE`
does.

### SqliteConnections

`call[k]` is the job a coroutine awaits; `PickUp` is a pool thread taking it from the
queue; then the thread goes through `_thread_connection` or `_begin_file_transaction`
one lock or driver call at a time (`Lease`, `Open`, `Track`, `Cache`, `Begin`, `Work`,
`Commit`, `Finish`, `Discard`). `Cancel` drops the coroutine's interest in the job: a
queued job disappears, a running one goes on. `CloseSwap` and `CloseOne` are
`close_sync`. Handles are numbers, and a fresh one is the least that nothing refers
to. `sync_transaction` blocks the thread that calls it, so it is a job like the
others. A `connect` whose PRAGMA fails is a failed `Open`: the handle is neither
recorded nor cached, and the interpreter closes it with the frame. What the statements
read and write is left out: the properties speak of which connection is in a
transaction.

### ServerPools

A call is a one-shot statement or a transaction of the `Database`. `Enter` is
`Database.connect`'s first look at its flag, `TakeFacade` its lock with the second
look; `FindPool`, `TakeLock` and `CreatePool` are `_ensure_pool` with the backend's
own lock. The rest of a call goes through the try blocks of the backend one await at a
time: `Acquire`, then `Start` of a transaction, its body, `Commit` or `Rollback`, and
`Release` in the finally clause. `StartFails`, `BodyFails`, `CommitFails`,
`RollbackFails` and `ReleaseCut` are the same awaits when they raise or are cancelled;
each goes where the `except` and `finally` around it lead, and these differ: MySQL
begins, commits and rolls back inside the try block of its one-shots but commits a
transaction outside, PostgreSQL's one-shots have no transaction of their own (the one
around `executemany` is a context manager of the driver, inside the body). So a failed
COMMIT of a transaction, and on PostgreSQL a BEGIN that is cut, are not rolled back by
the backend but left to the pool, which resets what it takes back. `begun` are the
calls in a transaction that nothing has tried to end; a connection that goes back with
one makes its pool `dirty`. `Return` is the end of a call for its caller.

`Nest` is a transaction whose body makes a one-shot call of the `Database` and waits; a
nested transaction is left out. `AcloseSwap` and `AcloseDrain` are `aclose`: PostgreSQL's
holds the connect lock from the swap to the end of the drain, MySQL's does not. A pool
is a number; past the bound `create_pool` fails. The drivers' pools are external, and what
is assumed of them is: a pool gives out no more connections than its size; once it
is asked to take one back it does, though the caller of `release` is cancelled or gets
an error (`ReleaseCut`, then `TakeBack`; asyncpg shields it, asyncmy's does not await);
closing it waits for those given out; and while it does, whoever already waits for a
connection may be served or refused.

### SqlText

Pure functions over sequences of characters. `RegionEnd` and `Literal` are the scanner
that tells literal text from SQL, `Translate` and `SplitStatements` stand on it. The
behaviours only write a text, piece by piece, so that every text of at most five
pieces of an alphabet is a state. The references are `Lexed`, `Written` (what the
author of a text means) and `Understood` (what driver and server make of the
translation). `Lexed` goes character by character where the code goes region by
region, so that the two agree only if no region is entered, left or skipped at the
wrong place; its rules of what opens and closes a literal are the ones the module's
docstring gives for each dialect. The servers differ from those in places, and there
the model shows nothing: PostgreSQL nests block comments and reads `E''` strings,
MySQL wants white space after `--` and reads backslash escapes. `Meaningful` leaves
out texts with a `?` right after a letter or a `$`, where the digits or the letter
that replace it would join what stands before. `??` on sqlite is left to
`EscapesArePortable`, which is broken (below).

### JwtRefresh

Each SQL statement is a step: `Present` is the SELECT with its checks, `Claim` the
guarded UPDATE, `Issue` the INSERT of the successor, `Burn` the revocation after a
reuse. `Abort` is a crash, a cancellation or an error at any point. `parent`, `burned`
and `settled` are history variables; no action's guard reads them. `RefreshChains`
sees of it which families were started, which tokens were handed out, which of a
family a claim could still win, and whether a rotation is under way (`Chains`). It
allows that a rotation under way outlives a revocation, as `jwt_reuse` shows it does.

### Accounts

A step is one statement, or one transaction that ends with its only write. The
transactions are those of read committed, the weakest isolation of the three backends:
what an UPDATE or DELETE matched is kept in `batch` until the COMMIT.
`VerifyCredentials`, `Rehash`, `OpenSession` are a sign-in; `ChangePassword`,
`SwapHash`, `CommitHash` a change, and `ResetPassword`, `Burn`, `SwapHash`,
`CommitHash` a reset; `Issue` and `Mint` are `TokenService.issue`, `Present` and
`Burn` its `consume`. A password is the number of the choice that made it.
`SingleUseLinks` sees the rows of tokens without what the calls under way have read
(`Links`). `quiet` and `final` are history: a change during which nobody was between
reading a hash and acting on it.

### Sessions

Time is a counter; a request reads it once, in `Arrive`, and its statements run later.
`Resolve`, `Expire`, `Extend` and `Load` are `resolve_session`; `CallGuard`,
`CheckPermission`, `Bearer` and `Fetch` the guards of `guards.py`. `Login`, `Signup`,
`Logout`, `Revoke`, `IssueJwt`, `CreateApiToken`, `RevokeApiToken` and `DeleteUser`
happen beside them; the answer that sets a cookie may be lost, and a client may send
one after its Max-Age (`Sent`). The handler's guard is a parameter of `CallGuard`.
`vouched` is history: the users that a request's credentials stood for when it
arrived.

### RateLimiter, ApiTokens, Roles, OAuthSignIn

One step per statement again, on the servers' interleaving (`Roles` takes `Serial` as
a constant). `RateLimiter` charges the buckets of `verify_credentials`, `sign_up`,
`username_available` and `request_password_reset` in their order (`Buckets`);
`Increment`, `MissRow`, `InsertRow` and `LoseInsert` are `_increment` with its one
retry. An identifier is the sequence of the parts between its colons, since `reset`
matches by prefix; one of the run's two addresses is the other with a colon and a part
added. `begun` is history: the sign-ins begun from an address since a right password
from there reset it, those that had still to charge it included. `OwnerIsHeard`
compares it with the limit when a right password is refused, so that failures from
elsewhere, and those before the last sign-in, can never be the reason, whatever the
resets of others do. `ApiTokens` is `create` with the owner's lock, `resolve` with its
touch, and the revocations; `TokenAllowance` sees of it whose each token is, its
scopes, and whether it is dead (`Allowance`). `Roles` is `define_role` with its lost
INSERT, `delete_role`, `grant_role` and `revoke_role`. In `OAuthSignIn` a flow is its
nonce; `Callback` is reached from whatever URL the browser was sent to; `FindLink` to
`OpenSession` is `_resolve_or_create_user` statement by statement, and `SignUp` and
`DeleteAccount` run beside it. There is one provider, so the comparison of the
cookie's provider with the route's is always equal; whether an address is verified is
what `bool()` makes of the provider's claim.

### Startup

A worker goes through `PyxleDbPlugin.on_startup` and `PyxleAuthPlugin.on_startup`
(`Configure` to `Ready`); `Plan` is the order in which services ensure their tables and
are registered. The database is the set of its tables and indexes and whose rows
are in each; `Migrated` and `Rebuild` are what the four migrations do to it. A
migration is one step: `Migrator` shows that workers apply one at a time and once; on
MySQL, where a crash can cut a script, that is `Migrator`'s matter. A start may find
a new database, one of the release before migration 4, or one that `ensure_schema`
built.

## The runs

### Passing

| Run | Properties | Bounds |
|---|---|---|
| `migrator_sqlite` | `ExactlyOnce ReturnMeansRecorded OneApplier WorkersComeUpClean EveryCallEnds` | 3 processes, 2 migrations, 3 directories, 1 call each, 1 fault, fairness |
| `migrator_postgresql` | `ScriptsDoNotOverlap ImplementsHistory` | 2 processes, 2 statements per script, 2 calls each, 2 faults |
| `migrator_mysql` | `RecordedMeansRun ImplementsLog` | 2 processes, 2 statements, the first of them DDL, 2 faults |
| `request` | `SuccessKeepsWrites HandlerLeavesNothingOpen FailureLeavesNothing TransactionsEnd` | the handler and one task on sqlite, a session, 2 writes, 2 faults, fairness |
| `sqlite_pool` | `NoConnectionLost TransactionsAreExclusive` | 2 tasks, 2 threads, 3 operations, 1 close, 1 cancellation, failure or thread exit |
| `sqlite_threads` | `EveryCallEnds WriteLockIsFreed` | 3 tasks on one thread, 3 operations, fairness |
| `server_pools` | `NoPoolLost ConnectionsComeBack MysqlAcloseReturns` | 3 calls of a pool of one connection or 2 of a pool of 2, 2 pools, either backend, fairness |
| | `DriverReadsWhatWasWritten StatementsStandAlone` | texts of 5 pieces of an alphabet, 3 dialects |
| `credentials` | `NoFork SettledMeansDead ImplementsChains` | 2 requests, 3 tokens, 2 families |
| | `ChangeIsFinal NewestLinkOnly ImplementsLinks` | 2 requests, one user, 2 passwords, one session, 2 links |
| `sessions` | `ActsOnlyAsVouched CapIsHard` | 2 requests, a browser, 2 users, a session, an API token and a JWT, 5 moments |
| `auth_services` | `NoOvershoot OwnerIsHeard` | 2 requests, 2 addresses with a common beginning, one account, a limit of 1, 2 windows, 2 sign-ins begun per address |
| | `ImplementsAllowance` | 2 requests, 2 users, 2 tokens, a cap of 1 |
| | `DeletedRoleIsEmpty` | 2 requests, one user, role and permission, the servers' isolation |
| | `OwnFlowOnly ReachesOnlyVouched SignInLeavesLink` | 2 callbacks, 2 browsers, 2 nonces, one identity, 2 addresses, 2 users |
| | `ServedMeansSchema AccountsSurvive RepeatedStartsAreNoOps` | 2 workers, 2 starts each, one fault, 3 databases, 3 dialects, with and without the optional parts |

Why the bounds are enough to be of use: two migrations show the loop, its order and
what a failure in the middle leaves; three contents of the directory (full, before the
last deployment, edited) show every branch of the checks; three processes let a waiter
lose the race to a winner while a third one holds the lock, and two with two calls
each show what a later start finds after a fault. Two statements show a script that is
cut. For a request, two writes can go to two places, and a second task is all that the
gap between test and assignment needs. Two threads and two tasks are a pair of every
kind of job; one operation more than there are tasks lets one of them come back to a
connection that the first round cached; five handles are more than these can reach. In
`sqlite_threads` one thread is the worst case, in which the pool has no thread to
spare for the COMMIT. Two pools are one that is being closed and its successor. With a
pool of one connection, one of three calls can hold it, one wait for it and one wait
for a lock, or the body of the first call again and exhaust the pool; with a pool of
two, two connections of one pool are out and come back in either order. Every ending
of a call takes only its own steps, so a fourth call would repeat one of these. Five
pieces open a literal, put a semicolon or a parameter in it, and close it. Every race
of the auth services is of two calls, one of which has read what the other changes;
one value of a kind more than the property compares is there where it has to tell two
apart. With a lifetime of two, a cap of three and five moments a session is extended
once in full, once cut by the cap, and once by a request whose clock is old, and the
clock goes on past the cap; one session has one user, so that the other one is reached
by a JWT or an API token, or not at all. Two starts of two workers are a first start,
one that fails beside it, and a repeated one. The bounds are named in each module and
appear in guards only. Deadlock checking is off because the bounded behaviours end: a
process stops calling, a request is answered, the tokens are spent. That a call does
not hang is a liveness property where it matters.

Four properties that the modules state are checked through a refinement that implies
them: `AppliedInOrder` through `ImplementsHistory` and `ImplementsLog`,
`OneUnspentToken` through `ImplementsChains`, `RedeemedOnce` through
`ImplementsLinks`, `CapHolds` through `ImplementsAllowance`. Each is a theorem of its
own as well.

### Runs that show a divergence

Each checks one statement of the repository's text, and TLC's trace shows what the
code does instead.

| Run | Property | What happens |
|---|---|---|
| `jwt_reuse` | `ReuseRevokesFamily` | the successor inserted after a reuse was detected is alive (`jwt_tokens.py:224`, docstring 14-17) |
| `auth_upgrade` | `NoLoginIsLost` | on sqlite migration 4 drops `users`, which deletes every provider identity (`0004-flexible-identity.sql:28`, its comment in line 9) |

More properties are stated in the modules that the code does not have. TLC finds a
trace when one of them takes the place of the properties of the configuration
named here. Five of them are proved where the code does have them:
`WriteLockIsOwned`, `StatementsStayInside` and `OneShotsAutocommit` until the first
cancellation, failure or thread exit, `NoOrphanGrant` and `DefineTakesEffect` where
writers take turns.

| Property | Configuration | What happens |
|---|---|---|
| `FailureLeavesNoTrace` (`Migrator`) | `migrator_mysql` | a DDL statement of a failed MySQL script stays, although "a failure rolls back that migration completely" (`migrator.py:34-37`) |
| `NobodyLockedOut` (`Migrator`) | `migrator_sqlite` | the tracking table's CREATE is outside the busy retry, so a worker that finds a database without it may raise "database is locked" while another migrates (`migrator.py:365`; "Every worker must come up clean", `tests/test_migrator_concurrency.py:82-84`) |
| `OutcomeNotMasked` (`Migrator`) | `migrator_mysql` | after the guard connection is lost an applied migration is reported as an error (`migrator.py:519`, comment 559-561) |
| `NothingLeftOpen` (`RequestUnitOfWork`) | `request` | two concurrent first queries open two transactions; one is never ended (`middleware.py:103`, docstring 81-83) |
| `OneTransaction` (`RequestUnitOfWork`) | `request` | writes through the session and through the handle commit separately |
| `SessionGivenBack` (`RequestUnitOfWork`) | `request` | a rollback that raises skips the discarding of the session (`middleware.py:243`, comment 240-241) |
| `WriteLockIsOwned` (`SqliteConnections`) | `sqlite_pool` | a cancelled `__aenter__` leaves a connection with the write lock (`sqlite.py:388`, docstring 357) |
| `StatementsStayInside` (`SqliteConnections`) | `sqlite_pool` | a cancelled transaction's statement runs after the ROLLBACK, in autocommit (`sqlite.py:340`) |
| `OneShotsAutocommit` (`SqliteConnections`) | `sqlite_pool` | a COMMIT that fails in `executemany` is not rolled back (`sqlite.py:573`, comment 552-553) |
| `CachedMeansOpen` (`SqliteConnections`) | `sqlite_pool` | an entry is cached under a generation newer than its connection (`sqlite.py:518`) |
| `AcloseReturns` (`ServerPools`) | `server_pools` | PostgreSQL's `aclose` holds the lock that the nested call of the transaction it waits for needs (`postgresql.py:307-315`) |
| `DriverErrorsNeverLeak` (`ServerPools`) | `server_pools` | MySQL acquires outside its try block (`mysql.py:246`, `286`), PostgreSQL's transaction releases outside (`postgresql.py:402-403`; contract rule 1, `base.py:21-22`) |
| `EscapesArePortable` (`SqlText`) | `server_pools` | on sqlite `??` becomes a `?` that the driver reads as a parameter (`sql.py:209-212`; "behaves identically on every backend", 177-178) |
| `LastChoiceStands` (`Accounts`) | `credentials` | the rehash of a sign-in in flight puts the old password back (no test of the hash it replaces) |
| `OneLiveLink` (`Accounts`) | `credentials` | two overlapping issues each burn before the other inserts (`tokens.py:119`) |
| `OneRetryIsEnough` (`RateLimiter`) | `auth_services` | a reset between a call's two tries makes the second INSERT fail as well (`ratelimit.py:124-139`) |
| `ResetMatchesItself` (`RateLimiter`) | `auth_services` | identifiers with colons are prefixes of each other (`ratelimit.py:25-26`) |
| `NoOrphanGrant` (`Roles`) | `auth_services` | on the servers a grant inserts after the role's DELETE has matched (`rbac.py:237-239`) |
| `DefineTakesEffect` (`Roles`) | `auth_services` | a delete between the lost INSERT and the UPDATE (`rbac.py:206-210`) |
| `SessionFollowsLink` (`OAuthSignIn`) | `auth_services` | a callback acts on the link it read, which has changed |
| `OnlyDanglingDropped` (`OAuthSignIn`) | one browser, 3 nonces, one identity, 2 users | a callback that read the link of a user deleted since drops the link another one has made |
| `SlidingReachesBrowser` (`Sessions`) | `sessions` | an extension is never sent to the browser, whose cookie lapses (`service.py:937`; README of pyxle-auth, 238-239) |
| `NoStartTripsAnother`, `BootstrappedIsAdopted` (`Startup`) | `auth_upgrade` | on MySQL two workers both find an index missing (`_ddl.py:31-48`), and a migration meets one that `ensure_schema` made (`0001-pyxle-auth-core.sql:10-12`) |

Three more are plain in the code and have no property. Nested calls of one
`Database` hold one connection each, so as many transactions as `pool_max` whose
bodies call again all wait (`Exhausted`, the one case `MysqlAcloseReturns` excepts); a
MySQL migration is such a call (`migrator.py:519`). A cancelled `:memory:` transaction
leaves its RLock with a thread that does not return (`sqlite.py:528`). A `connect` whose
migrations fail leaves the pool open (`database.py:298`).

### Fairness

`migrator_sqlite`: weak fairness of each process's own steps: a process inside a call
keeps running. Getting the lock is not fair by itself; that every call ends follows
from the lock's being given back and from there being finitely many migrations to
apply. Faults and new calls are not fair. `request`: the event loop resumes every
await and the middleware's own code runs on (weak), and the application returns
(strong, since its queries disable that for a while). `sqlite_threads`: threads run
(weak); the executor's queue is first in first out, so no job is passed over for ever
(strong fairness of `PickUp` for each task); the body of a transaction reaches its end
(strong, since statements come in between). Nothing assumes that the lock of the
database is granted fairly: the busy timeout is an action of the thread that waits.
`server_pools`: strong fairness of each call's `Progress` and of the two steps of
`aclose`, weak fairness of `TakeBack`: `asyncio.Lock` and both drivers' pools queue
their waiters, so one that waits while the lock or a connection keeps coming free gets
it; statements end and a body does not call again for ever. Failures and cancellations
are not fair, but for the two that the code cannot avoid: an acquire from a pool that
was closed, and `create_pool` past the bound.

## What is proved

Every safety property of the passing runs is a theorem, but for the two about SQL
text. The theorems hold for every value of the constants that satisfies the named
assumption of the module (`MigratorAssumption`, `UnitOfWorkAssumption`,
`SqliteAssumption`, `JwtRefreshAssumption`, `CredentialsAssumption`,
`ServerPoolsAssumption`, `SessionsAssumption`, `AuthServicesAssumption`,
`CallsAssumption`, `RowsAssumption`: disjointness of `None` and the other markers,
also from the rows a table holds, types, the three dialects, the operations that are
rate-limited, addresses and identifiers being sequences of strings, finitely many
calls of the pools and requests of the auth services). Five theorems are refinements,
each proved from the invariants of its component step by step: a statement of the code
is a step of the abstract specification or changes nothing it sees.

**Migrator.** `RecordedInv` is inductive on all dialects. Its conjunct `TodoInv` ties the
work list to the table: what a running call has discovered is still to do or is
recorded from the content it saw; `ReturnMeansRecorded` says it of calls that
returned, and follows only with the running ones included. `RowInv` says that a process
at its COMMIT inserts a row nobody else has or is about to commit, which is what the
unique key gives on MySQL, where the lock can be lost. From it follow
`TypeCorrect`, `ReturnedCallsAreComplete` and `AppliedInPrefixOrder`.

Three more hold on all dialects beside it. `ClaimInv` counts what a process may yet
report as applied, on MySQL also what its inner transaction has committed and
`Release` has not settled: every claim is recorded and no two processes share one
(`MigrationsHaveOneApplier`). `RanInv` says of each statement a script has run that it
is pending or has taken effect, which survives a DDL that commits by itself, and gives
`RecordedMigrationsRan`. With `TodoInv`, by which the earlier files of the one a
process works at are recorded, it gives `LogRefinement`: a statement that takes effect
is an `Execute` of `LogSpec`, a COMMIT of the row a `Record`. `CleanInv` says, until a
fault and while every worker has called once over one directory, that nobody is at a
branch that fails, that each row has the content everybody sees, and that behind every
worker locked out by the tracking table's CREATE there is one past it (`AheadInv`):
`WorkersStartClean` says that of workers that come up together without a fault each
comes up, but for those locked out while another does.

On sqlite and postgresql `TxInv` adds that a process inside its transaction owns the
lock (`LockInv`) and that what the script has run so far is exactly what is pending
(`ScriptInv`): then a COMMIT makes whole scripts durable, which gives
`MigrationsRunOnce`, `OneScriptAtATime` and `Refinement`, the step-by-step proof that
the migrator implements `MigrationHistory`. MySQL has none of the three once its
guard connection can drop. What it has is `ExactUntilFirstFault`, from
`FaultlessInv`: until a fault, whoever attempts a migration holds the lock, what has
taken effect is what the script at work has committed (`HolderInv`) and whole
recorded scripts otherwise (`RestInv`).

**RequestUnitOfWork.** `CommitInv` (something is committed only after the application
ended a complete success) gives `FailedResponsesCommitNothing` for any number of
tasks, concurrent openings included. `SequentialInv` (the one open transaction is
the one both fields name) gives `SequentialRequestsCleanUp` as long as the handler
is the only task that has used the unit of work (`OnlyHandler`, which no step can
make true again); `NothingLeftOpen` shows that it fails otherwise. With it and as long
as nothing fails, `KeptInv` (what was written through the handle is in the open
transaction until the response is judged, and committed after a success) gives
`SuccessfulResponsesKeepWrites`.

**SqliteConnections.** `JobInv` says which jobs may be at which place of the code
(`PlaceOK`), that a task's job runs in at most one thread (`ServesOK`), and that a
task inside a transaction has a connection until `_finish` takes it (`ScopeOK`); with
`DataOK` it gives `TypeCorrect`. `NoConnectionLost` is inductive beside it
(`ConnectionsAreTracked`). `ExclInv` lists who may refer to a connection: the cache of one
thread and that thread's own jobs (`CacheOK`), a thread that is opening it, or one
scope (`ScopesApart`) and the threads that run jobs of that scope, of which there may
be several after a cancellation (`HolderOK`). `TransactionsHaveTheirConnection` follows.

`UndisturbedTransactions` is what the docstrings promise of a transaction and a
cancellation breaks. Until an event every running thread works for the task that
awaits it (`ServedInv`); so the connection of a scope is in its transaction until
`_finish` takes it, unless `close_sync` has closed it (`InsideInv`), and the write lock
belongs to a scope or to a thread between its BEGIN and its end (`OwnedInv`). `ExclInv`
keeps every other thread away from that connection.

**JwtRefresh.** `IInv` adds to the properties that rows and families agree (`Families`),
that a row's successor exists only if the row is used (`Lineage`), and that at most one
request is between the claim of a token and its INSERT, with that token used and
without a successor (`Flights`). `NoTokenForks`, `OneWayOn` and `RevocationHolds` follow,
and so does the refinement `ChainsOfTokens`: by `OneUnspentToken` the UPDATE that wins
spends the one token of a family of which nothing rotates, and by `Flights` the INSERT,
or a call that ends before it, ends the family's only rotation.

**ServerPools.** `NoPoolLost` alone is not inductive: a call at `create` would
overwrite the pool the backend knows. `TypeOK` says that a call is there exactly when
it holds the lock, and `Sound` that there is no pool then (nothing but the holder
makes one, and `aclose` only takes one away). `Sound` says of each call where it may
be with what: a connection exactly from its acquire to its release, a body that waits
with the call it waits for, and at the finally clause no transaction that nobody tried
to end. That is where each failure and cancellation must lead, and with it every way
out of a try block is a step of its own in the proof (`ScopeStep`). `InUseWasMade`
bounds what is given out. `PoolsAreKept` and `ConnectionsAreGivenBack` follow, for any
number of calls, pools and connections and both backends; the second counts the calls
that hold a connection with the cardinality lemmas of the library. `CloseInv` adds
what `aclose` leaves behind: of the closed pools only the one it waits for has
connections out (`ClosedAreEmpty`), and on PostgreSQL the lock it holds keeps a
successor from being made meanwhile (`DrainsAlone`). It gives `ClosesAreClean`: a
closed pool stays unused, and on PostgreSQL the connections in use are all of one
pool. MySQL does not have the second: a call may open a pool while the old one drains.

**Sessions.** `Forward` says what every step leaves true of the tables: a row keeps
its user and its birth or disappears, a token is issued once, a deleted user stays
deleted. `RequestOK` says what a request may still read: a session row with an
unexpired deadline is of a user it was vouched for (`CookieOK`), a bearer credential
stands for such users or for one who is gone (`BearerOK`), and what it has read is one
of them (`ReadOK`). `Forward` keeps this of the requests that stand still, whatever
the others do (`NothingComesBack` states it as an action property of its own);
`Tables` supplies it when one arrives. `RequestsActAsVouched` and `AgeIsBounded`
follow, for any lifetimes.

**Accounts.** Four groups of invariants over `CallsTyped` and `RowsTyped`, the two
halves of `TypeOK`. `RedeemInv`: an unused token has no claim, and a call about to
burn a token burns it for what it was issued for (`TokensAreSingleUse`). `NewestInv`:
an issue under way has in its batch every live token its caller issued before, so that
the COMMIT leaves one (`NewestLinkStands`). `BatchInv`: that batch has no links of
another user or purpose. With the three, `Mint` is an `Issue` of `SingleUseLinks`,
`Burn` a `Redeem`, a sweep a `Sweep`, and no other step changes a link
(`LinksAreSingleUse`). `PasswordInv`: passwords are numbered in order and the final
one is among them (`ChosenInv`); a change has the row's lock, which keeps other
changes out and the row in place (`LockInv`); a quiet change has matched every session
a password opened while nobody still holds what it read, and whoever signs in after it
holds a password no older than the final one (`FinalInv`). The last is what
`ChangeIsFinal` lacks to be inductive: the sign-ins that have verified a password and
not yet opened their session (`ChangesAreFinal`).

**AuthServices.** Each service has its invariant, and `EachServiceRuns` carries it to
the sum; `ServicesTyped` is their types. `RateInv` counts in `granted` what a row's
count has allowed, whoever inserted, lost an INSERT or deleted it (`LimitHolds`), and
`RateHeard` bounds an address's row: its count and the sign-ins that have still to
charge it are together at most those `begun` (`RateBegun`), and a sign-in charges
first its own address and then the account, whose refusal a right password ignores
(`RateCalls`). So a refusal of a right password counts more than the limit of sign-ins
from its own address (`OwnerAlwaysHeard`). `ApiInv`: one create per user is between
the lock of the owner's row and its COMMIT (`ApiLock`), so the count it took still
holds at its INSERT (`ApiCounted`); `CapIsNeverExceeded` needs the cardinality lemmas
of the library. So the INSERT is a `Grant` of `TokenAllowance` and whatever kills
tokens a `Withdraw` (`AllowanceIsKept`). `RoleInv`: what the first DELETE of a
deletion nobody grants beside has matched is every grant there is
(`DeletionEmptiesRole`). `SerialRoleInv`: where writers take turns, as on sqlite, a
call between its two statements finds what its first one saw (`SerialRolesStayWhole`).
`OAuthInv`: a nonce in a cookie or in a callback belongs to the browser that started
it (`OAuthOwn`, `FlowsAreOwn`); an account keeps its address (`OAuthHomes`), and a
callback acts from the lookup of the account to its session for an identity and an
address that a provider vouched for together (`OAuthReaches`, `SignInIsVouched`); a
link is dropped only when its account is gone (`OAuthLinked`, `SignInLinks`).
`StartupInv`: a worker registers a service when every migration is recorded, what is
recorded is in the database (`StartupApplied`), and the indexes of the tables it has
ensured are there (`StartupIndexed`): `SchemaIsServed`, `NoAccountIsLost`, and the
action property `StartsAreNoOps`.

Only model-checked: the liveness properties (`EveryCallEnds` of the migrator and of the
sqlite threads, `WriteLockIsFreed`, `TransactionsEnd`, `MysqlAcloseReturns`), which depend
on fairness and ENABLED and are outside the prover's reach, and
`DriverReadsWhatWasWritten` and `StatementsStandAlone` of `SqlText`: what a recursive
function computes for every text needs induction over data.

## What is not modelled

* The `:memory:` path of sqlite: one connection, an RLock and a thread pinned to it.
* `select_migration_files` and `status()` of the migrator, Alembic and `cli/`, `url.py`,
  `rows.py`, `errors.py`, the ORM's own pool: text and value types, or SQLAlchemy's.
* Password hashing, the policy on passwords, the shapes of names, addresses, JSON
  bodies, cookies and responses, the lists that only read, the wildcard match of a
  permission, PKCE and the providers' URLs: text, or one pure expression.
* Settings: reading and validating them is text; what they switch on or off
  (`RequireVerified`, `features`, the lifetimes, caps and limits) are constants or variables.
* `pyxle-mail`: validates a message and hands it to one provider; no state is kept
  between calls.
* A crash in the middle of a MySQL script during a start (`Startup` takes a migration
  as one step; `Migrator` has the crash).

PROJECT.json lists each as a component's status or in its note. Hazards that no
passing run covers are listed there at their lines, with a note.

## Plan

1. An abstract account (one password, its live sessions) that `Accounts` refines
   while nobody signs in during a change, and its proof.
2. The `:memory:` connection of sqlite, and `status()` beside a running `apply_all`.
3. Lemmas about one step of `SqlText`'s scanner, which need no induction.
