--------------------------------- MODULE Startup ---------------------------------
(***************************************************************************)
(* The start of the workers of an application that lists pyxle-db and      *)
(* pyxle-auth: PyxleDbPlugin.on_startup, then PyxleAuthPlugin.on_startup,   *)
(* which brings the schema of the auth tables up to date: the migrations    *)
(* bundled with the package, and then every service's ensure_schema().      *)
(* A migration is one step here: Migrator shows that workers apply one at   *)
(* a time, each once.                                                       *)
(***************************************************************************)
EXTENDS Naturals, Sequences

CONSTANTS Worker, User, None,
          Settings,     \* what the settings may ask for: sets of optional blocks
          MaxStarts,    \* bound: starts of a worker
          MaxFaults     \* bound: starts that fail for a reason of their own

ASSUME StartupAssumption ==
    /\ Settings \subseteq SUBSET {"orm", "oauth", "jwt"}
    /\ MaxStarts \in Nat /\ MaxFaults \in Nat

\* Tables; "core" stands for those no other refers to and that keep no account
\* (ratelimit_buckets, auth_tokens, api_tokens, roles), "usernames" for the
\* column users.username.
Table == {"users", "usernames", "sessions", "core", "user_roles",
          "oauth_identities", "jwt_refresh_tokens"}
\* Those with a foreign key on users, ON DELETE CASCADE.
Children == {"sessions", "oauth_identities", "jwt_refresh_tokens"}
Migrations == 1 .. 4

VARIABLES dialect,    \* "sqlite", "postgresql" or "mysql"
          features,   \* the optional blocks of the settings: "orm", "oauth", "jwt"
          db,         \* the database: what is present, indexed, and whose rows there are
          applied,    \* schema_migrations_pyxle_auth
          kept,       \* history: the rows that were ever written
          pc,         \* each worker: its next step
          step,       \* how far it is in Migrations, then in Plan
          missing,    \* what its probe of information_schema answered
          opened,     \* "database", "engine"
          registered, \* the services in its PluginContext
          cause,      \* why it failed: "fault", or a statement refused, of a
                      \* "migration" or an "index"
          starts, faults

worker == <<pc, step, missing, opened, registered, cause>>
vars == <<dialect, features, db, applied, kept, worker, starts, faults>>

\* The tables and services of on_startup, in its order: a service is registered
\* after its tables were ensured.
Plan == <<"core", "sessions", "user_roles", "auth",
          "oauth_identities", "oauth", "jwt_refresh_tokens", "jwt">>
Wanted(i) == CASE i \in {5, 6} -> "oauth" \in features
               [] i \in {7, 8} -> "jwt" \in features
               [] OTHER -> TRUE
-----------------------------------------------------------------------------
\* CREATE TABLE IF NOT EXISTS.  Created as a whole, users has the username column.
Create(d, tables) == [d EXCEPT !.present = @ \cup tables]
Index(d, tables) == [d EXCEPT !.index = @ \cup tables]
\* DROP TABLE on SQLite deletes the rows first, foreign keys included.
Drop(d, t) ==
    LET emptied == IF t = "users" THEN Children \cup {t, "usernames"} ELSE {t}
        gone == IF t = "users" THEN {t, "usernames"} ELSE {t}
    IN  [present |-> d.present \ gone, index |-> d.index \ gone,
         rows |-> [u \in Table |-> IF u \in emptied THEN {} ELSE d.rows[u]]]

\* Mutant: sessions are not put aside.
Stashed_None(d) == {}
\* The rows of sessions_backup_0004.
Stashed(d) == d.rows["sessions"]

\* 0004-flexible-identity.sql rebuilds users, with sessions put aside.
Rebuild(d) ==
    LET e == Drop(Drop(d, "sessions"), "users")
        f == Index(Create(e, {"users", "usernames", "sessions"}), {"sessions"})
    IN  [f EXCEPT !.rows["users"] = d.rows["users"], !.rows["sessions"] = Stashed(d)]

MigrationIndexes(id) == CASE id = 1 -> {"sessions", "core"}
                          [] id = 2 -> {"oauth_identities"}
                          [] id = 3 -> {"jwt_refresh_tokens"}
                          [] id = 4 -> {}
MigrationTables(id) == MigrationIndexes(id) \cup
    (CASE id = 1 -> {"users", "user_roles"} [] id = 4 -> {"usernames"} [] OTHER -> {})

Migrated(d, id) ==
    IF id = 4 /\ dialect = "sqlite" THEN Rebuild(d)
    ELSE Index(Create(d, MigrationTables(id)), MigrationIndexes(id))
\* MySQL has no IF NOT EXISTS for an index, nor for a column.
Refused(d, id) ==
    dialect = "mysql" /\ (\/ MigrationIndexes(id) \cap d.index # {}
                          \/ id = 4 /\ "usernames" \in d.present)

\* ensure_schema's CREATE TABLE statements.
Ensured(d, t) ==
    IF t = "sessions"
    THEN Create(d, IF "users" \in d.present THEN {t} ELSE {t, "users", "usernames"})
    ELSE Create(d, {t})

Empty == [present |-> {}, index |-> {}, rows |-> [t \in Table |-> {}]]
\* Databases a start may find: new; with accounts, left by the release before
\* migration 4; or built by the services' ensure_schema() alone.
Origins ==
    [new |-> [db |-> Empty, applied |-> {}],
     release |-> [db |-> [Empty EXCEPT !.present = Table \ {"usernames"},
                                       !.index = Children \cup {"core", "user_roles"}],
                  applied |-> {1, 2, 3}],
     ensured |-> [db |-> [Empty EXCEPT !.present = Table,
                                       !.index = Children \cup {"core", "user_roles"}],
                  applied |-> {}]]

Init ==
    /\ dialect \in {"sqlite", "postgresql", "mysql"}
    /\ features \in Settings
    /\ \E o \in DOMAIN Origins : \E people \in SUBSET User :
         /\ db = [Origins[o].db EXCEPT !.rows =
                    [t \in Table |-> IF t \in Origins[o].db.present THEN people ELSE {}]]
         /\ applied = Origins[o].applied
    /\ kept = db.rows
    /\ pc = [w \in Worker |-> "off"] /\ step = [w \in Worker |-> 1]
    /\ missing = [w \in Worker |-> FALSE]
    /\ opened = [w \in Worker |-> {}] /\ registered = [w \in Worker |-> {}]
    /\ cause = [w \in Worker |-> None]
    /\ starts = [w \in Worker |-> 0] /\ faults = 0

Goto(w, label) == pc' = [pc EXCEPT ![w] = label]
database == <<db, applied, kept>>
setting == <<dialect, features>>
tally == <<starts, faults>>
-----------------------------------------------------------------------------
Start(w) ==
    /\ pc[w] \in {"off", "failed", "down"} /\ starts[w] < MaxStarts
    /\ starts' = [starts EXCEPT ![w] = @ + 1]
    /\ Goto(w, "configure")
    /\ step' = [step EXCEPT ![w] = 1] /\ cause' = [cause EXCEPT ![w] = None]
    /\ opened' = [opened EXCEPT ![w] = {}] /\ registered' = [registered EXCEPT ![w] = {}]
    /\ UNCHANGED <<setting, database, missing, faults>>

\* The settings and what is opened with them; then connect(), which opens the
\* database and applies the application's migrations to it.
Configure(w) ==
    /\ pc[w] = "configure"
    /\ opened' = [opened EXCEPT ![w] = {"database"}]
    /\ Goto(w, "app_migrations")
    /\ UNCHANGED <<setting, database, step, missing, registered, cause, tally>>

\* The application's own migrations have a tracking table of their own.
AppMigrations(w) ==
    /\ pc[w] = "app_migrations"
    /\ registered' = [registered EXCEPT ![w] = {"database"}]
    /\ Goto(w, IF "orm" \in features THEN "orm" ELSE "migrate")
    /\ UNCHANGED <<setting, database, step, missing, opened, cause, tally>>

\* _start_orm: an engine, asked for one connection before it is registered.
StartOrm(w) ==
    /\ pc[w] = "orm"
    /\ opened' = [opened EXCEPT ![w] = @ \cup {"engine"}]
    /\ registered' = [registered EXCEPT ![w] = @ \cup {"engine"}]
    /\ Goto(w, "migrate")
    /\ UNCHANGED <<setting, database, step, missing, cause, tally>>

\* Mutant: a migration is not recorded.
Recorded_Not(id) == applied
Recorded(id) == applied \cup {id}
\* Mutant: a build that carries the migrations of the release before.
Pending_Older(id) == id < 4 /\ id \notin applied
Pending(id) == id \notin applied

\* A statement is refused, of a migration or of an index: the start ends with that.
Trip(w, what) ==
    /\ Goto(w, "failed") /\ cause' = [cause EXCEPT ![w] = what]
    /\ UNCHANGED <<database, step>>

Advance(w) == step' = [step EXCEPT ![w] = @ + 1]
Migrate(w) ==
    /\ pc[w] = "migrate" /\ step[w] \in Migrations
    /\ LET id == step[w] IN
         IF ~Pending(id) THEN Advance(w) /\ UNCHANGED <<database, pc, cause>>
         ELSE IF Refused(db, id) THEN Trip(w, "migration")
         ELSE /\ db' = Migrated(db, id) /\ applied' = Recorded(id)
              /\ Advance(w) /\ UNCHANGED <<kept, pc, cause>>
    /\ UNCHANGED <<setting, missing, opened, registered, tally>>

MigrationsDone(w) ==
    /\ pc[w] = "migrate" /\ step[w] \notin Migrations
    /\ Goto(w, "ensure") /\ step' = [step EXCEPT ![w] = 1]
    /\ UNCHANGED <<setting, database, missing, opened, registered, cause, tally>>

EnsureTable(w) ==
    /\ pc[w] = "ensure" /\ step[w] <= Len(Plan) /\ Wanted(step[w]) /\ Plan[step[w]] \in Table
    /\ db' = Ensured(db, Plan[step[w]])
    /\ Goto(w, "index")
    /\ UNCHANGED <<setting, applied, kept, step, missing, opened, registered, cause, tally>>

\* ensure_index: one statement, but on MySQL a probe of information_schema first.
EnsureIndex(w) ==
    /\ pc[w] = "index"
    /\ IF dialect = "mysql"
       THEN /\ missing' = [missing EXCEPT ![w] = Plan[step[w]] \notin db.index]
            /\ Goto(w, "create_index") /\ UNCHANGED <<db, step>>
       ELSE /\ db' = Index(db, {Plan[step[w]]})
            /\ Goto(w, "ensure") /\ Advance(w) /\ UNCHANGED missing
    /\ UNCHANGED <<setting, applied, kept, opened, registered, cause, tally>>

CreateIndex(w) ==
    /\ pc[w] = "create_index"
    /\ IF missing[w] /\ Plan[step[w]] \in db.index THEN Trip(w, "index")
       ELSE /\ db' = (IF missing[w] THEN Index(db, {Plan[step[w]]}) ELSE db)
            /\ Goto(w, "ensure") /\ Advance(w)
            /\ UNCHANGED <<applied, kept, cause>>
    /\ UNCHANGED <<setting, missing, opened, registered, tally>>

Register(w) ==
    /\ pc[w] = "ensure" /\ step[w] <= Len(Plan)
    /\ Wanted(step[w]) => Plan[step[w]] \notin Table
    /\ Advance(w)
    /\ registered' = [registered EXCEPT
         ![w] = IF Wanted(step[w]) THEN @ \cup {Plan[step[w]]} ELSE @]
    /\ UNCHANGED <<setting, database, pc, missing, opened, cause, tally>>

Ready(w) ==
    /\ pc[w] = "ensure" /\ step[w] > Len(Plan)
    /\ Goto(w, "ready")
    /\ UNCHANGED <<setting, database, step, missing, opened, registered, cause, tally>>

\* Any step may raise: a bad setting, a missing secret, the server out of reach.
Fault(w) ==
    /\ pc[w] \notin {"off", "ready", "failed", "down"} /\ faults < MaxFaults
    /\ faults' = faults + 1
    /\ Goto(w, "failed") /\ cause' = [cause EXCEPT ![w] = "fault"]
    /\ UNCHANGED <<setting, database, step, missing, opened, registered, starts>>

\* on_shutdown: the engine, whose errors are logged, and then the database.
Shutdown(w) ==
    /\ pc[w] = "ready"
    /\ \E left \in SUBSET (opened[w] \cap {"engine"}) : opened' = [opened EXCEPT ![w] = left]
    /\ Goto(w, "down")
    /\ UNCHANGED <<setting, database, step, missing, registered, cause, tally>>

\* A worker that is ready serves: somebody signs up, perhaps with a provider.
SignUp(w, u) ==
    /\ pc[w] = "ready" /\ u \notin db.rows["users"]
    /\ \E tables \in SUBSET (db.present \cap {"usernames", "oauth_identities"}) :
         LET grown(rows) == [t \in Table |->
                 IF t \in {"users", "sessions"} \cup tables THEN rows[t] \cup {u} ELSE rows[t]]
         IN  db' = [db EXCEPT !.rows = grown(@)] /\ kept' = grown(kept)
    /\ UNCHANGED <<setting, applied, worker, tally>>

StartStep(w) ==
    \/ Start(w) \/ Configure(w) \/ AppMigrations(w) \/ StartOrm(w)
    \/ Migrate(w) \/ MigrationsDone(w) \/ EnsureTable(w) \/ EnsureIndex(w)
    \/ CreateIndex(w) \/ Register(w) \/ Ready(w)

Next ==
    \E w \in Worker :
        \/ StartStep(w) \/ Fault(w) \/ Shutdown(w)
        \/ \E u \in User : SignUp(w, u)

Spec == Init /\ [][Next]_vars
-----------------------------------------------------------------------------
\* Variables have their types.
TypeOK ==
    /\ dialect \in {"sqlite", "postgresql", "mysql"}
    /\ features \in Settings
    /\ db \in [present : SUBSET Table, index : SUBSET Table, rows : [Table -> SUBSET User]]
    /\ applied \subseteq Migrations /\ kept \in [Table -> SUBSET User]
    /\ step \in [Worker -> 1 .. Len(Plan) + 1] /\ missing \in [Worker -> BOOLEAN]
    /\ cause \in [Worker -> {None, "fault", "migration", "index"}]

\* A worker that has registered a service serves on a complete schema of it,
\* whatever database it found, whoever else was starting, and wherever an earlier
\* start stopped ("either path" of _apply_schema).
ServedMeansSchema ==
    \A w \in Worker :
        /\ "auth" \in registered[w] =>
             {"users", "usernames", "sessions", "core", "user_roles"} \subseteq db.present
        /\ "oauth" \in registered[w] => "oauth_identities" \in db.present
        /\ "jwt" \in registered[w] => "jwt_refresh_tokens" \in db.present

\* "Upgrading from 0.3.x keeps every account and live session" (pyxle-auth README),
\* and so does any later start beside workers that already serve.
AccountsSurvive ==
    \A t \in {"users", "sessions"} : kept[t] \subseteq db.rows[t]

\* "Repeated startups are no-ops": once a worker serves, the start of another
\* leaves the database as it is, whatever people have written since.
RepeatedStartsAreNoOps ==
    [][(\E w \in Worker : pc[w] = "ready") /\ kept' = kept => db' = db]_vars

\* Stated, and broken on SQLite: DROP TABLE users in 0004-flexible-identity.sql
\* cascades to the accounts' provider identities ("no login is lost").
NoLoginIsLost == kept["oauth_identities"] \subseteq db.rows["oauth_identities"]

\* Stated, and broken on MySQL: "create a secondary index if it doesn't exist, on any
\* engine" (ensure_index).  No migration creates the index of user_roles, so two
\* workers may both find it missing, and the second CREATE INDEX stops its worker.
NoStartTripsAnother == \A w \in Worker : cause[w] # "index"

\* Stated, and broken on MySQL: "a database bootstrapped by the services'
\* ensure_schema() methods adopts this migration cleanly" (0001-pyxle-auth-core.sql).
BootstrappedIsAdopted == \A w \in Worker : cause[w] # "migration"
=============================================================================
