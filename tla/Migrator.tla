------------------------------ MODULE Migrator ------------------------------
(***************************************************************************)
(* pyxle_db/migrator.py: several processes call Migrator.apply_all on one  *)
(* database.  Each call reads its directory, scans the tracking table and  *)
(* applies what is pending, one migration at a time, under a lock that     *)
(* depends on the dialect:                                                 *)
(*   sqlite      BEGIN IMMEDIATE, polled with a busy timeout and a retry;  *)
(*   postgresql  an advisory lock that the end of the transaction frees;   *)
(*   mysql       GET_LOCK on a second, guard connection, freed after the   *)
(*               inner transaction; a DDL statement commits implicitly.    *)
(* A process may die, a statement may fail, the reply to a COMMIT may be   *)
(* lost, the guard connection may drop; `faults' counts these.             *)
(***************************************************************************)
EXTENDS Naturals

CONSTANTS Proc,         \* processes (or handles) that call apply_all
          Id,           \* migration ids, ordered by their numeric prefix
          Content,      \* contents of the effective file, as their checksums
          None,         \* no file, no tracking row, no lock holder
          NumStmts,     \* statements of a migration, after split_statements
          Ddl,          \* which of them are DDL
          Dialect,      \* "sqlite", "postgresql" or "mysql"
          Directories,  \* what a migrations directory may hold when it is read
          MaxCalls,     \* bound: calls of apply_all per process
          MaxFaults     \* bound: faults in a behaviour

ASSUME MigratorAssumption ==
    /\ Id \subseteq Nat
    /\ None \notin Content \cup Proc
    /\ NumStmts \in Nat
    /\ Ddl \subseteq 1..NumStmts
    /\ Dialect \in {"sqlite", "postgresql", "mysql"}
    /\ Directories \subseteq [Id -> Content \cup {None}]
    /\ MaxCalls \in Nat /\ MaxFaults \in Nat

VARIABLES table,       \* the tracking table exists
          tracked,     \* its rows: id -> checksum or None (committed)
          effects,     \* effects[m][c][s]: durable runs of statement s
          lock,        \* the process the database's migration lock belongs to
          pc,          \* where each process is
          blind,       \* the schema its connection has read lacks the tracking table
          dir,         \* what the current call discovered: id -> content or None
          todo,        \* ids the current call still has to apply
          ran,         \* statements run in the current transaction
          pending,     \* those of them a rollback would undo
          attempt,     \* mysql: how the inner transaction ended
          appliedNow,  \* ids the current call returns as applied by it
          result,      \* how the last call ended
          calls, faults

database == <<tracked, effects>>
schema == <<table, blind>>
vars == <<schema, database, lock, pc, dir, todo, ran, pending, attempt,
          appliedNow, result, calls, faults>>
script == <<ran, pending>>

Statements == 1..NumStmts
PC == {"idle", "create", "load", "begin", "sleep", "lock", "recheck", "run", "commit", "release",
       "resolve"}
InTransaction == {"recheck", "run", "commit"}
Outcome == {"applied", "skipped", "conflict", "error", "mismatch"}

\* Where the tracking table is not there yet matters on sqlite only (CreateTable).
Init ==
    /\ table \in (IF Dialect = "sqlite" THEN BOOLEAN ELSE {TRUE})
    /\ blind = [p \in Proc |-> FALSE]
    /\ tracked = [m \in Id |-> None]
    /\ effects = [m \in Id |-> [c \in Content |-> [s \in Statements |-> 0]]]
    /\ lock = None
    /\ pc = [p \in Proc |-> "idle"]
    /\ dir = [p \in Proc |-> [m \in Id |-> None]]
    /\ todo = [p \in Proc |-> {}]
    /\ ran = [p \in Proc |-> 0]
    /\ pending = [p \in Proc |-> {}]
    /\ attempt = [p \in Proc |-> "error"]
    /\ appliedNow = [p \in Proc |-> {}]
    /\ result = [p \in Proc |-> "none"]
    /\ calls = [p \in Proc |-> 0]
    /\ faults = 0

(***************************************************************************)
(* The loop of apply_all.  todo[p] is what is left of the pending ids; the *)
(* current one is its least.  An exception of _apply_one ends the call.    *)
(***************************************************************************)
IsCurrent(p, m) == m \in todo[p] /\ \A k \in todo[p] : m <= k

\* Mutants: a lost race is skipped whatever the content; it is reported as applied.
VerifyLostRace_Trusting(p, m) == "skipped"
VerifyLostRace_Applied(p, m) == IF tracked[m] = dir[p][m] THEN "applied" ELSE "mismatch"

\* _verify_lost_race: somebody else's row is a clean skip or a mismatch.
VerifyLostRace(p, m) == IF tracked[m] = dir[p][m] THEN "skipped" ELSE "mismatch"

\* Mutant: the loop swallows a failed migration and goes on.
Done_SwallowsErrors == {"applied", "skipped", "error"}

\* What lets the loop go on to the next migration.
Done == {"applied", "skipped"}

\* _apply_one has returned (applied, skipped), raised (error, mismatch) or
\* caught an IntegrityError (conflict); the loop goes on accordingly.
Settle(p, m, outcome) ==
    LET done == outcome \in Done
        left == IF done THEN todo[p] \ {m} ELSE todo[p]
    IN  /\ todo' = [todo EXCEPT ![p] = left]
        /\ appliedNow' = [appliedNow EXCEPT ![p] =
                            IF outcome = "applied" THEN @ \cup {m} ELSE @]
        /\ pc' = [pc EXCEPT ![p] = IF outcome = "conflict" THEN "resolve"
                                   ELSE IF done /\ left # {} THEN "begin"
                                   ELSE "idle"]
        /\ result' = [result EXCEPT ![p] = IF done /\ left = {} THEN "ok"
                                           ELSE IF done \/ outcome = "conflict" THEN "running"
                                           ELSE outcome]

\* Mutant: the end of a transaction leaves the lock behind.
Unlocked_Leaks(p) == lock

Unlocked(p) == IF lock = p THEN None ELSE lock

\* The transaction of p has ended.  Its lock goes with it, except on mysql,
\* where the guard connection still holds it.
EndAttempt(p, m, outcome) ==
    \/ /\ Dialect = "mysql"
       /\ pc' = [pc EXCEPT ![p] = "release"]
       /\ attempt' = [attempt EXCEPT ![p] = outcome]
       /\ UNCHANGED <<lock, todo, appliedNow, result>>
    \/ /\ Dialect # "mysql"
       /\ lock' = Unlocked(p)
       /\ Settle(p, m, outcome)
       /\ UNCHANGED attempt

Raise(p, outcome) ==
    /\ pc' = [pc EXCEPT ![p] = "idle"]
    /\ result' = [result EXCEPT ![p] = outcome]

\* The runs in `stmts' of p's file for m become durable.
Durable(p, m, stmts) ==
    effects' = [effects EXCEPT ![m][dir[p][m]] =
                  [s \in Statements |-> IF s \in stmts THEN effects[m][dir[p][m]][s] + 1
                                       ELSE effects[m][dir[p][m]][s]]]

-----------------------------------------------------------------------------
\* apply_all: discover() reads the directory as it is now, and the connection
\* of the call reads the schema.
Call(p) ==
    /\ pc[p] = "idle" /\ calls[p] < MaxCalls
    /\ \E d \in Directories : dir' = [dir EXCEPT ![p] = d]
    /\ blind' = [blind EXCEPT ![p] = ~table]
    /\ pc' = [pc EXCEPT ![p] = "create"]
    /\ result' = [result EXCEPT ![p] = "running"]
    /\ appliedNow' = [appliedNow EXCEPT ![p] = {}]
    /\ todo' = [todo EXCEPT ![p] = {}]
    /\ calls' = [calls EXCEPT ![p] = @ + 1]
    /\ UNCHANGED <<table, database, lock, script, attempt, faults>>

\* Mutant: the lock is shared.
LockIsFree_Shared == TRUE

LockIsFree == lock = None

\* _load_applied begins with CREATE TABLE IF NOT EXISTS.  On sqlite that asks for
\* the write lock unless the schema its connection has read has the table; on
\* postgresql an IntegrityError, of a race for it, is swallowed.
CreateTable(p) ==
    /\ pc[p] = "create"
    /\ Dialect = "sqlite" /\ blind[p] => LockIsFree
    /\ table' = TRUE /\ blind' = [blind EXCEPT ![p] = FALSE]
    /\ pc' = [pc EXCEPT ![p] = "load"]
    /\ UNCHANGED <<database, lock, dir, todo, script, attempt, appliedNow, result, calls, faults>>

\* sqlite: busy_timeout runs out there.  Nothing retries this statement: the
\* call raises "database is locked".
LockedOut(p) ==
    /\ Dialect = "sqlite" /\ pc[p] = "create" /\ blind[p] /\ lock # None
    /\ Raise(p, "locked")
    /\ UNCHANGED <<schema, database, lock, dir, todo, script, attempt, appliedNow, calls, faults>>

Vanished(p) == {m \in Id : tracked[m] # None /\ dir[p][m] = None}
Drifted(p) == {m \in Id : /\ tracked[m] # None /\ dir[p][m] # None
                          /\ tracked[m] # dir[p][m]}

\* Then one scan of the table; every recorded row is compared with the file on disk.
LoadApplied(p) ==
    /\ pc[p] = "load"
    /\ \/ /\ Vanished(p) = {} /\ Drifted(p) = {}
          /\ LET missing == {m \in Id : dir[p][m] # None /\ tracked[m] = None}
             IN  /\ todo' = [todo EXCEPT ![p] = missing]
                 /\ pc' = [pc EXCEPT ![p] = IF missing = {} THEN "idle" ELSE "begin"]
                 /\ result' = [result EXCEPT ![p] = IF missing = {} THEN "ok" ELSE "running"]
       \/ Vanished(p) # {} /\ Raise(p, "error") /\ UNCHANGED todo
       \/ Drifted(p) # {} /\ Raise(p, "mismatch") /\ UNCHANGED todo
    /\ UNCHANGED <<schema, database, lock, dir, script, attempt, appliedNow, calls, faults>>

\* Opening the transaction.  On sqlite this is BEGIN IMMEDIATE, which takes
\* the write lock; elsewhere the lock is a statement of its own.
Begin(p) ==
    /\ pc[p] = "begin"
    /\ \/ /\ Dialect = "sqlite" /\ LockIsFree
          /\ lock' = p
          /\ pc' = [pc EXCEPT ![p] = "recheck"]
       \/ /\ Dialect # "sqlite"
          /\ pc' = [pc EXCEPT ![p] = "lock"]
          /\ UNCHANGED lock
    /\ UNCHANGED <<schema, database, dir, todo, script, attempt, appliedNow, result, calls, faults>>

\* Mutant: the busy error ends the call, as it did before the retry.
BusyTimeout_Raises(p) ==
    /\ Dialect = "sqlite" /\ pc[p] = "begin" /\ lock # None
    /\ Raise(p, "error")
    /\ UNCHANGED <<schema, database, lock, dir, todo, script, attempt, appliedNow, calls, faults>>

\* sqlite: busy_timeout ran out, "database is locked"; sleep and re-enter.
BusyTimeout(p) ==
    /\ Dialect = "sqlite" /\ pc[p] = "begin" /\ lock # None
    /\ pc' = [pc EXCEPT ![p] = "sleep"]
    /\ UNCHANGED <<schema, database, lock, dir, todo, script, attempt, appliedNow, result, calls, faults>>

Wake(p) ==
    /\ pc[p] = "sleep"
    /\ pc' = [pc EXCEPT ![p] = "begin"]
    /\ UNCHANGED <<schema, database, lock, dir, todo, script, attempt, appliedNow, result, calls, faults>>

\* pg_advisory_xact_lock returns, or GET_LOCK returns 1.  A GET_LOCK that
\* times out (0) is issued again: the process just stays here.
AcquireLock(p) ==
    /\ pc[p] = "lock" /\ LockIsFree
    /\ lock' = p
    /\ pc' = [pc EXCEPT ![p] = "recheck"]
    /\ UNCHANGED <<schema, database, dir, todo, script, attempt, appliedNow, result, calls, faults>>

\* The first read inside the lock: a row means the race for m was lost.
Recheck(p) ==
    /\ pc[p] = "recheck"
    /\ \E m \in Id : IsCurrent(p, m) /\
         \/ /\ tracked[m] = None
            /\ pc' = [pc EXCEPT ![p] = "run"]
            /\ UNCHANGED <<lock, todo, attempt, appliedNow, result>>
         \/ /\ tracked[m] # None
            /\ EndAttempt(p, m, VerifyLostRace(p, m))
    /\ ran' = [ran EXCEPT ![p] = 0]
    /\ pending' = [pending EXCEPT ![p] = {}]
    /\ UNCHANGED <<schema, database, dir, calls, faults>>

\* Mutant: the script stops one statement early.
ScriptDone_Early(p) == ran[p] + 1 >= NumStmts

ScriptDone(p) == ran[p] = NumStmts

\* Mutant: the script runs on an autocommit connection.
CommitsItself_Always(s) == TRUE

CommitsItself(s) == Dialect = "mysql" /\ s \in Ddl

\* One statement of the script.  On mysql a DDL statement commits itself and
\* whatever the transaction had pending.
RunStatement(p) ==
    /\ pc[p] = "run" /\ ~ScriptDone(p)
    /\ LET s == ran[p] + 1 IN
       /\ ran' = [ran EXCEPT ![p] = s]
       /\ \/ /\ CommitsItself(s)
             /\ \E m \in Id : IsCurrent(p, m) /\ Durable(p, m, pending[p] \cup {s})
             /\ pending' = [pending EXCEPT ![p] = {}]
          \/ /\ ~CommitsItself(s)
             /\ pending' = [pending EXCEPT ![p] = @ \cup {s}]
             /\ UNCHANGED effects
    /\ UNCHANGED <<schema, tracked, lock, pc, dir, todo, attempt, appliedNow, result, calls, faults>>

\* INSERT of the tracking row: it waits for another uncommitted row with the
\* same key and fails on a committed one.
InsertRow(p) ==
    /\ pc[p] = "run" /\ ScriptDone(p)
    /\ \E m \in Id :
         /\ IsCurrent(p, m)
         /\ \A q \in Proc : ~(pc[q] = "commit" /\ IsCurrent(q, m))
         /\ \/ /\ tracked[m] = None
               /\ pc' = [pc EXCEPT ![p] = "commit"]
               /\ UNCHANGED <<lock, todo, pending, attempt, appliedNow, result>>
            \/ /\ tracked[m] # None
               /\ pending' = [pending EXCEPT ![p] = {}]
               /\ EndAttempt(p, m, "conflict")
    /\ UNCHANGED <<schema, database, dir, ran, calls, faults>>

\* COMMIT: the script's pending runs and the row become durable together.
\* `outcome' is "applied", or "error" when the server's reply is lost.
Commit(p, outcome) ==
    /\ pc[p] = "commit"
    /\ \/ outcome = "applied" /\ UNCHANGED faults
       \/ /\ outcome = "error" /\ Dialect # "sqlite"
          /\ faults < MaxFaults /\ faults' = faults + 1
    /\ \E m \in Id :
         /\ IsCurrent(p, m)
         /\ Durable(p, m, pending[p])
         /\ tracked' = [tracked EXCEPT ![m] = dir[p][m]]
         /\ EndAttempt(p, m, outcome)
    /\ pending' = [pending EXCEPT ![p] = {}]
    /\ UNCHANGED <<schema, dir, ran, calls>>

\* mysql: RELEASE_LOCK, then the guard transaction commits.  If the guard
\* connection is gone the failed release is swallowed, but that commit fails.
Release(p) ==
    /\ pc[p] = "release"
    /\ \E m \in Id :
         /\ IsCurrent(p, m)
         /\ Settle(p, m, IF lock # p /\ attempt[p] \in {"applied", "skipped"}
                         THEN "error" ELSE attempt[p])
    /\ lock' = Unlocked(p)
    /\ UNCHANGED <<schema, database, dir, script, attempt, calls, faults>>

\* _resolve_tracking_conflict, on a fresh connection after the rollback.
Resolve(p) ==
    /\ pc[p] = "resolve"
    /\ \E m \in Id :
         /\ IsCurrent(p, m)
         /\ Settle(p, m, IF tracked[m] = None THEN "error" ELSE VerifyLostRace(p, m))
    /\ UNCHANGED <<schema, database, lock, dir, script, attempt, calls, faults>>

-----------------------------------------------------------------------------
\* A query fails outside the migration's transaction: the call raises.
QueryFails(p) ==
    /\ pc[p] \in {"create", "load", "begin", "lock", "resolve"}
    /\ faults < MaxFaults /\ faults' = faults + 1
    /\ Raise(p, "error")
    /\ UNCHANGED <<schema, database, lock, dir, todo, script, attempt, appliedNow, calls>>

\* A statement (or the COMMIT) fails inside it, with an IntegrityError or
\* any other error: rollback, and the lock goes as for any other end.
StatementFails(p, outcome) ==
    /\ pc[p] \in InTransaction
    /\ outcome = "conflict" => pc[p] # "recheck"
    /\ faults < MaxFaults /\ faults' = faults + 1
    /\ pending' = [pending EXCEPT ![p] = {}]
    /\ \E m \in Id : IsCurrent(p, m) /\ EndAttempt(p, m, outcome)
    /\ UNCHANGED <<schema, database, dir, ran, calls>>

\* mysql: the server drops the guard connection, and the lock with it, while
\* the inner transaction goes on.
GuardDrops(p) ==
    /\ Dialect = "mysql" /\ lock = p
    /\ faults < MaxFaults /\ faults' = faults + 1
    /\ lock' = None
    /\ UNCHANGED <<schema, database, pc, dir, todo, script, attempt, appliedNow, result, calls>>

\* The process dies; the server rolls back and frees its locks.
Crash(p) ==
    /\ pc[p] # "idle"
    /\ faults < MaxFaults /\ faults' = faults + 1
    /\ Raise(p, "crashed")
    /\ lock' = Unlocked(p)
    /\ pending' = [pending EXCEPT ![p] = {}]
    /\ UNCHANGED <<schema, database, dir, todo, ran, attempt, appliedNow, calls>>

-----------------------------------------------------------------------------
Progress(p) ==
    \/ CreateTable(p) \/ LockedOut(p) \/ LoadApplied(p) \/ Begin(p) \/ BusyTimeout(p) \/ Wake(p) \/ AcquireLock(p)
    \/ Recheck(p) \/ RunStatement(p) \/ InsertRow(p) \/ Commit(p, "applied")
    \/ Release(p) \/ Resolve(p)

Fault(p) ==
    \/ Commit(p, "error") \/ QueryFails(p) \/ GuardDrops(p) \/ Crash(p)
    \/ \E outcome \in {"conflict", "error"} : StatementFails(p, outcome)

Next == \E p \in Proc : Call(p) \/ Progress(p) \/ Fault(p)

Spec == Init /\ [][Next]_vars

\* A process that is inside a call keeps running; nobody has to call.
FairSpec == Spec /\ \A p \in Proc : WF_vars(Progress(p))
-----------------------------------------------------------------------------
\* Variables have their types.
TypeOK ==
    /\ table \in BOOLEAN /\ blind \in [Proc -> BOOLEAN]
    /\ tracked \in [Id -> Content \cup {None}]
    /\ effects \in [Id -> [Content -> [Statements -> Nat]]]
    /\ lock \in Proc \cup {None}
    /\ pc \in [Proc -> PC]
    /\ dir \in [Proc -> [Id -> Content \cup {None}]]
    /\ todo \in [Proc -> SUBSET Id]
    /\ ran \in [Proc -> 0..NumStmts]
    /\ pending \in [Proc -> SUBSET Statements]
    /\ attempt \in [Proc -> Outcome]
    /\ appliedNow \in [Proc -> SUBSET Id]
    /\ result \in [Proc -> Outcome \cup {"none", "running", "ok", "crashed", "locked"}]
    /\ calls \in [Proc -> Nat]
    /\ faults \in Nat

\* A statement of a migration has taken effect once if the migration is
\* recorded with that content, and never otherwise: whatever races, fails or
\* dies, scripts run exactly once and a failed one leaves no trace
\* (migrator.py, _apply_in_transaction; sqlite and postgresql).
ExactlyOnce ==
    \A m \in Id, c \in Content, s \in Statements :
        effects[m][c][s] = IF tracked[m] = c THEN 1 ELSE 0

\* When apply_all returns normally, every file it discovered is recorded with
\* the content it discovered: no race makes a call skip a migration, or skip
\* one that was applied from another content (_load_applied,
\* _verify_lost_race, _resolve_tracking_conflict).
ReturnMeansRecorded ==
    \A p \in Proc : result[p] = "ok" =>
        \A m \in Id : dir[p][m] # None => tracked[m] = dir[p][m]

\* No migration is reported as applied by two calls: "exactly one process
\* applies it, the others skip" (apply_all returns only what it applied).
OneApplier ==
    \A p, q \in Proc : p # q => appliedNow[p] \cap appliedNow[q] = {}

\* Only the lock's holder is between the re-check and the end of its
\* transaction, so no two scripts ever interleave (BEGIN IMMEDIATE,
\* pg_advisory_xact_lock, GET_LOCK).
ScriptsDoNotOverlap ==
    \A p, q \in Proc : pc[p] \in InTransaction /\ pc[q] \in InTransaction => p = q

\* A migration is recorded only when every earlier file of the directory its
\* applier discovered is recorded from that same content (the loop of apply_all
\* goes in prefix order, and a failure stops it).
AppliedInOrder ==
    [][\A m \in Id : tracked[m] = None /\ tracked'[m] # None =>
          \E p \in Proc :
             /\ pc[p] = "commit" /\ pc'[p] # "commit" /\ dir[p][m] # None
             /\ \A k \in Id : k < m /\ dir[p][k] # None => tracked[k] = dir[p][k]]_vars

\* So far every process has started once at most, over one and the same directory.
OneDeployment ==
    /\ \A p \in Proc : calls[p] <= 1
    /\ \A p, q \in Proc : calls[p] = 1 /\ calls[q] = 1 => dir[p] = dir[q]

\* When the workers start over one directory and nothing fails, a worker comes up
\* clean, whoever wins each race for a migration; only the sqlite lock can keep it
\* from creating the tracking table, and then a worker that is past that point comes
\* up (_load_applied, the busy retry of _apply_one, the re-check under the lock).
WorkersComeUpClean ==
    faults = 0 /\ OneDeployment =>
        \A p \in Proc :
            \/ result[p] \in {"none", "running", "ok"}
            \/ /\ result[p] = "locked"
               /\ \E q \in Proc : pc[q] # "create" /\ result[q] \in {"running", "ok"}

\* Stated, and broken on sqlite by a worker whose connection read the schema before
\* the table was there, while another one migrates for longer than busy_timeout:
\* "Every worker must come up clean" (test_four_processes_racing_apply_exactly_once).
NobodyLockedOut == faults = 0 => \A p \in Proc : result[p] # "locked"

\* A recorded migration has had every statement of the recorded content run
\* and committed, even where DDL commits itself and the lock can be lost.
RecordedMeansRun ==
    \A m \in Id : tracked[m] # None =>
        \A s \in Statements : effects[m][tracked[m]][s] >= 1

\* A migration that failed, with nobody working on it any more, has left no
\* trace: "a failure rolls back that migration completely" (migrator.py:34-37).
FailureLeavesNoTrace ==
    (\A p \in Proc : pc[p] = "idle") =>
        \A m \in Id, c \in Content, s \in Statements :
            tracked[m] = None => effects[m][c][s] = 0

\* A process whose inner transaction recorded a migration does not end its
\* attempt with an error: "Never mask the migration's own outcome"
\* (_release_mysql_lock), as long as the COMMIT itself was answered.
OutcomeNotMasked ==
    [][\A p \in Proc : pc[p] = "release" /\ attempt[p] = "applied" /\ pc'[p] # pc[p]
                       /\ result'[p] # "crashed" => result'[p] # "error"]_vars

\* Every call of apply_all ends, by returning or raising: lock waits, busy
\* retries and the re-check cannot keep a worker from starting for ever.
EveryCallEnds == \A p \in Proc : pc[p] # "idle" ~> pc[p] = "idle"

\* On sqlite and postgresql the database only ever changes as MigrationHistory
\* says: all statements of one content and its row in one step, every earlier
\* file of the applier's directory being recorded.
History == INSTANCE MigrationHistory WITH tracked <- tracked, effects <- effects
ImplementsHistory == History!Spec

\* Every dialect keeps the weaker log: no statement takes effect before the
\* earlier files are recorded, the row comes once and only after every
\* statement, though mysql may run some of them early, twice or in vain
\* (the loop of apply_all, _apply_in_transaction).
ImplementsLog == History!LogSpec
=============================================================================
