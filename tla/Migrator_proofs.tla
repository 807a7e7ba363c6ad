--------------------------- MODULE Migrator_proofs ---------------------------
(***************************************************************************)
(* Theorems about Migrator, for every set of processes, every directory    *)
(* and every number of migrations, statements, calls and faults.           *)
(***************************************************************************)
EXTENDS Migrator, TLAPS

\* Committing some runs keeps the table of effects well typed.
LEMMA DurableType ==
    ASSUME TypeOK, NEW p \in Proc, NEW m \in Id, dir[p][m] # None,
           NEW stmts \in SUBSET Statements, Durable(p, m, stmts)
    PROVE  effects' \in [Id -> [Content -> [Statements -> Nat]]]
<1> DEFINE c == dir[p][m]
           row == [s \in Statements |-> IF s \in stmts THEN effects[m][c][s] + 1
                                        ELSE effects[m][c][s]]
<1>1. c \in Content
  BY DEF TypeOK
<1>2. row \in [Statements -> Nat]
  BY <1>1 DEF TypeOK
<1>3. effects' = [effects EXCEPT ![m][c] = row]
  BY DEF Durable
<1> HIDE DEF row, c
<1>4. [effects[m] EXCEPT ![c] = row] \in [Content -> [Statements -> Nat]]
  BY <1>1, <1>2 DEF TypeOK
<1>5. QED
  BY <1>3, <1>4 DEF TypeOK

\* Going on with the loop keeps the variables it touches well typed.
LEMMA SettleType ==
    ASSUME TypeOK, NEW p \in Proc, NEW m \in Id, NEW outcome \in Outcome,
           Settle(p, m, outcome)
    PROVE  /\ todo' \in [Proc -> SUBSET Id]
           /\ appliedNow' \in [Proc -> SUBSET Id]
           /\ pc' \in [Proc -> PC]
           /\ result' \in [Proc -> Outcome \cup {"none", "running", "ok", "crashed", "locked"}]
BY DEF Settle, TypeOK, PC

\* So does the end of a transaction.
LEMMA EndAttemptType ==
    ASSUME TypeOK, NEW p \in Proc, NEW m \in Id, NEW outcome \in Outcome,
           EndAttempt(p, m, outcome)
    PROVE  /\ todo' \in [Proc -> SUBSET Id]
           /\ appliedNow' \in [Proc -> SUBSET Id]
           /\ pc' \in [Proc -> PC]
           /\ result' \in [Proc -> Outcome \cup {"none", "running", "ok", "crashed", "locked"}]
           /\ lock' \in Proc \cup {None}
           /\ attempt' \in [Proc -> Outcome]
<1>1. CASE Dialect = "mysql"
  <2>1. /\ pc' = [pc EXCEPT ![p] = "release"]
        /\ attempt' = [attempt EXCEPT ![p] = outcome]
        /\ UNCHANGED <<lock, todo, appliedNow, result>>
    BY <1>1 DEF EndAttempt
  <2>2. QED
    BY <2>1 DEF TypeOK, PC
<1>2. CASE Dialect # "mysql"
  BY <1>2, SettleType DEF EndAttempt, TypeOK, Unlocked
<1>3. QED
  BY <1>1, <1>2

\* The least id still to do is an id with a file in the caller's directory.
TodoHasFile == \A p \in Proc : \A m \in todo[p] : dir[p][m] # None

\* Every step preserves the types, given that work lists hold discovered ids.
LEMMA TypeStep ==
    ASSUME TypeOK, TodoHasFile, [Next]_vars
    PROVE  TypeOK'
<1> USE MigratorAssumption
<1>1. ASSUME NEW p \in Proc, Call(p) PROVE TypeOK'
  BY <1>1 DEF Call, schema, TypeOK, PC, database, schema, script
<1>2. ASSUME NEW p \in Proc, LoadApplied(p) PROVE TypeOK'
  <2>1. todo' \in [Proc -> SUBSET Id]
    BY <1>2 DEF LoadApplied, TypeOK
  <2>2. pc' \in [Proc -> PC]
    BY <1>2 DEF LoadApplied, Raise, TypeOK, PC
  <2>3. result' \in [Proc -> Outcome \cup {"none", "running", "ok", "crashed", "locked"}]
    BY <1>2 DEF LoadApplied, Raise, TypeOK, Outcome
  <2>4. UNCHANGED <<table, blind, tracked, effects, lock, dir, ran, pending, attempt, appliedNow, calls, faults>>
    BY <1>2 DEF LoadApplied, database, schema, script
  <2>5. QED
    BY <2>1, <2>2, <2>3, <2>4 DEF TypeOK
<1>0. ASSUME NEW p \in Proc, CreateTable(p) \/ LockedOut(p) PROVE TypeOK'
  BY <1>0 DEF CreateTable, LockedOut, Raise, TypeOK, PC, database, schema, script
<1>3. ASSUME NEW p \in Proc, Begin(p) PROVE TypeOK'
  BY <1>3 DEF Begin, TypeOK, PC, database, schema, script
<1>4. ASSUME NEW p \in Proc, BusyTimeout(p) PROVE TypeOK'
  BY <1>4 DEF BusyTimeout, TypeOK, PC, database, schema, script
<1>5. ASSUME NEW p \in Proc, Wake(p) PROVE TypeOK'
  BY <1>5 DEF Wake, TypeOK, PC, database, schema, script
<1>6. ASSUME NEW p \in Proc, AcquireLock(p) PROVE TypeOK'
  BY <1>6 DEF AcquireLock, TypeOK, PC, database, schema, script
<1>7. ASSUME NEW p \in Proc, Recheck(p) PROVE TypeOK'
  <2> PICK m \in Id :
        \/ /\ pc' = [pc EXCEPT ![p] = "run"]
           /\ UNCHANGED <<lock, todo, attempt, appliedNow, result>>
        \/ EndAttempt(p, m, VerifyLostRace(p, m))
    BY <1>7 DEF Recheck
  <2>1. VerifyLostRace(p, m) \in Outcome
    BY DEF VerifyLostRace, Outcome
  <2>2. /\ ran' \in [Proc -> 0..NumStmts]
        /\ pending' \in [Proc -> SUBSET Statements]
        /\ UNCHANGED <<table, blind, tracked, effects, dir, calls, faults>>
    BY <1>7 DEF Recheck, TypeOK, database, schema
  <2>3. CASE /\ pc' = [pc EXCEPT ![p] = "run"]
             /\ UNCHANGED <<lock, todo, attempt, appliedNow, result>>
    BY <2>2, <2>3 DEF TypeOK, PC
  <2>4. CASE EndAttempt(p, m, VerifyLostRace(p, m))
    BY <2>1, <2>2, <2>4, EndAttemptType DEF TypeOK
  <2>5. QED
    BY <2>3, <2>4
<1>8. ASSUME NEW p \in Proc, RunStatement(p) PROVE TypeOK'
  <2> DEFINE s == ran[p] + 1
  <2>1. s \in Statements
    BY <1>8 DEF RunStatement, ScriptDone, TypeOK, Statements
  <2>2. /\ ran' \in [Proc -> 0..NumStmts]
        /\ UNCHANGED <<table, blind, tracked, lock, pc, dir, todo, attempt, appliedNow, result, calls, faults>>
    BY <1>8, <2>1 DEF RunStatement, TypeOK, Statements, schema
  <2>3. pending' \in [Proc -> SUBSET Statements]
    BY <1>8, <2>1, SMTT(30) DEF RunStatement, TypeOK
  <2>4. effects' \in [Id -> [Content -> [Statements -> Nat]]]
    <3>1. CASE UNCHANGED effects
      BY <3>1 DEF TypeOK
    <3>2. CASE \E m \in Id : IsCurrent(p, m) /\ Durable(p, m, pending[p] \cup {s})
      <4>1. PICK m \in Id : IsCurrent(p, m) /\ Durable(p, m, pending[p] \cup {s})
        BY <3>2
      <4>2. pending[p] \cup {s} \in SUBSET Statements
        BY <2>1 DEF TypeOK
      <4>3. dir[p][m] # None
        BY <4>1 DEF IsCurrent, TodoHasFile
      <4>4. QED
        BY <4>1, <4>2, <4>3, DurableType
    <3>3. QED
      BY <1>8, <3>1, <3>2 DEF RunStatement
  <2>5. QED
    BY <2>2, <2>3, <2>4 DEF TypeOK
<1>9. ASSUME NEW p \in Proc, InsertRow(p) PROVE TypeOK'
  <2> PICK m \in Id :
        \/ /\ pc' = [pc EXCEPT ![p] = "commit"]
           /\ UNCHANGED <<lock, todo, pending, attempt, appliedNow, result>>
        \/ /\ pending' = [pending EXCEPT ![p] = {}]
           /\ EndAttempt(p, m, "conflict")
    BY <1>9 DEF InsertRow
  <2>1. UNCHANGED <<table, blind, tracked, effects, dir, ran, calls, faults>>
    BY <1>9 DEF InsertRow, database, schema
  <2>2. CASE /\ pc' = [pc EXCEPT ![p] = "commit"]
             /\ UNCHANGED <<lock, todo, pending, attempt, appliedNow, result>>
    BY <2>1, <2>2 DEF TypeOK, PC
  <2>3. CASE /\ pending' = [pending EXCEPT ![p] = {}]
             /\ EndAttempt(p, m, "conflict")
    <3>1. "conflict" \in Outcome
      BY DEF Outcome
    <3>2. pending' \in [Proc -> SUBSET Statements]
      BY <2>3 DEF TypeOK
    <3>3. QED
      BY <2>1, <2>3, <3>1, <3>2, EndAttemptType DEF TypeOK
  <2>4. QED
    BY <2>2, <2>3
<1>10. ASSUME NEW p \in Proc, NEW outcome \in {"applied", "error"}, Commit(p, outcome)
       PROVE TypeOK'
  <2> PICK m \in Id : /\ IsCurrent(p, m)
                      /\ Durable(p, m, pending[p])
                      /\ tracked' = [tracked EXCEPT ![m] = dir[p][m]]
                      /\ EndAttempt(p, m, outcome)
    BY <1>10 DEF Commit
  <2>1. outcome \in Outcome
    BY DEF Outcome
  <2>2. /\ faults' \in Nat
        /\ pending' \in [Proc -> SUBSET Statements]
        /\ tracked' \in [Id -> Content \cup {None}]
        /\ UNCHANGED <<table, blind, dir, ran, calls>>
    BY <1>10 DEF Commit, TypeOK, schema
  <2>3. effects' \in [Id -> [Content -> [Statements -> Nat]]]
    <3>1. dir[p][m] # None /\ pending[p] \in SUBSET Statements
      BY DEF IsCurrent, TodoHasFile, TypeOK
    <3>2. QED
      BY <3>1, DurableType
  <2>4. QED
    BY <2>1, <2>2, <2>3, EndAttemptType DEF TypeOK
<1>11. ASSUME NEW p \in Proc, Release(p) PROVE TypeOK'
  <2> PICK m \in Id :
        Settle(p, m, IF lock # p /\ attempt[p] \in {"applied", "skipped"}
                     THEN "error" ELSE attempt[p])
    BY <1>11 DEF Release
  <2>1. (IF lock # p /\ attempt[p] \in {"applied", "skipped"}
         THEN "error" ELSE attempt[p]) \in Outcome
    BY DEF Outcome, TypeOK
  <2>2. lock' \in Proc \cup {None}
    BY <1>11 DEF Release, Unlocked, TypeOK
  <2>3. UNCHANGED <<table, blind, tracked, effects, dir, ran, pending, attempt, calls, faults>>
    BY <1>11 DEF Release, database, schema, script
  <2>4. QED
    BY <2>1, <2>2, <2>3, SettleType DEF TypeOK
<1>12. ASSUME NEW p \in Proc, Resolve(p) PROVE TypeOK'
  <2> PICK m \in Id :
        Settle(p, m, IF tracked[m] = None THEN "error" ELSE VerifyLostRace(p, m))
    BY <1>12 DEF Resolve
  <2>1. (IF tracked[m] = None THEN "error" ELSE VerifyLostRace(p, m)) \in Outcome
    BY DEF Outcome, VerifyLostRace
  <2>2. UNCHANGED <<table, blind, tracked, effects, lock, dir, ran, pending, attempt, calls, faults>>
    BY <1>12 DEF Resolve, database, schema, script
  <2>3. QED
    BY <2>1, <2>2, SettleType DEF TypeOK
<1>13. ASSUME NEW p \in Proc, QueryFails(p) PROVE TypeOK'
  BY <1>13 DEF QueryFails, Raise, TypeOK, PC, Outcome, database, schema, script
<1>14. ASSUME NEW p \in Proc, NEW outcome \in {"conflict", "error"},
              StatementFails(p, outcome)
       PROVE TypeOK'
  <2> PICK m \in Id : EndAttempt(p, m, outcome)
    BY <1>14 DEF StatementFails
  <2>1. outcome \in Outcome
    BY DEF Outcome
  <2>2. /\ faults' \in Nat
        /\ pending' \in [Proc -> SUBSET Statements]
        /\ UNCHANGED <<table, blind, tracked, effects, dir, ran, calls>>
    BY <1>14 DEF StatementFails, TypeOK, database, schema
  <2>3. QED
    BY <2>1, <2>2, EndAttemptType DEF TypeOK
<1>15. ASSUME NEW p \in Proc, GuardDrops(p) PROVE TypeOK'
  BY <1>15 DEF GuardDrops, TypeOK, database, schema, script
<1>16. ASSUME NEW p \in Proc, Crash(p) PROVE TypeOK'
  BY <1>16 DEF Crash, Raise, Unlocked, TypeOK, PC, database, schema
<1>17. CASE UNCHANGED vars
  BY <1>17 DEF vars, schema, database, TypeOK
<1>18. QED
  BY <1>0, <1>1, <1>2, <1>3, <1>4, <1>5, <1>6, <1>7, <1>8, <1>9, <1>10, <1>11, <1>12, <1>13,
     <1>14, <1>15, <1>16, <1>17 DEF Next, Progress, Fault

-----------------------------------------------------------------------------
(***************************************************************************)
(* What every dialect guarantees.  TodoInv ties the work list to the scan: *)
(* whatever a running call no longer has to do is recorded from its own    *)
(* content.  It survives other processes' commits because a row is only    *)
(* inserted where there is none (RowInv), which is why a call that returns *)
(* has everything recorded.                                                *)
(***************************************************************************)
RowInv ==
    \A p \in Proc, m \in Id :
        pc[p] = "commit" /\ IsCurrent(p, m) =>
            /\ tracked[m] = None
            /\ \A q \in Proc : pc[q] = "commit" /\ IsCurrent(q, m) => q = p

TodoInv ==
    \A p \in Proc, m \in Id :
        /\ m \in todo[p] => dir[p][m] # None
        /\ (pc[p] \notin {"idle", "create", "load"} \/ result[p] = "ok") =>
              (dir[p][m] # None => m \in todo[p] \/ tracked[m] = dir[p][m])
        /\ result[p] = "ok" => m \notin todo[p]
        /\ pc[p] = "release" /\ attempt[p] \in Done /\ IsCurrent(p, m) =>
              tracked[m] = dir[p][m]
        /\ pc[p] # "idle" => result[p] # "ok"

RecordedInv == TypeOK /\ RowInv /\ TodoInv

\* The current migration of a work list is one migration.
LEMMA CurrentIsUnique ==
    ASSUME TypeOK, NEW p \in Proc, NEW m \in Id, NEW k \in Id,
           IsCurrent(p, m), IsCurrent(p, k)
    PROVE  m = k
BY MigratorAssumption DEF IsCurrent

\* A step that leaves the tables, the work lists and who is at its COMMIT alone
\* preserves RowInv.
LEMMA RowFrame ==
    ASSUME RowInv, UNCHANGED <<tracked, todo>>,
           \A q \in Proc : pc'[q] = "commit" => pc[q] = "commit"
    PROVE  RowInv'
BY DEF RowInv, IsCurrent

\* So does shrinking the work list of a process that is then elsewhere.
LEMMA RowFrameOne ==
    ASSUME TypeOK, RowInv, NEW p \in Proc, UNCHANGED tracked,
           pc'[p] # "commit",
           \A q \in Proc \ {p} : pc'[q] = pc[q] /\ todo'[q] = todo[q]
    PROVE  RowInv'
BY DEF RowInv, IsCurrent

RecordedRest(q) ==
    /\ todo'[q] = todo[q] /\ dir'[q] = dir[q] /\ pc'[q] = pc[q]
    /\ result'[q] = result[q] /\ attempt'[q] = attempt[q]

\* TodoInv of the processes that do not move survives any step that only
\* adds rows.
LEMMA TodoFrame ==
    ASSUME TypeOK, TodoInv, NEW p \in Proc,
           \A m \in Id : tracked[m] # None => tracked'[m] = tracked[m],
           \A q \in Proc \ {p} : RecordedRest(q),
           \A m \in Id :
             /\ m \in todo'[p] => dir'[p][m] # None
             /\ (pc'[p] \notin {"idle", "create", "load"} \/ result'[p] = "ok") =>
                   (dir'[p][m] # None => m \in todo'[p] \/ tracked'[m] = dir'[p][m])
             /\ result'[p] = "ok" => m \notin todo'[p]
             /\ pc'[p] = "release" /\ attempt'[p] \in Done /\ IsCurrent(p, m)' =>
                   tracked'[m] = dir'[p][m]
             /\ pc'[p] # "idle" => result'[p] # "ok"
    PROVE  TodoInv'
<1> SUFFICES ASSUME NEW q \in Proc \ {p}, NEW m \in Id
             PROVE  /\ m \in todo'[q] => dir'[q][m] # None
                    /\ (pc'[q] \notin {"idle", "create", "load"} \/ result'[q] = "ok") =>
                          (dir'[q][m] # None => m \in todo'[q] \/ tracked'[m] = dir'[q][m])
                    /\ result'[q] = "ok" => m \notin todo'[q]
                    /\ pc'[q] = "release" /\ attempt'[q] \in Done /\ IsCurrent(q, m)' =>
                          tracked'[m] = dir'[q][m]
                    /\ pc'[q] # "idle" => result'[q] # "ok"
  BY DEF TodoInv
<1>1. RecordedRest(q) /\ (tracked[m] # None => tracked'[m] = tracked[m])
  OBVIOUS
<1>2. IsCurrent(q, m)' <=> IsCurrent(q, m)
  BY <1>1 DEF IsCurrent, RecordedRest
<1>3. /\ m \in todo[q] => dir[q][m] # None
      /\ (pc[q] \notin {"idle", "create", "load"} \/ result[q] = "ok") =>
            (dir[q][m] # None => m \in todo[q] \/ tracked[m] = dir[q][m])
      /\ result[q] = "ok" => m \notin todo[q]
      /\ pc[q] = "release" /\ attempt[q] \in Done /\ IsCurrent(q, m) =>
            tracked[m] = dir[q][m]
      /\ pc[q] # "idle" => result[q] # "ok"
  BY DEF TodoInv
<1>4. IsCurrent(q, m) => dir[q][m] # None
  BY <1>3 DEF IsCurrent
<1>5. QED
  BY <1>1, <1>2, <1>3, <1>4 DEF RecordedRest
\* What Settle does to the process it is about.
LEMMA SettleTodo ==
    ASSUME TypeOK, TodoInv, NEW p \in Proc, NEW m \in Id, NEW outcome \in Outcome,
           IsCurrent(p, m), pc[p] \notin {"idle", "create", "load"},
           Settle(p, m, outcome), UNCHANGED <<dir, attempt>>,
           outcome \in Done => tracked'[m] = dir[p][m],
           \A k \in Id : tracked[k] # None => tracked'[k] = tracked[k]
    PROVE  TodoInv' /\ pc'[p] \notin {"commit", "release"}
                    /\ \A q \in Proc \ {p} : RecordedRest(q)
<1>1. /\ todo'[p] = IF outcome \in Done THEN todo[p] \ {m} ELSE todo[p]
      /\ pc'[p] = IF outcome = "conflict" THEN "resolve"
                  ELSE IF outcome \in Done /\ todo'[p] # {} THEN "begin" ELSE "idle"
      /\ result'[p] = IF outcome \in Done /\ todo'[p] = {} THEN "ok"
                      ELSE IF outcome \in Done \/ outcome = "conflict" THEN "running"
                      ELSE outcome
      /\ \A q \in Proc \ {p} : RecordedRest(q)
  BY DEF Settle, TypeOK, RecordedRest
<1>2. pc'[p] \notin {"commit", "release"}
  BY <1>1
<1>3. result'[p] = "ok" => outcome \in Done /\ todo'[p] = {}
  BY <1>1 DEF Outcome
<1>4. pc'[p] # "idle" => result'[p] # "ok"
  BY <1>1 DEF Done
<1>5. ASSUME NEW k \in Id
      PROVE  /\ k \in todo'[p] => dir'[p][k] # None
             /\ dir'[p][k] # None => k \in todo'[p] \/ tracked'[k] = dir'[p][k]
  BY <1>1 DEF TodoInv
<1>6. TodoInv'
  BY <1>1, <1>2, <1>3, <1>4, <1>5, TodoFrame
<1>7. QED
  BY <1>1, <1>2, <1>6

\* What the end of a transaction does to the process it is about.
LEMMA EndAttemptTodo ==
    ASSUME TypeOK, TodoInv, NEW p \in Proc, NEW m \in Id, NEW outcome \in Outcome,
           IsCurrent(p, m), pc[p] \notin {"idle", "create", "load"},
           EndAttempt(p, m, outcome), UNCHANGED dir,
           outcome \in Done => tracked'[m] = dir[p][m],
           \A k \in Id : tracked[k] # None => tracked'[k] = tracked[k]
    PROVE  TodoInv' /\ pc'[p] # "commit" /\ \A q \in Proc \ {p} : RecordedRest(q)
<1>1. CASE Dialect # "mysql"
  <2>1. Settle(p, m, outcome) /\ UNCHANGED attempt
    BY <1>1 DEF EndAttempt
  <2>2. QED
    BY <2>1, SettleTodo
<1>2. CASE Dialect = "mysql"
  <2>1. /\ pc' = [pc EXCEPT ![p] = "release"]
        /\ attempt' = [attempt EXCEPT ![p] = outcome]
        /\ UNCHANGED <<lock, todo, appliedNow, result>>
    BY <1>2 DEF EndAttempt
  <2>2. pc'[p] = "release" /\ attempt'[p] = outcome
    BY <2>1 DEF TypeOK
  <2>3. \A q \in Proc \ {p} : RecordedRest(q)
    BY <2>1 DEF TypeOK, RecordedRest
  <2>4. result'[p] # "ok"
    BY <2>1 DEF TodoInv
  <2>5. \A k \in Id : IsCurrent(p, k)' => k = m
    BY <2>1, CurrentIsUnique DEF IsCurrent
  <2>6. ASSUME NEW k \in Id
        PROVE  /\ k \in todo'[p] => dir'[p][k] # None
               /\ dir'[p][k] # None => k \in todo'[p] \/ tracked'[k] = dir'[p][k]
    BY <2>1 DEF TodoInv
  <2>7. TodoInv'
    BY <2>2, <2>3, <2>4, <2>5, <2>6, TodoFrame
  <2>8. QED
    BY <2>2, <2>3, <2>7
<1>3. QED
  BY <1>1, <1>2

LEMMA RecordedInit == Init => RecordedInv
<1> USE MigratorAssumption
<1> SUFFICES ASSUME Init PROVE RecordedInv
  OBVIOUS
<1>1. table \in BOOLEAN /\ blind \in [Proc -> BOOLEAN]
  <2>1. CASE Dialect = "sqlite"
    BY <2>1 DEF Init
  <2>2. CASE Dialect # "sqlite"
    BY <2>2 DEF Init
  <2>3. QED
    BY <2>1, <2>2
<1>2. TypeOK
  BY <1>1 DEF Init, TypeOK, PC, Outcome
<1>3. RowInv /\ TodoInv
  BY DEF Init, RowInv, TodoInv
<1>4. QED
  BY <1>2, <1>3 DEF RecordedInv

\* Every step of every dialect preserves RecordedInv: rows are only added, by
\* the one process whose INSERT of that id is uncommitted.
LEMMA RecordedStep == RecordedInv /\ [Next]_vars => RecordedInv'
<1> USE MigratorAssumption
<1> SUFFICES ASSUME TypeOK, RowInv, TodoInv, [Next]_vars
             PROVE  TypeOK' /\ RowInv' /\ TodoInv'
  BY DEF RecordedInv
<1> TypeOK'
  BY TypeStep DEF TodoInv, TodoHasFile, TypeOK
<1>1. ASSUME NEW p \in Proc, Call(p) PROVE RowInv' /\ TodoInv'
  <2>1. /\ pc'[p] = "create" /\ todo'[p] = {} /\ result'[p] = "running"
        /\ UNCHANGED tracked
        /\ \A q \in Proc \ {p} : RecordedRest(q)
    BY <1>1 DEF Call, TypeOK, RecordedRest, database
  <2>2. QED
    BY <2>1, RowFrameOne, TodoFrame DEF RecordedRest
<1>0. ASSUME NEW p \in Proc, CreateTable(p) \/ LockedOut(p) PROVE RowInv' /\ TodoInv'
  <2>1. /\ UNCHANGED <<tracked, dir, todo, attempt>>
        /\ pc[p] = "create"
        /\ \/ pc'[p] = "load" /\ result'[p] = result[p]
           \/ pc'[p] = "idle" /\ result'[p] = "locked"
        /\ \A q \in Proc \ {p} : RecordedRest(q)
    <3>1. CASE CreateTable(p)
      BY <3>1 DEF CreateTable, TypeOK, RecordedRest, database
    <3>2. CASE LockedOut(p)
      BY <3>2 DEF LockedOut, Raise, TypeOK, RecordedRest, database
    <3>3. QED
      BY <1>0, <3>1, <3>2
  <2>2. RowInv'
    BY <2>1, RowFrameOne DEF RecordedRest
  <2>3. \A m \in Id : result'[p] # "ok"
    BY <2>1 DEF TodoInv
  <2>4. QED
    BY <2>1, <2>2, <2>3, TodoFrame DEF TodoInv, RecordedRest
<1>2. ASSUME NEW p \in Proc, LoadApplied(p) PROVE RowInv' /\ TodoInv'
  <2>1. /\ UNCHANGED <<tracked, dir, attempt>>
        /\ pc[p] = "load"
        /\ \A q \in Proc \ {p} : RecordedRest(q)
    BY <1>2 DEF LoadApplied, Raise, TypeOK, RecordedRest, database
  <2>2. CASE Vanished(p) = {} /\ Drifted(p) = {}
             /\ LET missing == {m \in Id : dir[p][m] # None /\ tracked[m] = None}
                IN  /\ todo' = [todo EXCEPT ![p] = missing]
                    /\ pc' = [pc EXCEPT ![p] = IF missing = {} THEN "idle" ELSE "begin"]
                    /\ result' = [result EXCEPT ![p] = IF missing = {} THEN "ok" ELSE "running"]
    <3> DEFINE missing == {m \in Id : dir[p][m] # None /\ tracked[m] = None}
    <3>1. /\ todo'[p] = missing
          /\ pc'[p] = IF missing = {} THEN "idle" ELSE "begin"
          /\ result'[p] = IF missing = {} THEN "ok" ELSE "running"
      BY <2>2 DEF TypeOK
    <3>2. \A m \in Id : dir[p][m] # None /\ tracked[m] # None => tracked[m] = dir[p][m]
      BY <2>2 DEF Drifted
    <3>3. TodoInv'
      BY <2>1, <3>1, <3>2, TodoFrame
    <3>4. RowInv'
      BY <2>1, <3>1, RowFrameOne DEF RecordedRest
    <3>5. QED
      BY <3>3, <3>4
  <2>3. CASE /\ UNCHANGED todo
             /\ Raise(p, "error") \/ Raise(p, "mismatch")
    <3>1. pc'[p] = "idle" /\ result'[p] # "ok"
      BY <2>3 DEF Raise, TypeOK
    <3>2. TodoInv'
      BY <2>1, <2>3, <3>1, TodoFrame DEF TodoInv
    <3>3. RowInv'
      BY <2>1, <3>1, RowFrameOne DEF RecordedRest
    <3>4. QED
      BY <3>2, <3>3
  <2>4. QED
    BY <1>2, <2>2, <2>3 DEF LoadApplied
<1>3. ASSUME NEW p \in Proc,
             Begin(p) \/ BusyTimeout(p) \/ Wake(p) \/ AcquireLock(p)
      PROVE  RowInv' /\ TodoInv'
  <2>1. /\ UNCHANGED <<tracked, dir, todo, attempt, result>>
        /\ pc[p] \in {"begin", "sleep", "lock"}
        /\ pc'[p] \in {"begin", "sleep", "lock", "recheck"}
        /\ \A q \in Proc \ {p} : RecordedRest(q)
    BY <1>3 DEF Begin, BusyTimeout, Wake, AcquireLock, TypeOK, RecordedRest, database
  <2>2. QED
    BY <2>1, RowFrameOne, TodoFrame DEF TodoInv, RecordedRest
<1>4. ASSUME NEW p \in Proc, Recheck(p) PROVE RowInv' /\ TodoInv'
  <2>1. PICK m \in Id :
          /\ IsCurrent(p, m)
          /\ \/ /\ tracked[m] = None
                /\ pc' = [pc EXCEPT ![p] = "run"]
                /\ UNCHANGED <<lock, todo, attempt, appliedNow, result>>
             \/ /\ tracked[m] # None
                /\ EndAttempt(p, m, VerifyLostRace(p, m))
    BY <1>4 DEF Recheck
  <2>2. pc[p] = "recheck" /\ UNCHANGED <<tracked, dir>>
    BY <1>4 DEF Recheck, database
  <2>3. CASE /\ pc' = [pc EXCEPT ![p] = "run"]
             /\ UNCHANGED <<lock, todo, attempt, appliedNow, result>>
    <3>1. pc'[p] = "run" /\ \A q \in Proc \ {p} : RecordedRest(q)
      BY <2>2, <2>3 DEF TypeOK, RecordedRest
    <3>2. QED
      BY <2>2, <2>3, <3>1, RowFrameOne, TodoFrame DEF TodoInv, RecordedRest
  <2>4. CASE EndAttempt(p, m, VerifyLostRace(p, m))
    <3>1. /\ VerifyLostRace(p, m) \in Outcome
          /\ VerifyLostRace(p, m) \in Done => tracked'[m] = dir[p][m]
      BY <2>2 DEF VerifyLostRace, Outcome, Done
    <3>2. TodoInv' /\ pc'[p] # "commit" /\ \A q \in Proc \ {p} : RecordedRest(q)
      BY <2>1, <2>2, <2>4, <3>1, EndAttemptTodo
    <3>3. QED
      BY <2>2, <3>2, RowFrameOne DEF RecordedRest
  <2>5. QED
    BY <2>1, <2>3, <2>4
<1>5. ASSUME NEW p \in Proc, RunStatement(p) PROVE RowInv' /\ TodoInv'
  <2>1. UNCHANGED <<tracked, pc, dir, todo, attempt, result>>
    BY <1>5 DEF RunStatement
  <2>2. QED
    BY <2>1 DEF RowInv, TodoInv, IsCurrent
<1>6. ASSUME NEW p \in Proc, InsertRow(p) PROVE RowInv' /\ TodoInv'
  <2>1. PICK m \in Id :
          /\ IsCurrent(p, m)
          /\ \A q \in Proc : ~(pc[q] = "commit" /\ IsCurrent(q, m))
          /\ \/ /\ tracked[m] = None
                /\ pc' = [pc EXCEPT ![p] = "commit"]
                /\ UNCHANGED <<lock, todo, pending, attempt, appliedNow, result>>
             \/ EndAttempt(p, m, "conflict")
    BY <1>6 DEF InsertRow
  <2>2. pc[p] = "run" /\ UNCHANGED <<tracked, dir>>
    BY <1>6 DEF InsertRow, database
  <2>3. CASE /\ tracked[m] = None
             /\ pc' = [pc EXCEPT ![p] = "commit"]
             /\ UNCHANGED <<lock, todo, pending, attempt, appliedNow, result>>
    <3>1. pc'[p] = "commit" /\ \A q \in Proc \ {p} : RecordedRest(q)
      BY <2>2, <2>3 DEF TypeOK, RecordedRest
    <3>2. TodoInv'
      BY <2>2, <2>3, <3>1, TodoFrame DEF TodoInv
    <3>3. ASSUME NEW q \in Proc, NEW k \in Id, pc'[q] = "commit", IsCurrent(q, k)'
          PROVE  /\ tracked'[k] = None
                 /\ \A r \in Proc : pc'[r] = "commit" /\ IsCurrent(r, k)' => r = q
      <4>1. \A r \in Proc : IsCurrent(r, k)' <=> IsCurrent(r, k)
        BY <2>3 DEF IsCurrent
      <4>2. CASE k = m
        BY <2>1, <2>2, <2>3, <3>1, <3>3, <4>1, <4>2 DEF RecordedRest
      <4>3. CASE k # m
        <5>1. ~IsCurrent(p, k)
          BY <2>1, <4>3, CurrentIsUnique
        <5>2. QED
          BY <2>2, <3>1, <3>3, <4>1, <5>1 DEF RowInv, RecordedRest
      <4>4. QED
        BY <4>2, <4>3
    <3>4. RowInv'
      BY <3>3 DEF RowInv
    <3>5. QED
      BY <3>2, <3>4
  <2>4. CASE EndAttempt(p, m, "conflict")
    <3>1. TodoInv' /\ pc'[p] # "commit" /\ \A q \in Proc \ {p} : RecordedRest(q)
      BY <2>1, <2>2, <2>4, EndAttemptTodo DEF Outcome, Done
    <3>2. QED
      BY <2>2, <3>1, RowFrameOne DEF RecordedRest
  <2>5. QED
    BY <2>1, <2>3, <2>4
<1>7. ASSUME NEW p \in Proc, NEW outcome \in {"applied", "error"}, Commit(p, outcome)
      PROVE  RowInv' /\ TodoInv'
  <2>1. PICK m \in Id : /\ IsCurrent(p, m)
                        /\ tracked' = [tracked EXCEPT ![m] = dir[p][m]]
                        /\ EndAttempt(p, m, outcome)
    BY <1>7 DEF Commit
  <2>2. pc[p] = "commit" /\ UNCHANGED dir
    BY <1>7 DEF Commit
  <2>3. tracked[m] = None /\ \A q \in Proc : pc[q] = "commit" /\ IsCurrent(q, m) => q = p
    BY <2>1, <2>2 DEF RowInv
  <2>4. tracked'[m] = dir[p][m] /\ \A k \in Id \ {m} : tracked'[k] = tracked[k]
    BY <2>1 DEF TypeOK
  <2>5. TodoInv' /\ pc'[p] # "commit" /\ \A q \in Proc \ {p} : RecordedRest(q)
    BY <2>1, <2>2, <2>3, <2>4, EndAttemptTodo DEF Outcome
  <2>6. ASSUME NEW q \in Proc, NEW k \in Id, pc'[q] = "commit", IsCurrent(q, k)'
        PROVE  /\ tracked'[k] = None
               /\ \A r \in Proc : pc'[r] = "commit" /\ IsCurrent(r, k)' => r = q
    <3>1. q # p
      BY <2>5, <2>6
    <3>2. \A r \in Proc \ {p} : IsCurrent(r, k)' <=> IsCurrent(r, k)
      BY <2>5 DEF IsCurrent, RecordedRest
    <3>3. pc[q] = "commit" /\ IsCurrent(q, k)
      BY <2>5, <2>6, <3>1, <3>2 DEF RecordedRest
    <3>4. k # m
      BY <2>3, <3>1, <3>3
    <3>5. QED
      BY <2>4, <2>5, <3>2, <3>3, <3>4 DEF RowInv, RecordedRest
  <2>7. RowInv'
    BY <2>6 DEF RowInv
  <2>8. QED
    BY <2>5, <2>7
<1>8. ASSUME NEW p \in Proc, Release(p) PROVE RowInv' /\ TodoInv'
  <2> DEFINE outcome == IF lock # p /\ attempt[p] \in {"applied", "skipped"}
                        THEN "error" ELSE attempt[p]
  <2>1. PICK m \in Id : IsCurrent(p, m) /\ Settle(p, m, outcome)
    BY <1>8 DEF Release
  <2>2. pc[p] = "release" /\ UNCHANGED <<tracked, dir, attempt>>
    BY <1>8 DEF Release, database
  <2>3. outcome \in Outcome /\ (outcome \in Done => tracked'[m] = dir[p][m])
    BY <2>1, <2>2 DEF TodoInv, TypeOK, Outcome, Done
  <2> HIDE DEF outcome
  <2>4. /\ TodoInv' /\ pc'[p] # "commit"
        /\ \A q \in Proc \ {p} : RecordedRest(q)
    BY <2>1, <2>2, <2>3, SettleTodo
  <2>5. QED
    BY <2>2, <2>4, RowFrameOne DEF RecordedRest
<1>9. ASSUME NEW p \in Proc, Resolve(p) PROVE RowInv' /\ TodoInv'
  <2> DEFINE outcome(m) == IF tracked[m] = None THEN "error" ELSE VerifyLostRace(p, m)
  <2>1. PICK m \in Id : IsCurrent(p, m) /\ Settle(p, m, outcome(m))
    BY <1>9 DEF Resolve
  <2>2. pc[p] = "resolve" /\ UNCHANGED <<tracked, dir, attempt>>
    BY <1>9 DEF Resolve, database
  <2>3. outcome(m) \in Outcome /\ (outcome(m) \in Done => tracked'[m] = dir[p][m])
    BY <2>2 DEF VerifyLostRace, Outcome, Done
  <2> HIDE DEF outcome
  <2>4. /\ TodoInv' /\ pc'[p] # "commit"
        /\ \A q \in Proc \ {p} : RecordedRest(q)
    BY <2>1, <2>2, <2>3, SettleTodo
  <2>5. QED
    BY <2>2, <2>4, RowFrameOne DEF RecordedRest
<1>10. ASSUME NEW p \in Proc, QueryFails(p) \/ Crash(p) PROVE RowInv' /\ TodoInv'
  <2>1. /\ UNCHANGED <<tracked, dir, todo, attempt>>
        /\ pc'[p] = "idle" /\ result'[p] # "ok"
        /\ \A q \in Proc \ {p} : RecordedRest(q)
    BY <1>10 DEF QueryFails, Crash, Raise, TypeOK, RecordedRest, database
  <2>2. QED
    BY <2>1, RowFrameOne, TodoFrame DEF TodoInv, RecordedRest
<1>11. ASSUME NEW p \in Proc, NEW outcome \in {"conflict", "error"},
              StatementFails(p, outcome)
       PROVE  RowInv' /\ TodoInv'
  <2>1. PICK m \in Id : IsCurrent(p, m) /\ EndAttempt(p, m, outcome)
    BY <1>11 DEF StatementFails
  <2>2. pc[p] \in InTransaction /\ UNCHANGED <<tracked, dir>>
    BY <1>11 DEF StatementFails, database
  <2>3. TodoInv' /\ pc'[p] # "commit" /\ \A q \in Proc \ {p} : RecordedRest(q)
    BY <2>1, <2>2, EndAttemptTodo DEF Outcome, Done, InTransaction
  <2>4. QED
    BY <2>2, <2>3, RowFrameOne DEF RecordedRest
<1>12. ASSUME NEW p \in Proc, GuardDrops(p) PROVE RowInv' /\ TodoInv'
  BY <1>12 DEF GuardDrops, RowInv, TodoInv, IsCurrent, database
<1>13. CASE UNCHANGED vars
  BY <1>13 DEF vars, schema, database, RowInv, TodoInv, IsCurrent
<1>14. QED
  BY <1>0, <1>1, <1>2, <1>3, <1>4, <1>5, <1>6, <1>7, <1>8, <1>9, <1>10, <1>11, <1>12, <1>13
     DEF Next, Progress, Fault

LEMMA AlwaysRecorded == Spec => []RecordedInv
BY RecordedInit, RecordedStep, PTL DEF Spec

\* The variables always have their types, on every dialect.
THEOREM TypeCorrect == Spec => []TypeOK
<1>1. RecordedInv => TypeOK
  BY DEF RecordedInv
<1>2. QED
  BY <1>1, AlwaysRecorded, PTL

\* On every dialect, whatever the races, faults and directories: a call of
\* apply_all that returns normally leaves every migration it discovered
\* recorded from the content it discovered.
THEOREM ReturnedCallsAreComplete == Spec => []ReturnMeansRecorded
<1>1. RecordedInv => ReturnMeansRecorded
  BY DEF RecordedInv, TodoInv, ReturnMeansRecorded
<1>2. QED
  BY <1>1, AlwaysRecorded, PTL

\* On every dialect, a migration is recorded only after every earlier file that
\* its applier discovered.
THEOREM AppliedInPrefixOrder == Spec => AppliedInOrder
<1> DEFINE InOrder(m, p) ==
      /\ pc[p] = "commit" /\ pc'[p] # "commit" /\ dir[p][m] # None
      /\ \A k \in Id : k < m /\ dir[p][k] # None => tracked[k] = dir[p][k]
<1>1. ASSUME RecordedInv, [Next]_vars, NEW m \in Id, tracked[m] = None, tracked'[m] # None
      PROVE  \E p \in Proc : InOrder(m, p)
  <2> USE MigratorAssumption
  <2> TypeOK /\ TodoInv
    BY <1>1 DEF RecordedInv
  <2>1. PICK p \in Proc, outcome \in {"applied", "error"} : Commit(p, outcome)
    BY <1>1 DEF Next, Progress, Fault, Call, CreateTable, LockedOut, LoadApplied, Begin, BusyTimeout, Wake, AcquireLock,
                Recheck, RunStatement, InsertRow, Release, Resolve, QueryFails, StatementFails,
                GuardDrops, Crash, database, schema, vars
  <2>2. PICK n \in Id : /\ IsCurrent(p, n)
                        /\ tracked' = [tracked EXCEPT ![n] = dir[p][n]]
                        /\ EndAttempt(p, n, outcome)
    BY <2>1 DEF Commit
  <2>3. n = m
    BY <1>1, <2>2 DEF TypeOK
  <2>4. pc[p] = "commit"
    BY <2>1 DEF Commit
  <2>5. pc'[p] # "commit"
    BY <2>2 DEF EndAttempt, Settle, TypeOK
  <2>6. dir[p][m] # None
    BY <2>2, <2>3 DEF TodoInv, IsCurrent
  <2>7. ASSUME NEW k \in Id, k < m, dir[p][k] # None
        PROVE  tracked[k] = dir[p][k]
    BY <2>2, <2>3, <2>4, <2>7 DEF IsCurrent, TodoInv
  <2>8. QED
    BY <2>4, <2>5, <2>6, <2>7
<1>2. RecordedInv /\ [Next]_vars =>
        [\A m \in Id : tracked[m] = None /\ tracked'[m] # None =>
            \E p \in Proc : InOrder(m, p)]_vars
  BY <1>1
<1>3. QED
  BY <1>2, AlwaysRecorded, PTL DEF Spec, AppliedInOrder

-----------------------------------------------------------------------------
(***************************************************************************)
(* What the abstract history needs of every dialect: a running call works  *)
(* from a directory that was there to be read, and has reached its current *)
(* migration, all its earlier files being recorded.                        *)
(***************************************************************************)
DirInv == \A p \in Proc : pc[p] # "idle" => dir[p] \in Directories

\* The ends of an attempt leave the directories alone, and a process that is
\* idle stays idle.
LEMMA EndAttemptWorks ==
    ASSUME TypeOK, NEW p \in Proc, NEW m \in Id, NEW outcome,
           EndAttempt(p, m, outcome) \/ Settle(p, m, outcome)
    PROVE  \A q \in Proc \ {p} : pc'[q] = pc[q]
BY DEF EndAttempt, Settle, TypeOK

\* Every step keeps DirInv: only Call starts a call, and it reads a directory.
LEMMA DirStep ==
    ASSUME TypeOK, DirInv, [Next]_vars
    PROVE  DirInv'
<1>1. ASSUME NEW p \in Proc, Call(p) PROVE DirInv'
  <2>1. PICK d \in Directories : dir' = [dir EXCEPT ![p] = d]
    BY <1>1 DEF Call
  <2>2. \A q \in Proc \ {p} : pc'[q] = pc[q] /\ dir'[q] = dir[q]
    BY <1>1, <2>1 DEF Call, TypeOK
  <2>3. dir'[p] = d
    BY <2>1 DEF TypeOK
  <2>4. QED
    BY <2>2, <2>3 DEF DirInv
<1>2. ASSUME NEW p \in Proc, UNCHANGED dir, pc[p] # "idle",
             \A q \in Proc \ {p} : pc'[q] = pc[q]
      PROVE  DirInv'
  BY <1>2 DEF DirInv
<1>3. ASSUME NEW p \in Proc,
             CreateTable(p) \/ LockedOut(p) \/ LoadApplied(p) \/ Begin(p) \/ BusyTimeout(p) \/ Wake(p) \/ AcquireLock(p)
               \/ RunStatement(p) \/ QueryFails(p) \/ Crash(p)
      PROVE  DirInv'
  <2>1. UNCHANGED dir /\ pc[p] # "idle" /\ \A q \in Proc \ {p} : pc'[q] = pc[q]
    BY <1>3 DEF CreateTable, LockedOut, LoadApplied, Begin, BusyTimeout, Wake, AcquireLock, RunStatement, QueryFails,
                Crash, Raise, TypeOK
  <2>2. QED
    BY <1>2, <2>1
<1>4. ASSUME NEW p \in Proc,
             \/ Recheck(p) \/ InsertRow(p) \/ Release(p) \/ Resolve(p)
             \/ \E outcome \in {"applied", "error"} : Commit(p, outcome)
             \/ \E outcome \in {"conflict", "error"} : StatementFails(p, outcome)
      PROVE  DirInv'
  <2>1. UNCHANGED dir /\ pc[p] # "idle"
    BY <1>4 DEF Recheck, InsertRow, Release, Resolve, Commit, StatementFails, InTransaction
  <2>2. \/ \E to \in PC : pc' = [pc EXCEPT ![p] = to]
        \/ \E m \in Id, outcome \in {"applied", "conflict", "error"}
                                     \cup {attempt[p]} \cup {VerifyLostRace(p, k) : k \in Id} :
              EndAttempt(p, m, outcome) \/ Settle(p, m, outcome)
    BY <1>4 DEF Recheck, InsertRow, Release, Resolve, Commit, StatementFails, PC
  <2>3. \A q \in Proc \ {p} : pc'[q] = pc[q]
    BY <2>2, EndAttemptWorks DEF TypeOK
  <2>4. QED
    BY <1>2, <2>1, <2>3
<1>5. CASE UNCHANGED <<pc, dir>>
  BY <1>5 DEF DirInv
<1>6. QED
  BY <1>1, <1>3, <1>4, <1>5 DEF Next, Progress, Fault, GuardDrops, vars, schema, database

\* Whoever works on a migration has reached it in its directory.
LEMMA CurrentReached ==
    ASSUME TypeOK, TodoInv, DirInv, NEW p \in Proc, NEW m \in Id,
           pc[p] \notin {"idle", "create", "load"}, IsCurrent(p, m)
    PROVE  /\ dir[p] \in Directories /\ dir[p][m] \in Content
           /\ History!Reached(m, dir[p])
<1>1. dir[p] \in Directories
  BY DEF DirInv
<1>2. dir[p][m] # None /\ dir[p][m] \in Content
  BY DEF IsCurrent, TodoInv, TypeOK
<1>3. ASSUME NEW k \in Id, k < m, dir[p][k] # None
      PROVE  tracked[k] = dir[p][k]
  <2>1. k \notin todo[p]
    BY <1>3, MigratorAssumption DEF IsCurrent
  <2>2. QED
    BY <1>3, <2>1 DEF TodoInv
<1>4. QED
  BY <1>1, <1>2, <1>3 DEF History!Reached

\* Durable is the abstract effect of a set of statements.
LEMMA DurableRuns ==
    ASSUME NEW p \in Proc, NEW m \in Id, NEW stmts, Durable(p, m, stmts)
    PROVE  History!Run(m, dir[p][m], stmts)
BY DEF Durable, History!Run, Statements, History!Statements

-----------------------------------------------------------------------------
(***************************************************************************)
(* What sqlite and postgresql add: the lock and the transaction end        *)
(* together, and a transaction is all or nothing.  ScriptInv says what the *)
(* holder of the lock has in its transaction; with LockInv it makes the    *)
(* COMMIT the only step that changes the database, and a step of           *)
(* MigrationHistory.                                                       *)
(***************************************************************************)
LockInv == \A p \in Proc : pc[p] \in InTransaction => lock = p

ScriptInv ==
    \A p \in Proc :
        /\ pc[p] \in {"run", "commit"} =>
              /\ pending[p] = 1..ran[p]
              /\ \A m \in Id : IsCurrent(p, m) => tracked[m] = None
        /\ pc[p] = "commit" => ran[p] = NumStmts

TxInv == LockInv /\ ScriptInv /\ ExactlyOnce

TxRest(q) ==
    pc'[q] = pc[q] /\ todo'[q] = todo[q] /\ ran'[q] = ran[q] /\ pending'[q] = pending[q]

\* A step of one process that leaves the database alone only has to
\* re-establish that process's own part of TxInv.
LEMMA TxFrame ==
    ASSUME TypeOK, TxInv, NEW p \in Proc, UNCHANGED <<tracked, effects>>,
           \A q \in Proc \ {p} : TxRest(q),
           lock' = lock \/ lock = None \/ lock = p,
           pc'[p] \in InTransaction => lock' = p,
           pc'[p] \in {"run", "commit"} =>
              /\ pending'[p] = 1..ran'[p]
              /\ \A m \in Id : IsCurrent(p, m)' => tracked[m] = None,
           pc'[p] = "commit" => ran'[p] = NumStmts
    PROVE  TxInv'
<1>1. ASSUME NEW q \in Proc \ {p}, pc'[q] \in InTransaction
      PROVE  lock' = q
  <2>1. pc[q] \in InTransaction /\ lock = q
    BY <1>1 DEF TxInv, LockInv, TxRest
  <2>2. QED
    BY <2>1, MigratorAssumption
<1>2. LockInv'
  BY <1>1 DEF LockInv
<1>3. ASSUME NEW q \in Proc \ {p}
      PROVE  /\ pc'[q] \in {"run", "commit"} =>
                  /\ pending'[q] = 1..ran'[q]
                  /\ \A m \in Id : IsCurrent(q, m)' => tracked'[m] = None
             /\ pc'[q] = "commit" => ran'[q] = NumStmts
  <2>1. TxRest(q) /\ \A m \in Id : IsCurrent(q, m)' <=> IsCurrent(q, m)
    BY DEF TxRest, IsCurrent
  <2>2. QED
    BY <2>1 DEF TxInv, ScriptInv, TxRest
<1>4. ScriptInv'
  BY <1>3 DEF ScriptInv
<1>5. ExactlyOnce'
  BY DEF TxInv, ExactlyOnce
<1>6. QED
  BY <1>2, <1>4, <1>5 DEF TxInv

\* Off mysql, the end of a transaction frees its lock and leaves the process
\* outside.
LEMMA EndAttemptTx ==
    ASSUME Dialect # "mysql", TypeOK, NEW p \in Proc, NEW m \in Id, NEW outcome,
           EndAttempt(p, m, outcome)
    PROVE  /\ lock' = Unlocked(p)
           /\ pc'[p] \in {"resolve", "begin", "idle"}
           /\ \A q \in Proc \ {p} : pc'[q] = pc[q] /\ todo'[q] = todo[q]
<1>1. lock' = Unlocked(p) /\ Settle(p, m, outcome)
  BY DEF EndAttempt
<1>2. QED
  BY <1>1 DEF Settle, TypeOK

\* Off mysql, a COMMIT is one step of the abstract history.
LEMMA CommitApplies ==
    ASSUME Dialect # "mysql", TypeOK, TodoInv, DirInv, TxInv, NEW p \in Proc, NEW m \in Id,
           pc[p] = "commit", IsCurrent(p, m), Durable(p, m, pending[p]),
           tracked' = [tracked EXCEPT ![m] = dir[p][m]]
    PROVE  /\ dir[p] \in Directories /\ dir[p][m] \in Content
           /\ History!Apply(m, dir[p])
<1>1. /\ dir[p] \in Directories /\ dir[p][m] \in Content
      /\ History!Reached(m, dir[p])
  BY CurrentReached
<1>2. pending[p] = Statements /\ tracked[m] = None
  BY DEF TxInv, ScriptInv, Statements
<1>3. History!Run(m, dir[p][m], History!Statements)
  BY <1>2, DurableRuns DEF Statements, History!Statements
<1>4. QED
  BY <1>1, <1>2, <1>3 DEF History!Apply

LEMMA TxInit == Init => TxInv
BY MigratorAssumption DEF Init, TxInv, LockInv, ScriptInv, ExactlyOnce, InTransaction

\* Off mysql, every step preserves TxInv and is a step of the abstract
\* history or leaves the database as it was.
LEMMA TxStep ==
    ASSUME Dialect # "mysql", RecordedInv, DirInv, TxInv, [Next]_vars
    PROVE  TxInv' /\ [History!Next]_<<tracked, effects>>
<1> USE MigratorAssumption
<1> TypeOK /\ RowInv /\ TodoInv
  BY DEF RecordedInv
<1>1. ASSUME NEW p \in Proc,
             Call(p) \/ CreateTable(p) \/ LockedOut(p) \/ LoadApplied(p) \/ BusyTimeout(p) \/ Wake(p) \/ QueryFails(p)
      PROVE  TxInv' /\ UNCHANGED <<tracked, effects>>
  <2>1. /\ UNCHANGED <<tracked, effects, lock>>
        /\ pc'[p] \notin InTransaction
        /\ \A q \in Proc \ {p} : TxRest(q)
    BY <1>1 DEF Call, CreateTable, LockedOut, LoadApplied, BusyTimeout, Wake, QueryFails, Raise, TypeOK, TxRest,
                InTransaction, database, script
  <2>2. QED
    BY <2>1, TxFrame DEF InTransaction
<1>2. ASSUME NEW p \in Proc, Begin(p) \/ AcquireLock(p)
      PROVE  TxInv' /\ UNCHANGED <<tracked, effects>>
  <2>1. /\ UNCHANGED <<tracked, effects>>
        /\ lock' = lock \/ lock = None
        /\ (pc'[p] = "recheck" /\ lock' = p) \/ pc'[p] = "lock"
        /\ \A q \in Proc \ {p} : TxRest(q)
    BY <1>2 DEF Begin, AcquireLock, LockIsFree, TypeOK, TxRest, database, script
  <2>2. QED
    BY <2>1, TxFrame DEF InTransaction
<1>3. ASSUME NEW p \in Proc, Recheck(p)
      PROVE  TxInv' /\ UNCHANGED <<tracked, effects>>
  <2>1. PICK m \in Id :
          /\ IsCurrent(p, m)
          /\ \/ /\ tracked[m] = None
                /\ pc' = [pc EXCEPT ![p] = "run"]
                /\ UNCHANGED <<lock, todo, attempt, appliedNow, result>>
             \/ /\ tracked[m] # None
                /\ EndAttempt(p, m, VerifyLostRace(p, m))
    BY <1>3 DEF Recheck
  <2>2. /\ UNCHANGED <<tracked, effects>>
        /\ lock = p
        /\ ran'[p] = 0 /\ pending'[p] = {}
        /\ \A q \in Proc \ {p} : ran'[q] = ran[q] /\ pending'[q] = pending[q]
    BY <1>3 DEF Recheck, TxInv, LockInv, InTransaction, TypeOK, database
  <2>3. CASE /\ tracked[m] = None
             /\ pc' = [pc EXCEPT ![p] = "run"]
             /\ UNCHANGED <<lock, todo, attempt, appliedNow, result>>
    <3>1. pc'[p] = "run" /\ \A q \in Proc \ {p} : TxRest(q)
      BY <2>2, <2>3 DEF TypeOK, TxRest
    <3>2. \A k \in Id : IsCurrent(p, k)' => tracked[k] = None
      BY <2>1, <2>3, CurrentIsUnique DEF IsCurrent
    <3>3. pending'[p] = 1..ran'[p]
      BY <2>2
    <3>4. QED
      BY <2>2, <2>3, <3>1, <3>2, <3>3, TxFrame
  <2>4. CASE EndAttempt(p, m, VerifyLostRace(p, m))
    BY <2>2, <2>4, EndAttemptTx, TxFrame DEF TxRest, InTransaction
  <2>5. QED
    BY <2>1, <2>2, <2>3, <2>4
<1>4. ASSUME NEW p \in Proc, RunStatement(p)
      PROVE  TxInv' /\ UNCHANGED <<tracked, effects>>
  <2>1. /\ UNCHANGED <<tracked, effects, lock, pc, todo>>
        /\ pc[p] = "run"
        /\ ran'[p] = ran[p] + 1
        /\ pending'[p] = pending[p] \cup {ran[p] + 1}
        /\ \A q \in Proc \ {p} : TxRest(q)
    BY <1>4 DEF RunStatement, CommitsItself, TypeOK, TxRest
  <2>2. pending'[p] = 1..ran'[p]
    BY <2>1 DEF TxInv, ScriptInv, TypeOK
  <2>3. QED
    BY <2>1, <2>2, TxFrame DEF TxInv, LockInv, ScriptInv, IsCurrent, InTransaction
<1>5. ASSUME NEW p \in Proc, InsertRow(p)
      PROVE  TxInv' /\ UNCHANGED <<tracked, effects>>
  <2>1. PICK m \in Id :
          /\ IsCurrent(p, m)
          /\ \/ /\ tracked[m] = None
                /\ pc' = [pc EXCEPT ![p] = "commit"]
                /\ UNCHANGED <<lock, todo, pending, attempt, appliedNow, result>>
             \/ /\ tracked[m] # None
                /\ pending' = [pending EXCEPT ![p] = {}]
                /\ EndAttempt(p, m, "conflict")
    BY <1>5 DEF InsertRow
  <2>2. UNCHANGED <<tracked, effects, ran>> /\ pc[p] = "run" /\ ran[p] = NumStmts
    BY <1>5 DEF InsertRow, ScriptDone, database
  <2>3. lock = p /\ tracked[m] = None
    BY <2>1, <2>2 DEF TxInv, LockInv, ScriptInv, InTransaction
  <2>4. pc' = [pc EXCEPT ![p] = "commit"] /\ UNCHANGED <<lock, todo, pending>>
    BY <2>1, <2>3
  <2>5. pc'[p] = "commit" /\ \A q \in Proc \ {p} : TxRest(q)
    BY <2>2, <2>4 DEF TypeOK, TxRest
  <2>6. QED
    BY <2>2, <2>3, <2>4, <2>5, TxFrame DEF TxInv, ScriptInv, IsCurrent
<1>6. ASSUME NEW p \in Proc, NEW outcome \in {"applied", "error"}, Commit(p, outcome)
      PROVE  TxInv' /\ History!Next
  <2>1. PICK m \in Id : /\ IsCurrent(p, m)
                        /\ Durable(p, m, pending[p])
                        /\ tracked' = [tracked EXCEPT ![m] = dir[p][m]]
                        /\ EndAttempt(p, m, outcome)
    BY <1>6 DEF Commit
  <2>2. /\ pc[p] = "commit" /\ lock = p
        /\ UNCHANGED ran
        /\ \A q \in Proc \ {p} : pending'[q] = pending[q]
    BY <1>6 DEF Commit, TxInv, LockInv, InTransaction, TypeOK
  <2>3. /\ dir[p] \in Directories /\ dir[p][m] \in Content
        /\ History!Apply(m, dir[p])
    BY <2>1, <2>2, CommitApplies
  <2>4. /\ lock' = None
        /\ pc'[p] \notin InTransaction
        /\ \A q \in Proc \ {p} : pc'[q] = pc[q]
    BY <2>1, <2>2, EndAttemptTx DEF Unlocked, InTransaction
  <2>5. \A q \in Proc : pc'[q] \notin InTransaction
    BY <2>2, <2>4 DEF TxInv, LockInv
  <2>6. LockInv' /\ ScriptInv'
    BY <2>5 DEF LockInv, ScriptInv, InTransaction
  <2>7. ASSUME NEW k \in Id, NEW c \in Content, NEW s \in Statements
        PROVE  effects'[k][c][s] = IF tracked'[k] = c THEN 1 ELSE 0
    <3> DEFINE d == dir[p][m]
    <3>1. /\ tracked[m] = None
          /\ tracked' = [tracked EXCEPT ![m] = d]
          /\ effects' = [effects EXCEPT ![m][d] = [t \in Statements |-> effects[m][d][t] + 1]]
      BY <2>3 DEF History!Apply, History!Run, Statements, History!Statements
    <3>2. effects[k][c][s] = IF tracked[k] = c THEN 1 ELSE 0
      BY ZenonT(40) DEF TxInv, ExactlyOnce
    <3>3. d \in Content
      BY <2>3, SMTT(30)
    <3> HIDE DEF d
    <3>4. CASE k = m /\ c = d
      <4>1. effects'[m][d][s] = effects[m][d][s] + 1 /\ tracked'[m] = d
        BY <3>1, <3>3 DEF TypeOK, Statements
      <4>2. QED
        BY <3>1, <3>2, <3>4, <4>1
    <3>5. CASE k = m /\ c # d
      <4>1. effects'[m][c][s] = effects[m][c][s] /\ tracked'[m] = d
        BY <3>1, <3>3, <3>5 DEF TypeOK
      <4>2. QED
        BY <3>1, <3>2, <3>5, <4>1
    <3>6. CASE k # m
      <4>1. effects'[k] = effects[k] /\ tracked'[k] = tracked[k]
        BY <3>1, <3>6 DEF TypeOK
      <4>2. QED
        BY <3>2, <4>1
    <3>7. QED
      BY <3>4, <3>5, <3>6
  <2>8. ExactlyOnce'
    BY <2>7 DEF ExactlyOnce
  <2>9. QED
    BY <2>3, <2>6, <2>8 DEF TxInv, History!Next
<1>7. ASSUME NEW p \in Proc, Release(p) \/ Resolve(p)
      PROVE  TxInv' /\ UNCHANGED <<tracked, effects>>
  <2>1. PICK m \in Id : \E outcome \in {attempt[p], "error", VerifyLostRace(p, m)} :
          Settle(p, m, outcome)
    BY <1>7 DEF Release, Resolve
  <2>2. /\ UNCHANGED <<tracked, effects, ran, pending>>
        /\ lock' = lock \/ lock = p
    BY <1>7 DEF Release, Resolve, Unlocked, database, script
  <2>3. /\ pc'[p] \notin InTransaction
        /\ \A q \in Proc \ {p} : TxRest(q)
    BY <2>1, <2>2 DEF Settle, TypeOK, TxRest, InTransaction
  <2>4. QED
    BY <2>2, <2>3, TxFrame DEF InTransaction
<1>8. ASSUME NEW p \in Proc, NEW outcome \in {"conflict", "error"},
             StatementFails(p, outcome)
      PROVE  TxInv' /\ UNCHANGED <<tracked, effects>>
  <2>1. PICK m \in Id : EndAttempt(p, m, outcome)
    BY <1>8 DEF StatementFails
  <2>2. /\ UNCHANGED <<tracked, effects, ran>>
        /\ lock = p
        /\ \A q \in Proc \ {p} : pending'[q] = pending[q]
    BY <1>8 DEF StatementFails, TxInv, LockInv, TypeOK, database
  <2>3. QED
    BY <2>1, <2>2, EndAttemptTx, TxFrame DEF TxRest, InTransaction
<1>9. ASSUME NEW p \in Proc, Crash(p)
      PROVE  TxInv' /\ UNCHANGED <<tracked, effects>>
  <2>1. /\ UNCHANGED <<tracked, effects>>
        /\ lock' = lock \/ lock = p
        /\ pc'[p] = "idle"
        /\ \A q \in Proc \ {p} : TxRest(q)
    BY <1>9 DEF Crash, Raise, Unlocked, TypeOK, TxRest, database
  <2>2. QED
    BY <2>1, TxFrame DEF InTransaction
<1>10. ASSUME NEW p \in Proc, GuardDrops(p) PROVE FALSE
  BY <1>10 DEF GuardDrops
<1>11. CASE UNCHANGED vars
  BY <1>11 DEF vars, schema, database, TxInv, LockInv, ScriptInv, ExactlyOnce, IsCurrent
<1>12. QED
  BY <1>1, <1>2, <1>3, <1>4, <1>5, <1>6, <1>7, <1>8, <1>9, <1>10, <1>11
     DEF Next, Progress, Fault, vars, schema, database

LEMMA AlwaysTx == ASSUME Dialect # "mysql" PROVE Spec => [](RecordedInv /\ DirInv /\ TxInv)
<1>1. Init => RecordedInv /\ DirInv /\ TxInv
  BY RecordedInit, TxInit DEF Init, DirInv
<1>2. RecordedInv /\ DirInv /\ TxInv /\ [Next]_vars => (RecordedInv /\ DirInv /\ TxInv)'
  BY RecordedStep, DirStep, TxStep DEF RecordedInv
<1>3. QED
  BY <1>1, <1>2, PTL DEF Spec

\* On sqlite and postgresql, a migration's statements take effect once if it is
\* recorded and never otherwise.
THEOREM MigrationsRunOnce == ASSUME Dialect # "mysql" PROVE Spec => []ExactlyOnce
<1>1. RecordedInv /\ TxInv => ExactlyOnce
  BY DEF TxInv
<1>2. QED
  BY <1>1, AlwaysTx, PTL

\* On sqlite and postgresql, at most one process is between the re-check and
\* the end of its transaction.
THEOREM OneScriptAtATime == ASSUME Dialect # "mysql" PROVE Spec => []ScriptsDoNotOverlap
<1>1. RecordedInv /\ TxInv => ScriptsDoNotOverlap
  BY DEF TxInv, LockInv, ScriptsDoNotOverlap
<1>2. QED
  BY <1>1, AlwaysTx, PTL

\* On sqlite and postgresql, the migrator implements the atomic history: scripts
\* take effect whole, once, with their row, in the order of the directory.
THEOREM Refinement == ASSUME Dialect # "mysql" PROVE Spec => ImplementsHistory
<1>1. Init => History!Init
  BY DEF Init, History!Init, Statements, History!Statements
<1>2. RecordedInv /\ DirInv /\ TxInv /\ [Next]_vars => [History!Next]_<<tracked, effects>>
  BY TxStep
<1>3. QED
  BY <1>1, <1>2, AlwaysTx, PTL DEF Spec, History!Spec, ImplementsHistory

-----------------------------------------------------------------------------
(***************************************************************************)
(* Who may report a migration as applied.  A process claims what its call  *)
(* has already settled as applied, and on mysql what its inner transaction *)
(* has committed and Release has still to settle.                          *)
(***************************************************************************)
Claimed(p) == {m \in Id : \/ m \in appliedNow[p]
                          \/ pc[p] = "release" /\ attempt[p] = "applied" /\ IsCurrent(p, m)}

ClaimInv ==
    /\ \A p \in Proc, m \in Id : m \in Claimed(p) => tracked[m] # None
    /\ \A p, q \in Proc : p # q => Claimed(p) \cap Claimed(q) = {}

ClaimRest(q) ==
    /\ pc'[q] = pc[q] /\ todo'[q] = todo[q]
    /\ attempt'[q] = attempt[q] /\ appliedNow'[q] = appliedNow[q]

\* A step after which nobody claims more than before.
LEMMA ClaimFrame ==
    ASSUME ClaimInv, NEW p \in Proc, UNCHANGED tracked,
           \A q \in Proc \ {p} : ClaimRest(q),
           \A m \in Id : m \in Claimed(p)' => m \in Claimed(p)
    PROVE  ClaimInv'
<1>1. \A q \in Proc, m \in Id : m \in Claimed(q)' => m \in Claimed(q)
  BY DEF Claimed, ClaimRest, IsCurrent
<1>2. \A q \in Proc, m \in Id : m \in Claimed(q)' => tracked'[m] # None
  BY <1>1 DEF ClaimInv
<1>3. \A q \in Proc : Claimed(q) \subseteq Id /\ Claimed(q)' \subseteq Id
  BY DEF Claimed
<1>4. \A q, r \in Proc : q # r => Claimed(q)' \cap Claimed(r)' = {}
  BY <1>1, <1>3 DEF ClaimInv
<1>5. QED
  BY <1>2, <1>4 DEF ClaimInv

\* What Settle does to the claims.
LEMMA SettleClaims ==
    ASSUME TypeOK, NEW p \in Proc, NEW m \in Id, NEW outcome \in Outcome,
           Settle(p, m, outcome), UNCHANGED attempt
    PROVE  /\ \A q \in Proc \ {p} : ClaimRest(q)
           /\ \A k \in Id : k \in Claimed(p)' =>
                 k \in appliedNow[p] \/ (outcome = "applied" /\ k = m)
<1>1. pc'[p] # "release" /\ \A q \in Proc \ {p} : ClaimRest(q)
  BY DEF Settle, TypeOK, ClaimRest
<1>2. appliedNow'[p] = IF outcome = "applied" THEN appliedNow[p] \cup {m} ELSE appliedNow[p]
  BY DEF Settle, TypeOK
<1>3. QED
  BY <1>1, <1>2 DEF Claimed

\* What the end of a transaction does to them.
LEMMA EndAttemptClaims ==
    ASSUME TypeOK, NEW p \in Proc, NEW m \in Id, NEW outcome \in Outcome,
           IsCurrent(p, m), EndAttempt(p, m, outcome)
    PROVE  /\ \A q \in Proc \ {p} : ClaimRest(q)
           /\ \A k \in Id : k \in Claimed(p)' =>
                 k \in appliedNow[p] \/ (outcome = "applied" /\ k = m)
<1>1. CASE Dialect # "mysql"
  <2>1. Settle(p, m, outcome) /\ UNCHANGED attempt
    BY <1>1 DEF EndAttempt
  <2>2. QED
    BY <2>1, SettleClaims
<1>2. CASE Dialect = "mysql"
  <2>1. /\ pc' = [pc EXCEPT ![p] = "release"]
        /\ attempt' = [attempt EXCEPT ![p] = outcome]
        /\ UNCHANGED <<todo, appliedNow>>
    BY <1>2 DEF EndAttempt
  <2>2. \A k \in Id : IsCurrent(p, k)' => k = m
    BY <2>1, CurrentIsUnique DEF IsCurrent
  <2>3. attempt'[p] = outcome /\ appliedNow'[p] = appliedNow[p]
    BY <2>1 DEF TypeOK
  <2>4. \A q \in Proc \ {p} : ClaimRest(q)
    BY <2>1 DEF TypeOK, ClaimRest
  <2>5. QED
    BY <2>2, <2>3, <2>4 DEF Claimed
<1>3. QED
  BY <1>1, <1>2

LEMMA ClaimStep == RecordedInv /\ ClaimInv /\ [Next]_vars => ClaimInv'
<1> USE MigratorAssumption
<1> SUFFICES ASSUME RecordedInv, ClaimInv, [Next]_vars PROVE ClaimInv'
  OBVIOUS
<1> TypeOK /\ RowInv
  BY DEF RecordedInv
<1>1. ASSUME NEW p \in Proc,
             Call(p) \/ CreateTable(p) \/ LockedOut(p) \/ LoadApplied(p) \/ Begin(p) \/ BusyTimeout(p) \/ Wake(p)
               \/ AcquireLock(p) \/ RunStatement(p) \/ QueryFails(p) \/ GuardDrops(p) \/ Crash(p)
      PROVE  ClaimInv'
  <2>1. UNCHANGED tracked /\ \A q \in Proc \ {p} : ClaimRest(q)
    BY <1>1 DEF Call, CreateTable, LockedOut, LoadApplied, Begin, BusyTimeout, Wake, AcquireLock, RunStatement,
                QueryFails, GuardDrops, Crash, Raise, TypeOK, ClaimRest, database
  <2>2. \/ pc'[p] # "release" /\ appliedNow'[p] \subseteq appliedNow[p]
        \/ ClaimRest(p)
    BY <1>1 DEF Call, CreateTable, LockedOut, LoadApplied, Begin, BusyTimeout, Wake, AcquireLock, RunStatement,
                QueryFails, GuardDrops, Crash, Raise, TypeOK, ClaimRest
  <2>3. \A m \in Id : m \in Claimed(p)' => m \in Claimed(p)
    BY <2>2 DEF Claimed, ClaimRest, IsCurrent
  <2>4. QED
    BY <2>1, <2>3, ClaimFrame
<1>2. ASSUME NEW p \in Proc, NEW m \in Id, NEW outcome \in Outcome \ {"applied"},
             IsCurrent(p, m), EndAttempt(p, m, outcome), UNCHANGED tracked
      PROVE  ClaimInv'
  <2>1. /\ \A q \in Proc \ {p} : ClaimRest(q)
        /\ \A k \in Id : k \in Claimed(p)' => k \in appliedNow[p]
    BY <1>2, EndAttemptClaims
  <2>2. \A k \in Id : k \in Claimed(p)' => k \in Claimed(p)
    BY <2>1 DEF Claimed
  <2>3. QED
    BY <1>2, <2>1, <2>2, ClaimFrame
<1>3. ASSUME NEW p \in Proc, pc' = [pc EXCEPT ![p] = "run"] \/ pc' = [pc EXCEPT ![p] = "commit"],
             UNCHANGED <<tracked, todo, attempt, appliedNow>>
      PROVE  ClaimInv'
  <2>1. pc'[p] # "release" /\ appliedNow'[p] = appliedNow[p]
        /\ \A q \in Proc \ {p} : ClaimRest(q)
    BY <1>3 DEF TypeOK, ClaimRest
  <2>2. QED
    BY <1>3, <2>1, ClaimFrame DEF Claimed
<1>4. ASSUME NEW p \in Proc, Recheck(p) PROVE ClaimInv'
  <2>1. PICK m \in Id :
          /\ IsCurrent(p, m)
          /\ \/ /\ pc' = [pc EXCEPT ![p] = "run"]
                /\ UNCHANGED <<todo, attempt, appliedNow>>
             \/ EndAttempt(p, m, VerifyLostRace(p, m))
    BY <1>4 DEF Recheck
  <2>2. UNCHANGED tracked
    BY <1>4 DEF Recheck, database
  <2>3. VerifyLostRace(p, m) \in Outcome \ {"applied"}
    BY DEF VerifyLostRace, Outcome
  <2>4. QED
    BY <2>1, <2>2, <2>3, <1>2, <1>3
<1>5. ASSUME NEW p \in Proc, InsertRow(p) PROVE ClaimInv'
  <2>1. PICK m \in Id :
          /\ IsCurrent(p, m)
          /\ \/ /\ pc' = [pc EXCEPT ![p] = "commit"]
                /\ UNCHANGED <<todo, attempt, appliedNow>>
             \/ EndAttempt(p, m, "conflict")
    BY <1>5 DEF InsertRow
  <2>2. UNCHANGED tracked /\ "conflict" \in Outcome \ {"applied"}
    BY <1>5 DEF InsertRow, database, Outcome
  <2>3. QED
    BY <2>1, <2>2, <1>2, <1>3
<1>6. ASSUME NEW p \in Proc, NEW outcome \in {"applied", "error"}, Commit(p, outcome)
      PROVE  ClaimInv'
  <2>1. PICK m \in Id : /\ IsCurrent(p, m)
                        /\ tracked' = [tracked EXCEPT ![m] = dir[p][m]]
                        /\ EndAttempt(p, m, outcome)
    BY <1>6 DEF Commit
  <2>2. tracked[m] = None /\ dir[p][m] # None
    BY <1>6, <2>1 DEF Commit, RowInv, RecordedInv, TodoInv, IsCurrent
  <2>3. tracked'[m] # None /\ \A k \in Id : tracked[k] # None => tracked'[k] # None
    BY <2>1, <2>2 DEF TypeOK
  <2>4. \A q \in Proc : m \notin Claimed(q)
    BY <2>2 DEF ClaimInv
  <2>5. /\ \A q \in Proc \ {p} : ClaimRest(q)
        /\ \A k \in Id : k \in Claimed(p)' => k \in appliedNow[p] \/ k = m
    BY <2>1, EndAttemptClaims DEF Outcome
  <2>6. \A k \in Id : k \in Claimed(p)' => k \in Claimed(p) \/ k = m
    BY <2>5 DEF Claimed
  <2>7. \A q \in Proc \ {p}, k \in Id : k \in Claimed(q)' => k \in Claimed(q)
    BY <2>5 DEF Claimed, ClaimRest, IsCurrent
  <2>8. \A q \in Proc, k \in Id : k \in Claimed(q)' => tracked'[k] # None
    BY <2>3, <2>6, <2>7 DEF ClaimInv
  <2>9. ASSUME NEW q \in Proc, NEW r \in Proc, q # r, NEW k \in Id,
               k \in Claimed(q)', k \in Claimed(r)'
        PROVE  FALSE
    BY <2>4, <2>6, <2>7, <2>9 DEF ClaimInv
  <2>10. \A q \in Proc : Claimed(q)' \subseteq Id
    BY DEF Claimed
  <2>11. \A q, r \in Proc : q # r => Claimed(q)' \cap Claimed(r)' = {}
    BY <2>9, <2>10
  <2>12. QED
    BY <2>8, <2>11 DEF ClaimInv
<1>7. ASSUME NEW p \in Proc, Release(p) PROVE ClaimInv'
  <2> DEFINE outcome == IF lock # p /\ attempt[p] \in {"applied", "skipped"}
                        THEN "error" ELSE attempt[p]
  <2>1. PICK m \in Id : IsCurrent(p, m) /\ Settle(p, m, outcome)
    BY <1>7 DEF Release
  <2>2. pc[p] = "release" /\ UNCHANGED <<tracked, attempt>>
    BY <1>7 DEF Release, database
  <2>3. outcome \in Outcome /\ (outcome = "applied" => attempt[p] = "applied")
    BY DEF TypeOK, Outcome
  <2> HIDE DEF outcome
  <2>4. /\ \A q \in Proc \ {p} : ClaimRest(q)
        /\ \A k \in Id : k \in Claimed(p)' =>
              k \in appliedNow[p] \/ (outcome = "applied" /\ k = m)
    BY <2>1, <2>2, <2>3, SettleClaims
  <2>5. \A k \in Id : k \in Claimed(p)' => k \in Claimed(p)
    BY <2>1, <2>2, <2>3, <2>4 DEF Claimed
  <2>6. QED
    BY <2>2, <2>4, <2>5, ClaimFrame
<1>8. ASSUME NEW p \in Proc, Resolve(p) PROVE ClaimInv'
  <2> DEFINE outcome(m) == IF tracked[m] = None THEN "error" ELSE VerifyLostRace(p, m)
  <2>1. PICK m \in Id : IsCurrent(p, m) /\ Settle(p, m, outcome(m))
    BY <1>8 DEF Resolve
  <2>2. UNCHANGED <<tracked, attempt>>
    BY <1>8 DEF Resolve, database
  <2>3. outcome(m) \in Outcome /\ outcome(m) # "applied"
    BY DEF VerifyLostRace, Outcome
  <2> HIDE DEF outcome
  <2>4. /\ \A q \in Proc \ {p} : ClaimRest(q)
        /\ \A k \in Id : k \in Claimed(p)' => k \in appliedNow[p]
    BY <2>1, <2>2, <2>3, SettleClaims
  <2>5. \A k \in Id : k \in Claimed(p)' => k \in Claimed(p)
    BY <2>4 DEF Claimed
  <2>6. QED
    BY <2>2, <2>4, <2>5, ClaimFrame
<1>9. ASSUME NEW p \in Proc, NEW outcome \in {"conflict", "error"},
             StatementFails(p, outcome)
      PROVE  ClaimInv'
  <2>1. PICK m \in Id : IsCurrent(p, m) /\ EndAttempt(p, m, outcome)
    BY <1>9 DEF StatementFails
  <2>2. UNCHANGED tracked /\ outcome \in Outcome \ {"applied"}
    BY <1>9 DEF StatementFails, database, Outcome
  <2>3. QED
    BY <2>1, <2>2, <1>2
<1>10. CASE UNCHANGED vars
  BY <1>10 DEF vars, schema, database, ClaimInv, Claimed, IsCurrent
<1>11. QED
  BY <1>1, <1>4, <1>5, <1>6, <1>7, <1>8, <1>9, <1>10 DEF Next, Progress, Fault

\* On every dialect, whatever races, fails or dies, no migration is reported as
\* applied by two processes.
THEOREM MigrationsHaveOneApplier == Spec => []OneApplier
<1> DEFINE Inv == RecordedInv /\ ClaimInv
<1>1. Init => Inv
  BY RecordedInit DEF Init, ClaimInv, Claimed
<1>2. Inv /\ [Next]_vars => Inv'
  BY RecordedStep, ClaimStep
<1>3. Inv => OneApplier
  <2> SUFFICES ASSUME TypeOK, ClaimInv, NEW p \in Proc, NEW q \in Proc, p # q,
                      NEW m \in appliedNow[p], m \in appliedNow[q]
               PROVE  FALSE
    BY DEF RecordedInv, OneApplier
  <2>1. m \in Claimed(p) /\ m \in Claimed(q)
    BY DEF Claimed, TypeOK
  <2>2. QED
    BY <2>1 DEF ClaimInv
<1>4. QED
  BY <1>1, <1>2, <1>3, PTL DEF Spec

-----------------------------------------------------------------------------
(***************************************************************************)
(* Without the lock, or with a DDL that commits itself, a script is no     *)
(* longer all or nothing.  What every dialect still keeps: each statement  *)
(* run so far is pending in the transaction or has taken effect.           *)
(***************************************************************************)
RanInv ==
    /\ \A p \in Proc, m \in Id :
          pc[p] \in {"run", "commit"} /\ IsCurrent(p, m) =>
             \A s \in Statements :
                s <= ran[p] => s \in pending[p] \/ effects[m][dir[p][m]][s] >= 1
    /\ \A p \in Proc : pc[p] = "commit" => ran[p] = NumStmts

RanRest(q) ==
    /\ pc'[q] = pc[q] /\ todo'[q] = todo[q] /\ dir'[q] = dir[q]
    /\ ran'[q] = ran[q] /\ pending'[q] = pending[q]

EffectsGrow ==
    \A m \in Id, c \in Content, s \in Statements : effects'[m][c][s] >= effects[m][c][s]

\* Durable adds runs, and leaves each of its statements run.
LEMMA DurableGrows ==
    ASSUME TypeOK, NEW p \in Proc, NEW m \in Id, dir[p][m] # None,
           NEW stmts \in SUBSET Statements, Durable(p, m, stmts)
    PROVE  EffectsGrow /\ \A s \in stmts : effects'[m][dir[p][m]][s] >= 1
<1> DEFINE d == dir[p][m]
           row == [s \in Statements |-> IF s \in stmts THEN effects[m][d][s] + 1
                                        ELSE effects[m][d][s]]
<1>1. d \in Content
  BY DEF TypeOK
<1>2. \A s \in Statements : effects[m][d][s] \in Nat
  BY <1>1 DEF TypeOK
<1>3. \A s \in Statements : row[s] >= effects[m][d][s] /\ (s \in stmts => row[s] >= 1)
  BY <1>2
<1>4. effects' = [effects EXCEPT ![m][d] = row]
  BY DEF Durable
<1> HIDE DEF row, d
<1>5. effects'[m][d] = row
  BY <1>1, <1>4 DEF TypeOK
<1>6. ASSUME NEW k \in Id, NEW c \in Content, NEW s \in Statements
      PROVE  effects'[k][c][s] >= effects[k][c][s]
  <2>1. CASE k = m /\ c = d
    BY <1>3, <1>5, <2>1
  <2>2. CASE ~(k = m /\ c = d)
    <3>1. effects'[k][c] = effects[k][c]
      BY <1>1, <1>4, <2>2 DEF TypeOK
    <3>2. effects[k][c][s] \in Nat
      BY DEF TypeOK
    <3>3. QED
      BY <3>1, <3>2
  <2>3. QED
    BY <2>1, <2>2
<1>7. \A s \in stmts : effects'[m][d][s] >= 1
  BY <1>3, <1>5
<1>8. QED
  BY <1>6, <1>7 DEF EffectsGrow, d

\* A step that adds runs at most only has to re-establish RanInv for the
\* process that takes it.
LEMMA RanFrame ==
    ASSUME TypeOK, TypeOK', TodoInv, RanInv, NEW p \in Proc, EffectsGrow,
           \A q \in Proc \ {p} : RanRest(q),
           \A m \in Id : pc'[p] \in {"run", "commit"} /\ IsCurrent(p, m)' =>
              \A s \in Statements :
                 s <= ran'[p] => s \in pending'[p] \/ effects'[m][dir'[p][m]][s] >= 1,
           pc'[p] = "commit" => ran'[p] = NumStmts
    PROVE  RanInv'
<1>1. ASSUME NEW q \in Proc \ {p}, NEW m \in Id,
             pc'[q] \in {"run", "commit"}, IsCurrent(q, m)',
             NEW s \in Statements, s <= ran'[q]
      PROVE  s \in pending'[q] \/ effects'[m][dir'[q][m]][s] >= 1
  <2>1. RanRest(q) /\ IsCurrent(q, m)
    BY <1>1 DEF RanRest, IsCurrent
  <2>2. s \in pending[q] \/ effects[m][dir[q][m]][s] >= 1
    BY <1>1, <2>1 DEF RanInv, RanRest
  <2>3. dir[q][m] \in Content
    BY <2>1 DEF IsCurrent, TodoInv, TypeOK
  <2>4. /\ effects'[m][dir[q][m]][s] >= effects[m][dir[q][m]][s]
        /\ effects'[m][dir[q][m]][s] \in Nat /\ effects[m][dir[q][m]][s] \in Nat
    BY <2>3 DEF EffectsGrow, TypeOK
  <2>5. QED
    BY <2>1, <2>2, <2>4 DEF RanRest
<1>2. \A q \in Proc \ {p} : pc'[q] = "commit" => ran'[q] = NumStmts
  BY DEF RanInv, RanRest
<1>3. QED
  BY <1>1, <1>2 DEF RanInv

\* The end of a transaction leaves the process outside its script.
LEMMA EndAttemptLeaves ==
    ASSUME TypeOK, NEW p \in Proc, NEW m \in Id, NEW outcome, EndAttempt(p, m, outcome)
    PROVE  /\ pc'[p] \in {"release", "resolve", "begin", "idle"}
           /\ \A q \in Proc \ {p} : pc'[q] = pc[q] /\ todo'[q] = todo[q]
<1>1. CASE Dialect # "mysql"
  BY <1>1, EndAttemptTx
<1>2. CASE Dialect = "mysql"
  BY <1>2 DEF EndAttempt, TypeOK
<1>3. QED
  BY <1>1, <1>2

\* Every step keeps RanInv, and a migration that is recorded has been run.
LEMMA RanStep ==
    ASSUME RecordedInv, RecordedInv', RanInv, RecordedMeansRun, [Next]_vars
    PROVE  RanInv' /\ RecordedMeansRun'
<1> USE MigratorAssumption
<1> TypeOK /\ TypeOK' /\ RowInv /\ TodoInv
  BY DEF RecordedInv
<1>1. ASSUME EffectsGrow, UNCHANGED tracked PROVE RecordedMeansRun'
  <2> SUFFICES ASSUME NEW m \in Id, tracked[m] # None, NEW s \in Statements
               PROVE  effects'[m][tracked[m]][s] >= 1
    BY <1>1 DEF RecordedMeansRun
  <2>1. tracked[m] \in Content /\ effects[m][tracked[m]][s] >= 1
    BY DEF TypeOK, RecordedMeansRun
  <2>2. /\ effects'[m][tracked[m]][s] >= effects[m][tracked[m]][s]
        /\ effects'[m][tracked[m]][s] \in Nat /\ effects[m][tracked[m]][s] \in Nat
    BY <1>1, <2>1 DEF EffectsGrow, TypeOK
  <2>3. QED
    BY <2>1, <2>2
<1>2. ASSUME UNCHANGED effects PROVE EffectsGrow
  BY <1>2 DEF EffectsGrow, TypeOK
<1>3. ASSUME NEW p \in Proc, UNCHANGED <<tracked, effects>>,
             \A q \in Proc \ {p} : RanRest(q),
             pc'[p] \notin {"run", "commit"} \/ RanRest(p)
      PROVE  RanInv' /\ RecordedMeansRun'
  <2>1. CASE pc'[p] \notin {"run", "commit"}
    BY <1>1, <1>2, <1>3, <2>1, RanFrame
  <2>2. CASE RanRest(p)
    <3>1. ASSUME NEW m \in Id, pc'[p] \in {"run", "commit"}, IsCurrent(p, m)',
                 NEW s \in Statements, s <= ran'[p]
          PROVE  s \in pending'[p] \/ effects'[m][dir'[p][m]][s] >= 1
      <4>1. IsCurrent(p, m)
        BY <2>2, <3>1 DEF RanRest, IsCurrent
      <4>2. QED
        BY <1>3, <2>2, <3>1, <4>1 DEF RanInv, RanRest
    <3>2. pc'[p] = "commit" => ran'[p] = NumStmts
      BY <2>2 DEF RanInv, RanRest
    <3>3. RanInv'
      BY <1>2, <1>3, <3>1, <3>2, RanFrame
    <3>4. QED
      BY <1>1, <1>2, <1>3, <3>3
  <2>3. QED
    BY <1>3, <2>1, <2>2
<1>4. ASSUME NEW p \in Proc,
             Call(p) \/ CreateTable(p) \/ LockedOut(p) \/ LoadApplied(p) \/ Begin(p) \/ BusyTimeout(p) \/ Wake(p)
               \/ AcquireLock(p) \/ QueryFails(p) \/ GuardDrops(p) \/ Crash(p)
      PROVE  RanInv' /\ RecordedMeansRun'
  <2>1. UNCHANGED <<tracked, effects>> /\ \A q \in Proc \ {p} : RanRest(q)
    BY <1>4 DEF Call, CreateTable, LockedOut, LoadApplied, Begin, BusyTimeout, Wake, AcquireLock, QueryFails,
                GuardDrops, Crash, Raise, TypeOK, RanRest, database, script
  <2>2. pc'[p] \notin {"run", "commit"} \/ RanRest(p)
    BY <1>4 DEF Call, CreateTable, LockedOut, LoadApplied, Begin, BusyTimeout, Wake, AcquireLock, QueryFails,
                GuardDrops, Crash, Raise, TypeOK, RanRest, database, script
  <2>3. QED
    BY <1>3, <2>1, <2>2
<1>5. ASSUME NEW p \in Proc, Recheck(p) PROVE RanInv' /\ RecordedMeansRun'
  <2>1. PICK m \in Id : \/ pc' = [pc EXCEPT ![p] = "run"] /\ UNCHANGED todo
                        \/ EndAttempt(p, m, VerifyLostRace(p, m))
    BY <1>5 DEF Recheck
  <2>2. /\ UNCHANGED <<tracked, effects, dir>> /\ ran'[p] = 0
        /\ \A q \in Proc \ {p} : ran'[q] = ran[q] /\ pending'[q] = pending[q]
    BY <1>5 DEF Recheck, TypeOK, database
  <2>3. pc'[p] # "commit" /\ \A q \in Proc \ {p} : RanRest(q)
    BY <2>1, <2>2, EndAttemptLeaves DEF RanRest, TypeOK
  <2>4. \A s \in Statements : ~(s <= ran'[p])
    BY <2>2 DEF Statements
  <2>5. RanInv'
    BY <1>2, <2>2, <2>3, <2>4, RanFrame
  <2>6. QED
    BY <1>1, <1>2, <2>2, <2>5
<1>6. ASSUME NEW p \in Proc, RunStatement(p) PROVE RanInv' /\ RecordedMeansRun'
  <2> DEFINE t == ran[p] + 1
  <2>1. /\ t \in Statements /\ pc[p] = "run"
        /\ UNCHANGED <<tracked, pc, dir, todo>>
        /\ ran'[p] = t
        /\ \A q \in Proc \ {p} : RanRest(q)
    BY <1>6 DEF RunStatement, ScriptDone, TypeOK, Statements, RanRest
  <2>2. ASSUME NEW s \in Statements, s <= t
        PROVE  s = t \/ s <= ran[p]
    <3>1. s \in Nat /\ ran[p] \in Nat
      BY DEF Statements, TypeOK
    <3>2. QED
      BY <2>2, <3>1
  <2>3. CASE \E m \in Id : /\ IsCurrent(p, m) /\ Durable(p, m, pending[p] \cup {t})
                           /\ pending' = [pending EXCEPT ![p] = {}]
    <3>1. PICK m \in Id : IsCurrent(p, m) /\ Durable(p, m, pending[p] \cup {t})
      BY <2>3
    <3>2. pending[p] \cup {t} \in SUBSET Statements /\ dir[p][m] # None
      BY <2>1, <3>1 DEF TypeOK, TodoInv, IsCurrent
    <3>3. EffectsGrow /\ \A s \in pending[p] \cup {t} : effects'[m][dir[p][m]][s] >= 1
      BY <3>1, <3>2, DurableGrows
    <3>4. ASSUME NEW s \in Statements, s <= t
          PROVE  effects'[m][dir[p][m]][s] >= 1
      <4>1. CASE s \in pending[p] \cup {t}
        BY <3>3, <4>1
      <4>2. CASE s \notin pending[p] \cup {t}
        <5>1. effects[m][dir[p][m]][s] >= 1
          BY <2>1, <2>2, <3>1, <3>4, <4>2 DEF RanInv
        <5>2. dir[p][m] \in Content
          BY <3>2 DEF TypeOK
        <5>3. /\ effects'[m][dir[p][m]][s] >= effects[m][dir[p][m]][s]
              /\ effects'[m][dir[p][m]][s] \in Nat /\ effects[m][dir[p][m]][s] \in Nat
          BY <3>3, <5>2 DEF EffectsGrow, TypeOK
        <5>4. QED
          BY <5>1, <5>3
      <4>3. QED
        BY <4>1, <4>2
    <3>5. \A k \in Id : IsCurrent(p, k)' => k = m
      BY <2>1, <3>1, CurrentIsUnique DEF IsCurrent
    <3>6. RanInv'
      BY <2>1, <3>3, <3>4, <3>5, RanFrame
    <3>7. QED
      BY <1>1, <2>1, <3>3, <3>6
  <2>4. CASE pending' = [pending EXCEPT ![p] = @ \cup {t}] /\ UNCHANGED effects
    <3>1. pending'[p] = pending[p] \cup {t}
      BY <2>4 DEF TypeOK
    <3>2. ASSUME NEW m \in Id, IsCurrent(p, m)', NEW s \in Statements, s <= t
          PROVE  s \in pending'[p] \/ effects'[m][dir'[p][m]][s] >= 1
      <4>1. IsCurrent(p, m)
        BY <2>1, <3>2 DEF IsCurrent
      <4>2. QED
        BY <2>1, <2>2, <2>4, <3>1, <3>2, <4>1 DEF RanInv
    <3>3. EffectsGrow /\ ran'[p] = t /\ pc'[p] # "commit"
      BY <1>2, <2>1, <2>4
    <3>4. \A m \in Id : pc'[p] \in {"run", "commit"} /\ IsCurrent(p, m)' =>
             \A s \in Statements :
                s <= ran'[p] => s \in pending'[p] \/ effects'[m][dir'[p][m]][s] >= 1
      BY <3>2, <3>3
    <3> HIDE DEF t
    <3>5. RanInv'
      BY <2>1, <3>3, <3>4, RanFrame
    <3>6. QED
      BY <1>1, <2>1, <3>3, <3>5
  <2>5. QED
    BY <1>6, <2>3, <2>4 DEF RunStatement
<1>7. ASSUME NEW p \in Proc, InsertRow(p) PROVE RanInv' /\ RecordedMeansRun'
  <2>1. PICK m \in Id : \/ /\ pc' = [pc EXCEPT ![p] = "commit"]
                           /\ UNCHANGED <<todo, pending>>
                        \/ /\ pending' = [pending EXCEPT ![p] = {}]
                           /\ EndAttempt(p, m, "conflict")
    BY <1>7 DEF InsertRow
  <2>2. UNCHANGED <<tracked, effects, dir, ran>> /\ pc[p] = "run" /\ ran[p] = NumStmts
    BY <1>7 DEF InsertRow, ScriptDone, database
  <2>3. CASE pc' = [pc EXCEPT ![p] = "commit"] /\ UNCHANGED <<todo, pending>>
    <3>1. \A q \in Proc \ {p} : RanRest(q)
      BY <2>2, <2>3 DEF RanRest, TypeOK
    <3>2. ASSUME NEW k \in Id, IsCurrent(p, k)', NEW s \in Statements, s <= ran'[p]
          PROVE  s \in pending'[p] \/ effects'[k][dir'[p][k]][s] >= 1
      <4>1. IsCurrent(p, k)
        BY <2>3, <3>2 DEF IsCurrent
      <4>2. QED
        BY <2>2, <2>3, <3>2, <4>1 DEF RanInv
    <3>3. RanInv'
      BY <1>2, <2>2, <3>1, <3>2, RanFrame
    <3>4. QED
      BY <1>1, <1>2, <2>2, <3>3
  <2>4. CASE pending' = [pending EXCEPT ![p] = {}] /\ EndAttempt(p, m, "conflict")
    <3>1. /\ pc'[p] \notin {"run", "commit"}
          /\ \A q \in Proc \ {p} : RanRest(q)
      BY <2>2, <2>4, EndAttemptLeaves DEF RanRest, TypeOK
    <3>2. QED
      BY <1>3, <2>2, <3>1
  <2>5. QED
    BY <2>1, <2>3, <2>4
<1>8. ASSUME NEW p \in Proc, NEW outcome \in {"applied", "error"}, Commit(p, outcome)
      PROVE  RanInv' /\ RecordedMeansRun'
  <2>1. PICK m \in Id : /\ IsCurrent(p, m)
                        /\ Durable(p, m, pending[p])
                        /\ tracked' = [tracked EXCEPT ![m] = dir[p][m]]
                        /\ EndAttempt(p, m, outcome)
    BY <1>8 DEF Commit
  <2>2. /\ pc[p] = "commit" /\ UNCHANGED <<dir, ran>>
        /\ \A q \in Proc \ {p} : pending'[q] = pending[q]
    BY <1>8 DEF Commit, TypeOK
  <2>3. /\ dir[p][m] # None /\ dir[p][m] \in Content
        /\ pending[p] \in SUBSET Statements
        /\ tracked'[m] = dir[p][m] /\ \A k \in Id \ {m} : tracked'[k] = tracked[k]
    BY <2>1 DEF TodoInv, IsCurrent, TypeOK
  <2>4. EffectsGrow /\ \A s \in pending[p] : effects'[m][dir[p][m]][s] >= 1
    BY <2>1, <2>3, DurableGrows
  <2>5. /\ pc'[p] \notin {"run", "commit"}
        /\ \A q \in Proc \ {p} : RanRest(q)
    BY <2>1, <2>2, EndAttemptLeaves DEF RanRest
  <2>6. RanInv'
    BY <2>4, <2>5, RanFrame
  <2>7. ASSUME NEW k \in Id, tracked'[k] # None, NEW s \in Statements
        PROVE  effects'[k][tracked'[k]][s] >= 1
    <3>1. CASE k = m
      <4>1. s \in pending[p] \/ effects[m][dir[p][m]][s] >= 1
        <5>1. ran[p] = NumStmts /\ s <= NumStmts
          BY <2>2 DEF RanInv, Statements
        <5>2. QED
          BY <2>1, <2>2, <5>1 DEF RanInv
      <4>2. /\ effects'[m][dir[p][m]][s] >= effects[m][dir[p][m]][s]
            /\ effects'[m][dir[p][m]][s] \in Nat /\ effects[m][dir[p][m]][s] \in Nat
        BY <2>3, <2>4 DEF EffectsGrow, TypeOK
      <4>3. QED
        BY <2>3, <2>4, <3>1, <4>1, <4>2
    <3>2. CASE k # m
      <4>1. tracked'[k] = tracked[k] /\ tracked[k] \in Content
        BY <2>3, <2>7, <3>2 DEF TypeOK
      <4>2. effects[k][tracked[k]][s] >= 1
        BY <2>7, <4>1 DEF RecordedMeansRun
      <4>3. /\ effects'[k][tracked[k]][s] >= effects[k][tracked[k]][s]
            /\ effects'[k][tracked[k]][s] \in Nat /\ effects[k][tracked[k]][s] \in Nat
        BY <2>4, <4>1 DEF EffectsGrow, TypeOK
      <4>4. QED
        BY <4>1, <4>2, <4>3
    <3>3. QED
      BY <3>1, <3>2
  <2>8. QED
    BY <2>6, <2>7 DEF RecordedMeansRun
<1>9. ASSUME NEW p \in Proc, Release(p) \/ Resolve(p)
      PROVE  RanInv' /\ RecordedMeansRun'
  <2>1. PICK m \in Id : \E outcome \in {attempt[p], "error", VerifyLostRace(p, m)} :
          Settle(p, m, outcome)
    BY <1>9 DEF Release, Resolve
  <2>2. UNCHANGED <<tracked, effects, dir, ran, pending>>
    BY <1>9 DEF Release, Resolve, database, script
  <2>3. pc'[p] \notin {"run", "commit"} /\ \A q \in Proc \ {p} : RanRest(q)
    BY <2>1, <2>2 DEF Settle, TypeOK, RanRest
  <2>4. QED
    BY <1>3, <2>2, <2>3
<1>10. ASSUME NEW p \in Proc, NEW outcome \in {"conflict", "error"},
              StatementFails(p, outcome)
       PROVE  RanInv' /\ RecordedMeansRun'
  <2>1. PICK m \in Id : EndAttempt(p, m, outcome)
    BY <1>10 DEF StatementFails
  <2>2. /\ UNCHANGED <<tracked, effects, dir, ran>>
        /\ \A q \in Proc \ {p} : pending'[q] = pending[q]
    BY <1>10 DEF StatementFails, TypeOK, database
  <2>3. pc'[p] \notin {"run", "commit"} /\ \A q \in Proc \ {p} : RanRest(q)
    BY <2>1, <2>2, EndAttemptLeaves DEF RanRest
  <2>4. QED
    BY <1>3, <2>2, <2>3
<1>11. CASE UNCHANGED vars
  BY <1>11 DEF vars, schema, database, RanInv, RecordedMeansRun, IsCurrent
<1>12. QED
  BY <1>4, <1>5, <1>6, <1>7, <1>8, <1>9, <1>10, <1>11 DEF Next, Progress, Fault

\* On every dialect, also where DDL commits itself and the lock can be lost, a
\* recorded migration has had every statement of the recorded content run.
THEOREM RecordedMigrationsRan == Spec => []RecordedMeansRun
<1> DEFINE Inv == RecordedInv /\ RanInv /\ RecordedMeansRun
<1>1. Init => Inv
  BY RecordedInit DEF Init, RanInv, RecordedMeansRun
<1>2. Inv /\ [Next]_vars => Inv'
  BY RecordedStep, RanStep
<1>3. Inv => RecordedMeansRun
  OBVIOUS
<1>4. QED
  BY <1>1, <1>2, <1>3, PTL DEF Spec

\* A step of any dialect that touches the database is a step of the log.
LEMMA LogStep ==
    ASSUME RecordedInv, DirInv, RanInv, [Next]_vars
    PROVE  [History!LogNext]_<<tracked, effects>>
<1> USE MigratorAssumption
<1> TypeOK /\ RowInv /\ TodoInv
  BY DEF RecordedInv
<1>1. ASSUME NEW p \in Proc, RunStatement(p), effects' # effects
      PROVE  History!LogNext
  <2> DEFINE stmts == pending[p] \cup {ran[p] + 1}
  <2>1. PICK m \in Id : IsCurrent(p, m) /\ Durable(p, m, stmts)
    BY <1>1 DEF RunStatement
  <2>2. pc[p] = "run" /\ UNCHANGED tracked /\ stmts \in SUBSET History!Statements
    BY <1>1 DEF RunStatement, ScriptDone, TypeOK, Statements, History!Statements
  <2> HIDE DEF stmts
  <2>3. dir[p] \in Directories /\ History!Reached(m, dir[p])
    BY <2>1, <2>2, CurrentReached
  <2>4. History!Execute(m, dir[p], stmts)
    BY <2>1, <2>2, <2>3, DurableRuns DEF History!Execute
  <2>5. QED
    BY <2>2, <2>3, <2>4 DEF History!LogNext
<1>2. ASSUME NEW p \in Proc, NEW outcome \in {"applied", "error"}, Commit(p, outcome)
      PROVE  History!LogNext
  <2>1. PICK m \in Id : /\ IsCurrent(p, m)
                        /\ Durable(p, m, pending[p])
                        /\ tracked' = [tracked EXCEPT ![m] = dir[p][m]]
    BY <1>2 DEF Commit
  <2>2. pc[p] = "commit" /\ pending[p] \in SUBSET History!Statements
    BY <1>2 DEF Commit, TypeOK, Statements, History!Statements
  <2>3. /\ dir[p] \in Directories /\ dir[p][m] \in Content
        /\ History!Reached(m, dir[p])
    BY <2>1, <2>2, CurrentReached
  <2>4. tracked[m] = None
    BY <2>1, <2>2 DEF RowInv
  <2>5. ASSUME NEW s \in History!Statements \ pending[p]
        PROVE  effects[m][dir[p][m]][s] > 0
    <3>1. s \in Statements /\ s <= ran[p]
      BY <2>2 DEF RanInv, Statements, History!Statements
    <3>2. effects[m][dir[p][m]][s] >= 1
      BY <2>1, <2>2, <3>1 DEF RanInv
    <3>3. effects[m][dir[p][m]][s] \in Nat
      BY <2>3, <3>1 DEF TypeOK
    <3>4. QED
      BY <3>2, <3>3
  <2>6. History!Record(m, dir[p], pending[p])
    BY <2>1, <2>3, <2>4, <2>5, DurableRuns DEF History!Record
  <2>7. QED
    BY <2>2, <2>3, <2>6 DEF History!LogNext
<1>3. ASSUME NEW p \in Proc,
             \/ Call(p) \/ CreateTable(p) \/ LockedOut(p) \/ LoadApplied(p) \/ Begin(p) \/ BusyTimeout(p) \/ Wake(p)
             \/ AcquireLock(p) \/ Recheck(p) \/ InsertRow(p) \/ Release(p) \/ Resolve(p)
             \/ QueryFails(p) \/ GuardDrops(p) \/ Crash(p)
             \/ \E outcome \in {"conflict", "error"} : StatementFails(p, outcome)
      PROVE  UNCHANGED <<tracked, effects>>
  BY <1>3 DEF Call, CreateTable, LockedOut, LoadApplied, Begin, BusyTimeout, Wake, AcquireLock, Recheck, InsertRow,
              Release, Resolve, QueryFails, GuardDrops, Crash, StatementFails, database
<1>4. ASSUME NEW p \in Proc, RunStatement(p) PROVE UNCHANGED tracked
  BY <1>4 DEF RunStatement
<1>5. QED
  BY <1>1, <1>2, <1>3, <1>4 DEF Next, Progress, Fault, vars, schema, database

\* On every dialect, whatever races, fails or drops its lock, the database goes
\* through the log: nothing takes effect before the earlier files are recorded,
\* and a row comes once and only after its whole script.
THEOREM LogRefinement == Spec => ImplementsLog
<1> DEFINE Inv == RecordedInv /\ DirInv /\ RanInv /\ RecordedMeansRun
<1>1. Init => Inv /\ History!Init
  BY RecordedInit DEF Init, DirInv, RanInv, RecordedMeansRun, History!Init, Statements,
                      History!Statements
<1>2. Inv /\ [Next]_vars => Inv'
  BY RecordedStep, DirStep, RanStep DEF RecordedInv
<1>3. Inv /\ [Next]_vars => [History!LogNext]_<<tracked, effects>>
  BY LogStep
<1>4. QED
  BY <1>1, <1>2, <1>3, PTL DEF Spec, History!LogSpec, ImplementsLog

-----------------------------------------------------------------------------
(***************************************************************************)
(* One deployment without a fault, on every dialect: whoever is between    *)
(* the re-check and the end of its attempt holds the lock, so the row it   *)
(* saw missing stays missing; and whatever is recorded came from the one   *)
(* directory, so that a lost race is always skipped cleanly.  A worker     *)
(* locked out of the tracking table found the lock with one of these.      *)
(***************************************************************************)
Attempting == InTransaction \cup {"release"}

WorkerInv ==
    \A p \in Proc :
        /\ pc[p] # "idle" => result[p] = "running" /\ calls[p] = 1
        /\ pc[p] = "idle" => result[p] \in {"none", "ok", "locked"}
        /\ result[p] # "none" => calls[p] = 1
        /\ pc[p] # "resolve"
        /\ pc[p] \in Attempting <=> lock = p
        /\ pc[p] = "release" => attempt[p] \in Done
        /\ \A m \in Id : pc[p] \in {"run", "commit"} /\ IsCurrent(p, m) => tracked[m] = None

SourceInv == \A m \in Id : tracked[m] # None => \E p \in Proc : calls[p] = 1 /\ dir[p][m] = tracked[m]

Ahead(q) == pc[q] # "create" /\ result[q] \in {"running", "ok"}

AheadInv == (\E p \in Proc : result[p] = "locked") => \E q \in Proc : Ahead(q)

CleanInv == WorkerInv /\ SourceInv /\ AheadInv

WorkerRest(q) ==
    /\ result'[q] = result[q] /\ pc'[q] = pc[q] /\ calls'[q] = calls[q]
    /\ attempt'[q] = attempt[q] /\ todo'[q] = todo[q]

LockMoves(p) == lock' = lock \/ ((lock = None \/ lock = p) /\ (lock' = None \/ lock' = p))

\* The call of p goes on or returns.
GoesOn(p) ==
    /\ pc'[p] # "create" /\ calls'[p] = 1
    /\ result'[p] = IF pc'[p] = "idle" THEN "ok" ELSE "running"

\* A step of one process that commits nothing only has to re-establish that
\* process's own part of WorkerInv.
LEMMA WorkerFrame ==
    ASSUME TypeOK, WorkerInv, NEW p \in Proc, UNCHANGED tracked,
           \A q \in Proc \ {p} : WorkerRest(q),
           LockMoves(p),
           pc'[p] # "idle" => result'[p] = "running" /\ calls'[p] = 1,
           pc'[p] = "idle" => result'[p] \in {"none", "ok", "locked"},
           result'[p] # "none" => calls'[p] = 1,
           pc'[p] # "resolve",
           pc'[p] \in Attempting <=> lock' = p,
           pc'[p] = "release" => attempt'[p] \in Done,
           \A m \in Id : pc'[p] \in {"run", "commit"} /\ IsCurrent(p, m)' => tracked[m] = None
    PROVE  WorkerInv'
<1>1. ASSUME NEW q \in Proc \ {p}
      PROVE  /\ pc'[q] # "idle" => result'[q] = "running" /\ calls'[q] = 1
             /\ pc'[q] = "idle" => result'[q] \in {"none", "ok", "locked"}
             /\ result'[q] # "none" => calls'[q] = 1
             /\ pc'[q] # "resolve"
             /\ pc'[q] = "release" => attempt'[q] \in Done
             /\ \A m \in Id : pc'[q] \in {"run", "commit"} /\ IsCurrent(q, m)' => tracked'[m] = None
  BY DEF WorkerInv, WorkerRest, IsCurrent
<1>2. ASSUME NEW q \in Proc \ {p}
      PROVE  pc'[q] \in Attempting <=> lock' = q
  <2>1. lock = q <=> lock' = q
    BY MigratorAssumption DEF LockMoves
  <2>2. QED
    BY <2>1 DEF WorkerInv, WorkerRest
<1>3. QED
  BY <1>1, <1>2 DEF WorkerInv

\* Nobody falls behind in a step in which a call goes on.
LEMMA AheadFrame ==
    ASSUME AheadInv, NEW p \in Proc, \A q \in Proc \ {p} : WorkerRest(q), GoesOn(p)
    PROVE  AheadInv'
<1>1. \A q \in Proc : result'[q] = "locked" => result[q] = "locked"
  BY DEF GoesOn, WorkerRest
<1>2. \A q \in Proc : Ahead(q) => Ahead(q)'
  BY DEF Ahead, GoesOn, WorkerRest
<1>3. QED
  BY <1>1, <1>2 DEF AheadInv

\* The loop goes on, or the call returns.
LEMMA SettleClean ==
    ASSUME TypeOK, WorkerInv, NEW p \in Proc, NEW m \in Id, NEW outcome \in Done,
           Settle(p, m, outcome), UNCHANGED <<attempt, calls>>, pc[p] # "idle"
    PROVE  /\ \A q \in Proc \ {p} : WorkerRest(q)
           /\ pc'[p] \in {"begin", "idle"}
           /\ GoesOn(p)
<1>1. calls'[p] = 1 /\ \A q \in Proc \ {p} : WorkerRest(q)
  BY DEF Settle, TypeOK, WorkerRest, WorkerInv
<1>2. /\ pc'[p] = IF todo'[p] # {} THEN "begin" ELSE "idle"
      /\ result'[p] = IF todo'[p] = {} THEN "ok" ELSE "running"
  BY DEF Settle, Done, TypeOK
<1>3. QED
  BY <1>1, <1>2 DEF GoesOn

\* So does the end of a transaction, after mysql's release.
LEMMA EndAttemptClean ==
    ASSUME TypeOK, WorkerInv, NEW p \in Proc, NEW m \in Id, NEW outcome \in Done,
           EndAttempt(p, m, outcome), UNCHANGED calls, pc[p] \in InTransaction
    PROVE  /\ \A q \in Proc \ {p} : WorkerRest(q)
           /\ pc'[p] \in {"begin", "idle", "release"}
           /\ GoesOn(p)
           /\ LockMoves(p)
           /\ pc'[p] = "release" => attempt'[p] \in Done
           /\ pc'[p] \in Attempting <=> lock' = p
<1> USE MigratorAssumption
<1>1. lock = p /\ calls[p] = 1 /\ pc[p] # "idle" /\ result[p] = "running"
  BY DEF WorkerInv, InTransaction, Attempting
<1>2. CASE Dialect # "mysql"
  <2>1. Settle(p, m, outcome) /\ UNCHANGED attempt /\ lock' = None
    BY <1>1, <1>2 DEF EndAttempt, Unlocked
  <2>2. QED
    BY <1>1, <2>1, SettleClean DEF LockMoves, Attempting, InTransaction
<1>3. CASE Dialect = "mysql"
  <2>1. /\ pc' = [pc EXCEPT ![p] = "release"]
        /\ attempt' = [attempt EXCEPT ![p] = outcome]
        /\ UNCHANGED <<lock, todo, result>>
    BY <1>3 DEF EndAttempt
  <2>2. pc'[p] = "release" /\ attempt'[p] = outcome
    BY <2>1 DEF TypeOK
  <2>3. \A q \in Proc \ {p} : WorkerRest(q)
    BY <2>1 DEF TypeOK, WorkerRest
  <2>4. QED
    BY <1>1, <2>1, <2>2, <2>3 DEF GoesOn, LockMoves, Attempting
<1>4. QED
  BY <1>2, <1>3

\* If nothing has failed and every process has started once over one directory
\* after a step, that was so before it.
LEMMA DeploymentBefore ==
    ASSUME TypeOK, [Next]_vars, faults' = 0, OneDeployment'
    PROVE  faults = 0 /\ OneDeployment
<1> USE MigratorAssumption
<1>1. CASE \E p \in Proc : Call(p)
  <2>1. PICK p \in Proc : Call(p)
    BY <1>1
  <2>2. /\ faults' = faults /\ calls'[p] = calls[p] + 1
        /\ \A q \in Proc \ {p} : calls'[q] = calls[q] /\ dir'[q] = dir[q]
    BY <2>1 DEF Call, TypeOK
  <2>3. calls[p] = 0
    <3>1. calls'[p] <= 1 /\ calls[p] \in Nat
      BY DEF OneDeployment, TypeOK
    <3>2. QED
      BY <2>2, <3>1
  <2>4. QED
    BY <2>2, <2>3 DEF OneDeployment
<1>2. CASE ~\E p \in Proc : Call(p)
  <2>1. UNCHANGED <<calls, dir>> /\ (faults' = faults \/ faults' = faults + 1)
    BY <1>2 DEF Next, Progress, Fault, CreateTable, LockedOut, LoadApplied, Begin, BusyTimeout, Wake, AcquireLock,
                Recheck, RunStatement, InsertRow, Commit, Release, Resolve, QueryFails,
                StatementFails, GuardDrops, Crash, vars, schema, database
  <2>2. QED
    BY <2>1 DEF OneDeployment, TypeOK
<1>3. QED
  BY <1>1, <1>2

LEMMA CleanStep ==
    ASSUME RecordedInv, CleanInv, [Next]_vars, faults = 0, OneDeployment,
           faults' = 0, OneDeployment'
    PROVE  CleanInv'
<1> USE MigratorAssumption
<1> TypeOK /\ TodoInv /\ WorkerInv /\ SourceInv /\ AheadInv
  BY DEF RecordedInv, CleanInv
<1>1. ASSUME NEW p \in Proc, NEW m \in Id, calls[p] = 1, tracked[m] # None
      PROVE  tracked[m] = dir[p][m]
  BY <1>1 DEF SourceInv, OneDeployment
<1>2. ASSUME UNCHANGED <<tracked, dir, calls>> PROVE SourceInv'
  BY <1>2 DEF SourceInv
<1>3. ASSUME NEW p \in Proc, Call(p) PROVE CleanInv'
  <2>1. /\ UNCHANGED <<tracked, lock>>
        /\ pc[p] = "idle" /\ pc'[p] = "create" /\ result'[p] = "running" /\ calls'[p] = calls[p] + 1
        /\ \A q \in Proc \ {p} : WorkerRest(q) /\ dir'[q] = dir[q]
    BY <1>3 DEF Call, TypeOK, WorkerRest, database
  <2>2. calls[p] = 0 /\ calls'[p] = 1
    <3>1. calls'[p] <= 1 /\ calls[p] \in Nat
      BY DEF OneDeployment, TypeOK
    <3>2. QED
      BY <2>1, <3>1
  <2>3. WorkerInv'
    <3>1. lock # p
      BY <2>1 DEF WorkerInv, Attempting, InTransaction
    <3>2. QED
      BY <2>1, <2>2, <3>1, WorkerFrame DEF LockMoves, Attempting, InTransaction
  <2>4. ASSUME NEW m \in Id, tracked'[m] # None
        PROVE  \E q \in Proc : calls'[q] = 1 /\ dir'[q][m] = tracked'[m]
    <3>1. PICK q \in Proc : calls[q] = 1 /\ dir[q][m] = tracked[m]
      BY <2>1, <2>4 DEF SourceInv
    <3>2. q # p
      BY <2>2, <3>1
    <3>3. QED
      BY <2>1, <3>1, <3>2 DEF WorkerRest
  <2>5. SourceInv'
    BY <2>4 DEF SourceInv
  <2>6. AheadInv'
    <3>1. result[p] = "none"
      BY <2>2 DEF WorkerInv
    <3>2. \A q \in Proc : result'[q] = "locked" => result[q] = "locked"
      BY <2>1 DEF WorkerRest
    <3>3. \A q \in Proc : Ahead(q) => Ahead(q)'
      BY <2>1, <3>1 DEF Ahead, WorkerRest
    <3>4. QED
      BY <3>2, <3>3 DEF AheadInv
  <2>7. QED
    BY <2>3, <2>5, <2>6 DEF CleanInv
<1>14. ASSUME NEW p \in Proc, CreateTable(p) PROVE CleanInv'
  <2>1. /\ UNCHANGED <<tracked, lock, dir, calls, result>>
        /\ pc[p] = "create" /\ pc'[p] = "load"
        /\ \A q \in Proc \ {p} : WorkerRest(q)
    BY <1>14 DEF CreateTable, TypeOK, WorkerRest, database
  <2>2. result[p] = "running" /\ calls[p] = 1 /\ lock # p
    BY <2>1 DEF WorkerInv, Attempting, InTransaction
  <2>3. GoesOn(p)
    BY <2>1, <2>2 DEF GoesOn
  <2>4. WorkerInv'
    BY <2>1, <2>2, WorkerFrame DEF LockMoves, Attempting, InTransaction
  <2>5. QED
    BY <1>2, <2>1, <2>3, <2>4, AheadFrame DEF CleanInv
<1>15. ASSUME NEW p \in Proc, LockedOut(p) PROVE CleanInv'
  <2>1. /\ UNCHANGED <<tracked, lock, dir, calls>>
        /\ pc[p] = "create" /\ lock # None
        /\ pc'[p] = "idle" /\ result'[p] = "locked"
        /\ \A q \in Proc \ {p} : WorkerRest(q)
    BY <1>15 DEF LockedOut, Raise, TypeOK, WorkerRest, database
  <2>2. calls[p] = 1 /\ lock # p
    BY <2>1 DEF WorkerInv, Attempting, InTransaction
  <2>3. WorkerInv'
    BY <2>1, <2>2, WorkerFrame DEF LockMoves, Attempting, InTransaction
  <2>4. PICK q \in Proc : lock = q
    BY <2>1 DEF TypeOK
  <2>5. pc[q] \in Attempting /\ q # p
    BY <2>2, <2>4 DEF WorkerInv
  <2>6. pc[q] \notin {"idle", "create"}
    BY <2>5 DEF Attempting, InTransaction
  <2>7. Ahead(q)'
    BY <2>1, <2>5, <2>6 DEF WorkerInv, WorkerRest, Ahead
  <2>8. QED
    BY <1>2, <2>1, <2>3, <2>7 DEF CleanInv, AheadInv
<1>4. ASSUME NEW p \in Proc, LoadApplied(p) PROVE CleanInv'
  <2>1. pc[p] = "load" /\ calls[p] = 1 /\ lock # p
    BY <1>4 DEF LoadApplied, WorkerInv, Attempting, InTransaction
  <2>2. Vanished(p) = {} /\ Drifted(p) = {}
    BY <1>1, <2>1 DEF Vanished, Drifted
  <2>3. /\ pc'[p] \in {"idle", "begin"} /\ GoesOn(p)
        /\ UNCHANGED <<tracked, lock, dir, calls>>
        /\ \A q \in Proc \ {p} : WorkerRest(q)
    <3>1. /\ UNCHANGED <<tracked, lock, dir, calls, attempt>>
          /\ \E missing \in SUBSET Id :
                /\ todo' = [todo EXCEPT ![p] = missing]
                /\ pc' = [pc EXCEPT ![p] = IF missing = {} THEN "idle" ELSE "begin"]
                /\ result' = [result EXCEPT ![p] = IF missing = {} THEN "ok" ELSE "running"]
      BY <1>4, <2>2 DEF LoadApplied, database
    <3>2. QED
      BY <2>1, <3>1 DEF TypeOK, WorkerRest, GoesOn
  <2>4. WorkerInv'
    BY <2>1, <2>3, WorkerFrame DEF GoesOn, LockMoves, Attempting, InTransaction
  <2>5. QED
    BY <1>2, <2>3, <2>4, AheadFrame DEF CleanInv
<1>5. ASSUME NEW p \in Proc, Begin(p) \/ BusyTimeout(p) \/ Wake(p) \/ AcquireLock(p)
      PROVE  CleanInv'
  <2>1. /\ UNCHANGED <<tracked, dir, calls, result>>
        /\ pc[p] # "idle"
        /\ pc[p] \notin Attempting
        /\ \/ pc'[p] = "recheck" /\ lock = None /\ lock' = p
           \/ pc'[p] \in {"lock", "sleep", "begin"} /\ lock' = lock
        /\ \A q \in Proc \ {p} : WorkerRest(q)
    BY <1>5 DEF Begin, BusyTimeout, Wake, AcquireLock, LockIsFree, TypeOK, WorkerRest, database,
                Attempting, InTransaction
  <2>2. calls'[p] = 1 /\ result'[p] = "running" /\ lock # p
    BY <2>1 DEF WorkerInv
  <2>3. GoesOn(p)
    BY <2>1, <2>2 DEF GoesOn
  <2>4. WorkerInv'
    BY <2>1, <2>2, WorkerFrame DEF LockMoves, Attempting, InTransaction
  <2>5. QED
    BY <1>2, <2>1, <2>3, <2>4, AheadFrame DEF CleanInv
<1>6. ASSUME NEW p \in Proc, Recheck(p) PROVE CleanInv'
  <2>1. PICK m \in Id :
          /\ IsCurrent(p, m)
          /\ \/ /\ tracked[m] = None
                /\ pc' = [pc EXCEPT ![p] = "run"]
                /\ UNCHANGED <<lock, todo, attempt, appliedNow, result>>
             \/ /\ tracked[m] # None
                /\ EndAttempt(p, m, VerifyLostRace(p, m))
    BY <1>6 DEF Recheck
  <2>2. UNCHANGED <<tracked, dir, calls>> /\ pc[p] = "recheck" /\ pc[p] \in InTransaction
    BY <1>6 DEF Recheck, database, InTransaction
  <2>3. calls[p] = 1 /\ lock = p /\ result[p] = "running"
    BY <2>2 DEF WorkerInv, Attempting
  <2>4. CASE /\ tracked[m] = None
             /\ pc' = [pc EXCEPT ![p] = "run"]
             /\ UNCHANGED <<lock, todo, attempt, appliedNow, result>>
    <3>1. pc'[p] = "run" /\ \A q \in Proc \ {p} : WorkerRest(q)
      BY <2>2, <2>4 DEF TypeOK, WorkerRest
    <3>2. \A k \in Id : IsCurrent(p, k)' => tracked[k] = None
      BY <2>1, <2>4, CurrentIsUnique DEF IsCurrent
    <3>3. WorkerInv'
      BY <2>2, <2>3, <2>4, <3>1, <3>2, WorkerFrame DEF LockMoves, Attempting, InTransaction
    <3>4. GoesOn(p)
      BY <2>2, <2>3, <2>4, <3>1 DEF GoesOn
    <3>5. QED
      BY <1>2, <2>2, <3>1, <3>3, <3>4, AheadFrame DEF CleanInv
  <2>5. CASE tracked[m] # None /\ EndAttempt(p, m, VerifyLostRace(p, m))
    <3>1. VerifyLostRace(p, m) \in Done
      BY <1>1, <2>3, <2>5 DEF VerifyLostRace, Done
    <3>2. /\ \A q \in Proc \ {p} : WorkerRest(q)
          /\ pc'[p] \in {"begin", "idle", "release"}
          /\ GoesOn(p) /\ LockMoves(p)
          /\ pc'[p] = "release" => attempt'[p] \in Done
          /\ pc'[p] \in Attempting <=> lock' = p
      BY <2>2, <2>5, <3>1, EndAttemptClean
    <3>3. WorkerInv'
      BY <2>2, <3>2, WorkerFrame DEF GoesOn
    <3>4. QED
      BY <1>2, <2>2, <3>2, <3>3, AheadFrame DEF CleanInv
  <2>6. QED
    BY <2>1, <2>4, <2>5
<1>7. ASSUME NEW p \in Proc, RunStatement(p) PROVE CleanInv'
  <2>1. UNCHANGED <<tracked, lock, pc, dir, todo, attempt, result, calls>>
    BY <1>7 DEF RunStatement
  <2>2. QED
    BY <1>2, <2>1 DEF CleanInv, WorkerInv, AheadInv, Ahead, IsCurrent
<1>8. ASSUME NEW p \in Proc, InsertRow(p) PROVE CleanInv'
  <2>1. PICK m \in Id :
          /\ IsCurrent(p, m)
          /\ \/ /\ tracked[m] = None
                /\ pc' = [pc EXCEPT ![p] = "commit"]
                /\ UNCHANGED <<lock, todo, pending, attempt, appliedNow, result>>
             \/ tracked[m] # None
    BY <1>8 DEF InsertRow
  <2>2. UNCHANGED <<tracked, dir, calls>> /\ pc[p] = "run"
    BY <1>8 DEF InsertRow, database
  <2>3. tracked[m] = None
    BY <2>1, <2>2 DEF WorkerInv
  <2>4. /\ pc' = [pc EXCEPT ![p] = "commit"]
        /\ UNCHANGED <<lock, todo, attempt, result>>
    BY <2>1, <2>3
  <2>5. pc'[p] = "commit" /\ \A q \in Proc \ {p} : WorkerRest(q)
    BY <2>2, <2>4 DEF TypeOK, WorkerRest
  <2>6. /\ calls[p] = 1 /\ lock = p /\ result[p] = "running"
        /\ \A k \in Id : IsCurrent(p, k) => tracked[k] = None
    BY <2>2 DEF WorkerInv, Attempting, InTransaction
  <2>7. \A k \in Id : IsCurrent(p, k)' => tracked[k] = None
    BY <2>4, <2>6 DEF IsCurrent
  <2>8. WorkerInv'
    BY <2>2, <2>4, <2>5, <2>6, <2>7, WorkerFrame DEF LockMoves, Attempting, InTransaction
  <2>9. GoesOn(p)
    BY <2>2, <2>4, <2>5, <2>6 DEF GoesOn
  <2>10. QED
    BY <1>2, <2>2, <2>5, <2>8, <2>9, AheadFrame DEF CleanInv
<1>9. ASSUME NEW p \in Proc, NEW outcome \in {"applied", "error"}, Commit(p, outcome)
      PROVE  CleanInv'
  <2>1. PICK m \in Id : /\ IsCurrent(p, m)
                        /\ tracked' = [tracked EXCEPT ![m] = dir[p][m]]
                        /\ EndAttempt(p, m, outcome)
    BY <1>9 DEF Commit
  <2>2. /\ UNCHANGED <<dir, calls>> /\ pc[p] = "commit" /\ pc[p] \in InTransaction
        /\ outcome \in Done
    BY <1>9 DEF Commit, InTransaction, Done
  <2>3. calls[p] = 1 /\ lock = p
    BY <2>2 DEF WorkerInv, Attempting
  <2>4. \A q \in Proc \ {p} : pc[q] \notin Attempting
    BY <2>3 DEF WorkerInv
  <2>5. /\ \A q \in Proc \ {p} : WorkerRest(q)
        /\ pc'[p] \in {"begin", "idle", "release"}
        /\ GoesOn(p) /\ LockMoves(p)
        /\ pc'[p] = "release" => attempt'[p] \in Done
        /\ pc'[p] \in Attempting <=> lock' = p
    BY <2>1, <2>2, EndAttemptClean
  <2>6. ASSUME NEW q \in Proc
        PROVE  /\ pc'[q] # "idle" => result'[q] = "running" /\ calls'[q] = 1
               /\ pc'[q] = "idle" => result'[q] \in {"none", "ok", "locked"}
               /\ result'[q] # "none" => calls'[q] = 1
               /\ pc'[q] # "resolve"
               /\ pc'[q] \in Attempting <=> lock' = q
               /\ pc'[q] = "release" => attempt'[q] \in Done
               /\ \A k \in Id : pc'[q] \in {"run", "commit"} /\ IsCurrent(q, k)'
                                => tracked'[k] = None
    <3>1. CASE q = p
      BY <2>5, <3>1 DEF GoesOn
    <3>2. CASE q # p
      <4>1. WorkerRest(q) /\ pc[q] \notin Attempting
        BY <2>4, <2>5, <3>2
      <4>2. lock' # q
        BY <2>3, <2>5, <3>2 DEF LockMoves
      <4>3. QED
        BY <4>1, <4>2 DEF WorkerInv, WorkerRest, Attempting, InTransaction
    <3>3. QED
      BY <3>1, <3>2
  <2>7. WorkerInv'
    BY <2>6 DEF WorkerInv
  <2>8. ASSUME NEW k \in Id, tracked'[k] # None
        PROVE  \E q \in Proc : calls'[q] = 1 /\ dir'[q][k] = tracked'[k]
    <3>1. CASE k = m
      BY <2>1, <2>2, <2>3, <3>1 DEF TypeOK
    <3>2. CASE k # m
      BY <2>1, <2>2, <2>8, <3>2 DEF TypeOK, SourceInv
    <3>3. QED
      BY <3>1, <3>2
  <2>9. SourceInv'
    BY <2>8 DEF SourceInv
  <2>10. QED
    BY <2>5, <2>7, <2>9, AheadFrame DEF CleanInv
<1>10. ASSUME NEW p \in Proc, Release(p) PROVE CleanInv'
  <2>1. PICK m \in Id : Settle(p, m, IF lock # p /\ attempt[p] \in {"applied", "skipped"}
                                     THEN "error" ELSE attempt[p])
    BY <1>10 DEF Release
  <2>2. /\ UNCHANGED <<tracked, dir, calls, attempt>> /\ pc[p] = "release"
        /\ lock' = Unlocked(p)
    BY <1>10 DEF Release, database
  <2>3. lock = p /\ attempt[p] \in Done
    BY <2>2 DEF WorkerInv, Attempting
  <2>4. Settle(p, m, attempt[p])
    BY <2>1, <2>3
  <2>5. /\ \A q \in Proc \ {p} : WorkerRest(q)
        /\ pc'[p] \in {"begin", "idle"}
        /\ GoesOn(p)
    BY <2>2, <2>3, <2>4, SettleClean
  <2>6. lock' = None
    BY <2>2, <2>3 DEF Unlocked
  <2>7. WorkerInv'
    BY <2>2, <2>3, <2>5, <2>6, WorkerFrame DEF GoesOn, LockMoves, Attempting, InTransaction
  <2>8. QED
    BY <1>2, <2>2, <2>5, <2>7, AheadFrame DEF CleanInv
<1>11. ASSUME NEW p \in Proc, Resolve(p) PROVE FALSE
  BY <1>11 DEF Resolve, WorkerInv
<1>12. ASSUME NEW p \in Proc,
              QueryFails(p) \/ GuardDrops(p) \/ Crash(p)
                \/ \E outcome \in {"conflict", "error"} : StatementFails(p, outcome)
       PROVE  FALSE
  BY <1>12 DEF QueryFails, GuardDrops, Crash, StatementFails
<1>13. CASE UNCHANGED vars
  BY <1>13 DEF vars, schema, database, CleanInv, WorkerInv, SourceInv, AheadInv, Ahead, IsCurrent
<1>16. QED
  BY <1>14, <1>15, <1>3, <1>4, <1>5, <1>6, <1>7, <1>8, <1>9, <1>10, <1>11, <1>12, <1>13
     DEF Next, Progress, Fault

\* On every dialect, when the workers of one deployment start over one directory
\* and nothing fails, no worker ends its call otherwise than by returning, except
\* one that sqlite's lock kept from creating the tracking table; and then there is
\* a worker past that point that returns or is still going on.
THEOREM WorkersStartClean == Spec => []WorkersComeUpClean
<1> DEFINE Inv == RecordedInv /\ (faults = 0 /\ OneDeployment => CleanInv)
<1>1. Init => Inv
  <2> SUFFICES ASSUME Init PROVE CleanInv
    BY RecordedInit
  <2>1. WorkerInv
    BY MigratorAssumption DEF Init, WorkerInv, Attempting, InTransaction
  <2>2. SourceInv /\ AheadInv
    BY DEF Init, SourceInv, AheadInv
  <2>3. QED
    BY <2>1, <2>2 DEF CleanInv
<1>2. Inv /\ [Next]_vars => Inv'
  BY RecordedStep, DeploymentBefore, CleanStep DEF RecordedInv
<1>3. Inv => WorkersComeUpClean
  BY DEF CleanInv, WorkerInv, AheadInv, Ahead, WorkersComeUpClean
<1>4. QED
  BY <1>1, <1>2, <1>3, PTL DEF Spec

-----------------------------------------------------------------------------
(***************************************************************************)
(* Until something fails, mysql is as strict as the others: the process    *)
(* whose script runs holds the lock, its id has no row, and each of its    *)
(* statements has taken effect once if a DDL has committed it; everything  *)
(* else is as its row says.                                                *)
(***************************************************************************)
Working(p, m) == pc[p] \in {"run", "commit"} /\ IsCurrent(p, m)

HolderInv ==
    \A p \in Proc :
        /\ pc[p] \in Attempting => lock = p
        /\ pc[p] \in {"run", "commit"} => pending[p] \subseteq 1..ran[p]
        /\ pc[p] = "commit" => ran[p] = NumStmts
        /\ \A m \in Id : Working(p, m) =>
              /\ tracked[m] = None
              /\ \A s \in Statements :
                    effects[m][dir[p][m]][s] = IF s <= ran[p] /\ s \notin pending[p] THEN 1 ELSE 0

RestInv ==
    \A m \in Id, c \in Content :
        (\A p \in Proc : Working(p, m) => dir[p][m] # c) =>
            \A s \in Statements : effects[m][c][s] = IF tracked[m] = c THEN 1 ELSE 0

FaultlessInv == HolderInv /\ RestInv

\* Until something fails, on every dialect, one script runs at a time, and
\* whenever none does every statement has taken effect once if its migration is
\* recorded with that content and never otherwise.
ExactUntilFault ==
    faults = 0 =>
        /\ ScriptsDoNotOverlap
        /\ (\A p \in Proc : pc[p] \notin {"run", "commit"}) => ExactlyOnce

\* A step that leaves the database alone and is not of a running script.
LEMMA HolderFrame ==
    ASSUME TypeOK, FaultlessInv, NEW p \in Proc, UNCHANGED <<tracked, effects>>,
           \A q \in Proc \ {p} : RanRest(q),
           lock' = lock \/ lock = None \/ lock = p,
           pc'[p] \in Attempting => lock' = p,
           pc[p] \notin {"run", "commit"}, pc'[p] \notin {"run", "commit"}
    PROVE  FaultlessInv'
<1>1. \A q \in Proc, m \in Id : Working(q, m)' <=> Working(q, m)
  BY DEF Working, RanRest, IsCurrent
<1>2. \A q \in Proc, m \in Id : Working(q, m) => q # p
  BY DEF Working
<1>3. ASSUME NEW q \in Proc \ {p}, pc'[q] \in Attempting
      PROVE  lock' = q
  <2>1. lock = q
    BY <1>3 DEF FaultlessInv, HolderInv, RanRest
  <2>2. QED
    BY <2>1, MigratorAssumption
<1>4. ASSUME NEW q \in Proc \ {p}
      PROVE  /\ pc'[q] \in {"run", "commit"} => pending'[q] \subseteq 1..ran'[q]
             /\ pc'[q] = "commit" => ran'[q] = NumStmts
  BY DEF FaultlessInv, HolderInv, RanRest
<1>5. ASSUME NEW q \in Proc, NEW m \in Id, Working(q, m)'
      PROVE  /\ tracked'[m] = None
             /\ \A s \in Statements :
                   effects'[m][dir'[q][m]][s]
                     = IF s <= ran'[q] /\ s \notin pending'[q] THEN 1 ELSE 0
  <2>1. Working(q, m) /\ RanRest(q)
    BY <1>1, <1>2, <1>5
  <2>2. QED
    BY <2>1 DEF FaultlessInv, HolderInv, RanRest
<1>6. HolderInv'
  BY <1>3, <1>4, <1>5 DEF HolderInv
<1>7. \A q \in Proc, m \in Id : Working(q, m) => dir'[q] = dir[q]
  BY <1>2 DEF RanRest
<1>8. RestInv'
  BY <1>1, <1>7 DEF FaultlessInv, RestInv
<1>9. QED
  BY <1>6, <1>8 DEF FaultlessInv

\* What Durable makes of each count.
LEMMA DurableValue ==
    ASSUME TypeOK, NEW p \in Proc, NEW m \in Id, dir[p][m] # None,
           NEW stmts \in SUBSET Statements, Durable(p, m, stmts)
    PROVE  /\ \A s \in Statements :
                 effects'[m][dir[p][m]][s] = IF s \in stmts THEN effects[m][dir[p][m]][s] + 1
                                             ELSE effects[m][dir[p][m]][s]
           /\ \A k \in Id, c \in Content :
                 ~(k = m /\ c = dir[p][m]) => effects'[k][c] = effects[k][c]
<1> DEFINE d == dir[p][m]
           row == [s \in Statements |-> IF s \in stmts THEN effects[m][d][s] + 1
                                        ELSE effects[m][d][s]]
<1>1. d \in Content
  BY DEF TypeOK
<1>2. effects' = [effects EXCEPT ![m][d] = row]
  BY DEF Durable
<1>3. \A s \in Statements : row[s] = IF s \in stmts THEN effects[m][d][s] + 1
                                    ELSE effects[m][d][s]
  OBVIOUS
<1> HIDE DEF row, d
<1>4. effects'[m][d] = row
  BY <1>1, <1>2 DEF TypeOK
<1>5. ASSUME NEW k \in Id, NEW c \in Content, ~(k = m /\ c = d)
      PROVE  effects'[k][c] = effects[k][c]
  BY <1>1, <1>2, <1>5 DEF TypeOK
<1>6. QED
  BY <1>3, <1>4, <1>5 DEF d

LEMMA FaultlessStep ==
    ASSUME RecordedInv, FaultlessInv, [Next]_vars, faults = 0, faults' = 0
    PROVE  FaultlessInv'
<1> USE MigratorAssumption
<1> TypeOK /\ TodoInv /\ HolderInv /\ RestInv
  BY DEF RecordedInv, FaultlessInv
<1>0. ASSUME NEW m \in Id, NEW c \in Content, \A q \in Proc : Working(q, m) => dir[q][m] # c
      PROVE  \A s \in Statements : effects[m][c][s] = IF tracked[m] = c THEN 1 ELSE 0
  BY <1>0 DEF RestInv
<1>1. ASSUME NEW p \in Proc,
             Call(p) \/ CreateTable(p) \/ LockedOut(p) \/ LoadApplied(p) \/ Begin(p) \/ BusyTimeout(p) \/ Wake(p) \/ AcquireLock(p)
      PROVE  FaultlessInv'
  <2>1. /\ UNCHANGED <<tracked, effects>>
        /\ pc[p] \notin {"run", "commit"} /\ pc'[p] \notin {"run", "commit"}
        /\ lock' = lock \/ lock = None
        /\ pc'[p] \in Attempting => lock' = p
        /\ \A q \in Proc \ {p} : RanRest(q)
    BY <1>1 DEF Call, CreateTable, LockedOut, LoadApplied, Begin, BusyTimeout, Wake, AcquireLock, LockIsFree, Raise,
                TypeOK, RanRest, Attempting, InTransaction, database, script
  <2>2. QED
    BY <2>1, HolderFrame
<1>2. ASSUME NEW p \in Proc, pc[p] \in InTransaction
      PROVE  lock = p /\ \A q \in Proc \ {p} : pc[q] \notin Attempting
  BY <1>2 DEF HolderInv, Attempting
<1>3. ASSUME NEW p \in Proc, Recheck(p) PROVE FaultlessInv'
  <2>1. PICK m \in Id :
          /\ IsCurrent(p, m)
          /\ \/ /\ tracked[m] = None
                /\ pc' = [pc EXCEPT ![p] = "run"]
                /\ UNCHANGED <<lock, todo, attempt, appliedNow, result>>
             \/ EndAttempt(p, m, VerifyLostRace(p, m))
    BY <1>3 DEF Recheck
  <2>2. /\ UNCHANGED <<tracked, effects, dir>> /\ pc[p] = "recheck"
        /\ ran'[p] = 0 /\ pending'[p] = {}
        /\ \A q \in Proc \ {p} : ran'[q] = ran[q] /\ pending'[q] = pending[q]
    BY <1>3 DEF Recheck, TypeOK, database
  <2>3. lock = p /\ \A q \in Proc \ {p} : pc[q] \notin Attempting
    BY <1>2, <2>2 DEF InTransaction
  <2>4. CASE /\ tracked[m] = None
             /\ pc' = [pc EXCEPT ![p] = "run"]
             /\ UNCHANGED <<lock, todo, attempt, appliedNow, result>>
    <3>1. pc'[p] = "run" /\ \A q \in Proc \ {p} : pc'[q] = pc[q]
      BY <2>4 DEF TypeOK
    <3>2. \A q \in Proc, k \in Id : ~Working(q, k)
      BY <2>2, <2>3 DEF Working, Attempting, InTransaction
    <3>3. \A q \in Proc, k \in Id : Working(q, k)' => q = p /\ k = m
      BY <2>1, <2>3, <2>4, <3>1, CurrentIsUnique
         DEF Working, IsCurrent, Attempting, InTransaction
    <3>4. \A k \in Id, c \in Content, s \in Statements :
             effects[k][c][s] = IF tracked[k] = c THEN 1 ELSE 0
      BY <3>2 DEF RestInv
    <3>5. RestInv'
      BY <2>2, <3>4 DEF RestInv
    <3>6. dir[p][m] \in Content
      BY <2>1 DEF TodoInv, IsCurrent, TypeOK
    <3>7. \A s \in Statements : effects[m][dir[p][m]][s] = 0 /\ ~(s <= 0)
      BY <2>4, <3>4, <3>6 DEF Statements
    <3>8. HolderInv'
      BY <2>2, <2>3, <2>4, <3>1, <3>3, <3>7 DEF HolderInv, Attempting, InTransaction
    <3>9. QED
      BY <3>5, <3>8 DEF FaultlessInv
  <2>5. CASE EndAttempt(p, m, VerifyLostRace(p, m))
    <3>1. /\ pc'[p] \notin {"run", "commit"}
          /\ \A q \in Proc \ {p} : RanRest(q)
      BY <2>2, <2>5, EndAttemptLeaves DEF RanRest
    <3>2. pc'[p] \in Attempting => lock' = p
      BY <2>3, <2>5, EndAttemptLeaves DEF EndAttempt, Settle, TypeOK, Attempting, InTransaction
    <3>3. QED
      BY <2>2, <2>3, <3>1, <3>2, HolderFrame
  <2>6. QED
    BY <2>1, <2>4, <2>5
<1>4. ASSUME NEW p \in Proc, RunStatement(p) PROVE FaultlessInv'
  <2> DEFINE t == ran[p] + 1
  <2>1. /\ pc[p] = "run" /\ UNCHANGED <<tracked, lock, pc, dir, todo>>
        /\ ran'[p] = t /\ t \in Statements /\ ran[p] \in Nat
        /\ \A q \in Proc \ {p} : RanRest(q)
    BY <1>4 DEF RunStatement, ScriptDone, TypeOK, Statements, RanRest
  <2>2. \A q \in Proc \ {p}, k \in Id : ~Working(q, k)
    BY <1>2, <2>1 DEF InTransaction, Working, Attempting
  <2>3. \A q \in Proc, k \in Id : Working(q, k)' <=> Working(q, k)
    BY <2>1 DEF Working, IsCurrent
  <2>4. pending[p] \subseteq 1..ran[p] /\ t \notin pending[p]
    BY <2>1 DEF HolderInv
  <2>5. ASSUME NEW s \in Statements
        PROVE  /\ s = t => s <= t
               /\ s # t => (s <= t <=> s <= ran[p])
               /\ s \in pending[p] => s <= ran[p] /\ s # t
    <3>1. s \in Nat
      BY DEF Statements
    <3>2. QED
      BY <2>1, <2>4, <3>1
  <2>6. CASE pending' = [pending EXCEPT ![p] = @ \cup {t}] /\ UNCHANGED effects
    <3>1. pending'[p] = pending[p] \cup {t}
      BY <2>6 DEF TypeOK
    <3>2. pending'[p] \subseteq 1..ran'[p]
      BY <2>1, <2>4, <3>1
    <3>3. ASSUME NEW m \in Id, Working(p, m), NEW s \in Statements
          PROVE  effects'[m][dir'[p][m]][s]
                   = IF s <= ran'[p] /\ s \notin pending'[p] THEN 1 ELSE 0
      <4>1. effects[m][dir[p][m]][s] = IF s <= ran[p] /\ s \notin pending[p] THEN 1 ELSE 0
        BY <3>3 DEF HolderInv
      <4>2. s <= t /\ s \notin pending[p] \cup {t} <=> s <= ran[p] /\ s \notin pending[p]
        BY <2>5, <2>1
      <4>3. QED
        BY <2>1, <2>6, <3>1, <4>1, <4>2
    <3>4. HolderInv'
      BY <2>1, <2>2, <2>3, <3>2, <3>3 DEF HolderInv, RanRest
    <3>5. RestInv'
      BY <2>1, <2>3, <2>6 DEF RestInv
    <3>6. QED
      BY <3>4, <3>5 DEF FaultlessInv
  <2>7. CASE \E m \in Id : /\ IsCurrent(p, m) /\ Durable(p, m, pending[p] \cup {t})
                           /\ pending' = [pending EXCEPT ![p] = {}]
    <3>1. PICK m \in Id : /\ IsCurrent(p, m) /\ Durable(p, m, pending[p] \cup {t})
                          /\ pending' = [pending EXCEPT ![p] = {}]
      BY <2>7
    <3>2. /\ pending'[p] = {} /\ Working(p, m)
          /\ pending[p] \cup {t} \in SUBSET Statements
          /\ dir[p][m] # None
      BY <2>1, <3>1 DEF TypeOK, TodoInv, IsCurrent, Working
    <3>3. /\ \A s \in Statements :
               effects'[m][dir[p][m]][s]
                 = IF s \in pending[p] \cup {t} THEN effects[m][dir[p][m]][s] + 1
                   ELSE effects[m][dir[p][m]][s]
          /\ \A k \in Id, c \in Content :
               ~(k = m /\ c = dir[p][m]) => effects'[k][c] = effects[k][c]
      <4> DEFINE run == pending[p] \cup {t}
      <4>1. TypeOK /\ dir[p][m] # None /\ run \in SUBSET Statements /\ Durable(p, m, run)
        BY <3>1, <3>2 DEF RecordedInv
      <4> HIDE DEF run
      <4>2. /\ \A s \in Statements :
                 effects'[m][dir[p][m]][s]
                   = IF s \in run THEN effects[m][dir[p][m]][s] + 1
                     ELSE effects[m][dir[p][m]][s]
            /\ \A k \in Id, c \in Content :
                 ~(k = m /\ c = dir[p][m]) => effects'[k][c] = effects[k][c]
        BY <4>1, DurableValue
      <4> QED
        BY <4>2 DEF run
    <3>4. ASSUME NEW s \in Statements
          PROVE  effects'[m][dir'[p][m]][s]
                   = IF s <= ran'[p] /\ s \notin pending'[p] THEN 1 ELSE 0
      <4>1. effects[m][dir[p][m]][s] = IF s <= ran[p] /\ s \notin pending[p] THEN 1 ELSE 0
        BY <3>2 DEF HolderInv
      <4>2. s <= t <=> s \in pending[p] \cup {t} \/ (s <= ran[p] /\ s \notin pending[p])
        BY <2>5
      <4>3. ~(s = t /\ s <= ran[p])
        BY <2>1
      <4>4. effects'[m][dir[p][m]][s] = IF s <= t THEN 1 ELSE 0
        BY <3>3, <4>1, <4>2, <4>3
      <4>5. QED
        BY <2>1, <3>2, <4>4
    <3>5. \A k \in Id : Working(p, k) => k = m
      BY <3>1, CurrentIsUnique DEF Working
    <3>6. HolderInv'
      <4> HIDE DEF t
      <4>1. QED
        BY <2>1, <2>2, <2>3, <3>2, <3>4, <3>5 DEF HolderInv, RanRest
    <3>7. ASSUME NEW k \in Id, NEW c \in Content,
                 \A q \in Proc : Working(q, k)' => dir'[q][k] # c
          PROVE  \A s \in Statements : effects'[k][c][s] = IF tracked'[k] = c THEN 1 ELSE 0
      <4>1. \A q \in Proc : Working(q, k) => dir[q][k] # c
        BY <2>1, <2>3, <3>7
      <4>2. ~(k = m /\ c = dir[p][m])
        BY <3>2, <4>1
      <4>3. \A s \in Statements : effects[k][c][s] = IF tracked[k] = c THEN 1 ELSE 0
        BY <1>0, <4>1
      <4>4. effects'[k][c] = effects[k][c]
        BY <3>3, <4>2
      <4>5. QED
        BY <2>1, <4>3, <4>4
    <3>8. QED
      BY <3>6, <3>7 DEF FaultlessInv, RestInv
  <2>8. QED
    BY <1>4, <2>6, <2>7 DEF RunStatement
<1>5. ASSUME NEW p \in Proc, InsertRow(p) PROVE FaultlessInv'
  <2>1. PICK m \in Id :
          /\ IsCurrent(p, m)
          /\ \/ /\ pc' = [pc EXCEPT ![p] = "commit"]
                /\ UNCHANGED <<lock, todo, pending, attempt, appliedNow, result>>
             \/ tracked[m] # None
    BY <1>5 DEF InsertRow
  <2>2. UNCHANGED <<tracked, effects, dir, ran>> /\ pc[p] = "run" /\ ran[p] = NumStmts
    BY <1>5 DEF InsertRow, ScriptDone, database
  <2>3. tracked[m] = None /\ lock = p
    BY <2>1, <2>2 DEF HolderInv, Working, Attempting, InTransaction
  <2>4. pc' = [pc EXCEPT ![p] = "commit"] /\ UNCHANGED <<lock, todo, pending>>
    BY <2>1, <2>3
  <2>5. pc'[p] = "commit" /\ \A q \in Proc \ {p} : pc'[q] = pc[q]
    BY <2>4 DEF TypeOK
  <2>6. \A q \in Proc, k \in Id : Working(q, k)' <=> Working(q, k)
    BY <2>2, <2>4, <2>5 DEF Working, IsCurrent
  <2>7. HolderInv'
    <3>1. ASSUME NEW q \in Proc
          PROVE  /\ pc'[q] \in Attempting => lock' = q
                 /\ pc'[q] \in {"run", "commit"} => pending'[q] \subseteq 1..ran'[q]
                 /\ pc'[q] = "commit" => ran'[q] = NumStmts
      <4>1. CASE q = p
        BY <2>2, <2>3, <2>4, <2>5, <4>1 DEF HolderInv
      <4>2. CASE q # p
        BY <2>2, <2>4, <2>5, <4>2 DEF HolderInv
      <4>3. QED
        BY <4>1, <4>2
    <3>2. ASSUME NEW q \in Proc, NEW k \in Id, Working(q, k)'
          PROVE  /\ tracked'[k] = None
                 /\ \A s \in Statements :
                       effects'[k][dir'[q][k]][s] = IF s <= ran'[q] /\ s \notin pending'[q] THEN 1 ELSE 0
      BY <2>2, <2>4, <2>6, <3>2 DEF HolderInv
    <3>3. QED
      BY <3>1, <3>2 DEF HolderInv
  <2>8. ASSUME NEW k \in Id, NEW c \in Content, \A q \in Proc : Working(q, k)' => dir'[q][k] # c
        PROVE  \A s \in Statements : effects'[k][c][s] = IF tracked'[k] = c THEN 1 ELSE 0
    <3>1. \A q \in Proc : Working(q, k) => dir[q][k] # c
      BY <2>2, <2>6, <2>8
    <3>2. QED
      BY <1>0, <2>2, <3>1
  <2>9. QED
    BY <2>7, <2>8 DEF FaultlessInv, RestInv
<1>6. ASSUME NEW p \in Proc, NEW outcome \in {"applied", "error"}, Commit(p, outcome)
      PROVE  FaultlessInv'
  <2>1. PICK m \in Id : /\ IsCurrent(p, m)
                        /\ Durable(p, m, pending[p])
                        /\ tracked' = [tracked EXCEPT ![m] = dir[p][m]]
                        /\ EndAttempt(p, m, outcome)
    BY <1>6 DEF Commit
  <2>2. pc[p] = "commit" /\ UNCHANGED <<dir, ran>>
    BY <1>6 DEF Commit
  <2>3. lock = p /\ \A q \in Proc \ {p} : pc[q] \notin Attempting
    BY <1>2, <2>2 DEF InTransaction
  <2>4. /\ dir[p][m] # None /\ dir[p][m] \in Content
        /\ pending[p] \in SUBSET Statements
        /\ tracked'[m] = dir[p][m] /\ \A k \in Id \ {m} : tracked'[k] = tracked[k]
    BY <2>1 DEF TodoInv, IsCurrent, TypeOK
  <2>5. /\ Working(p, m) /\ tracked[m] = None
        /\ \A q \in Proc, k \in Id : Working(q, k) => q = p /\ k = m
    <3>1. Working(p, m)
      BY <2>1, <2>2 DEF Working
    <3>2. tracked[m] = None
      BY <3>1 DEF HolderInv
    <3>3. ASSUME NEW q \in Proc, NEW k \in Id, Working(q, k)
          PROVE  q = p /\ k = m
      <4>1. q = p
        BY <2>3, <3>3 DEF Working, Attempting, InTransaction
      <4>2. QED
        BY <2>1, <3>3, <4>1, CurrentIsUnique DEF Working
    <3>4. QED
      BY <3>1, <3>2, <3>3
  <2>6. /\ pc'[p] \notin {"run", "commit"}
        /\ \A q \in Proc \ {p} : pc'[q] = pc[q] /\ todo'[q] = todo[q]
    BY <2>1, EndAttemptLeaves
  <2>7. \A q \in Proc : pc'[q] \notin {"run", "commit"}
    BY <2>3, <2>6 DEF Attempting, InTransaction
  <2>8. \A q \in Proc : pc'[q] \in Attempting => lock' = q
    BY <2>1, <2>3, <2>6 DEF EndAttempt, Settle, TypeOK, Attempting, InTransaction
  <2>9. HolderInv'
    BY <2>7, <2>8 DEF HolderInv, Working
  <2>10. /\ \A s \in Statements :
              effects'[m][dir[p][m]][s] = IF s \in pending[p] THEN effects[m][dir[p][m]][s] + 1
                                          ELSE effects[m][dir[p][m]][s]
         /\ \A k \in Id, c \in Content :
              ~(k = m /\ c = dir[p][m]) => effects'[k][c] = effects[k][c]
    BY <2>1, <2>4, DurableValue
  <2>11. ASSUME NEW k \in Id, NEW c \in Content, NEW s \in Statements
         PROVE  effects'[k][c][s] = IF tracked'[k] = c THEN 1 ELSE 0
    <3>1. CASE k = m /\ c = dir[p][m]
      <4>1. s <= ran[p]
        BY <2>2 DEF HolderInv, Statements
      <4>2. effects[m][dir[p][m]][s] = IF s \notin pending[p] THEN 1 ELSE 0
        BY <2>5, <4>1 DEF HolderInv
      <4>3. QED
        BY <2>4, <2>10, <3>1, <4>2
    <3>2. CASE k = m /\ c # dir[p][m]
      <4>1. \A q \in Proc : Working(q, m) => dir[q][m] # c
        BY <2>5, <3>2
      <4>2. effects[m][c][s] = IF tracked[m] = c THEN 1 ELSE 0
        BY <1>0, <4>1
      <4>3. tracked[m] # c
        BY <2>5
      <4>4. effects[m][c][s] = 0
        BY <4>2, <4>3
      <4>5. QED
        BY <2>4, <2>10, <3>2, <4>4
    <3>3. CASE k # m
      <4>1. effects[k][c][s] = IF tracked[k] = c THEN 1 ELSE 0
        BY <2>5, <3>3 DEF RestInv
      <4>2. QED
        BY <2>4, <2>10, <3>3, <4>1
    <3>4. QED
      BY <3>1, <3>2, <3>3
  <2>12. RestInv'
    BY <2>11 DEF RestInv
  <2>13. QED
    BY <2>9, <2>12 DEF FaultlessInv
<1>7. ASSUME NEW p \in Proc, Release(p) \/ Resolve(p)
      PROVE  FaultlessInv'
  <2>1. PICK m \in Id : \E outcome \in {attempt[p], "error", VerifyLostRace(p, m)} :
          Settle(p, m, outcome)
    BY <1>7 DEF Release, Resolve
  <2>2. /\ UNCHANGED <<tracked, effects, dir, ran, pending>>
        /\ lock' = lock \/ lock = p
        /\ pc[p] \notin {"run", "commit"}
    BY <1>7 DEF Release, Resolve, Unlocked, database, script
  <2>3. /\ pc'[p] \in {"begin", "idle", "resolve"}
        /\ \A q \in Proc \ {p} : RanRest(q)
    BY <2>1, <2>2 DEF Settle, TypeOK, RanRest
  <2>4. QED
    BY <2>2, <2>3, HolderFrame DEF Attempting, InTransaction
<1>8. ASSUME NEW p \in Proc,
             QueryFails(p) \/ GuardDrops(p) \/ Crash(p)
               \/ \E outcome \in {"conflict", "error"} : StatementFails(p, outcome)
      PROVE  FALSE
  BY <1>8 DEF QueryFails, GuardDrops, Crash, StatementFails
<1>9. CASE UNCHANGED vars
  BY <1>9 DEF vars, schema, database, FaultlessInv, HolderInv, RestInv, Working, IsCurrent
<1>10. QED
  BY <1>1, <1>3, <1>4, <1>5, <1>6, <1>7, <1>8, <1>9 DEF Next, Progress, Fault

LEMMA FaultsBefore ==
    ASSUME TypeOK, [Next]_vars, faults' = 0
    PROVE  faults = 0
<1>1. faults' = faults \/ faults' = faults + 1
  BY DEF Next, Progress, Fault, Call, CreateTable, LockedOut, LoadApplied, Begin, BusyTimeout, Wake, AcquireLock,
         Recheck, RunStatement, InsertRow, Commit, Release, Resolve, QueryFails,
         StatementFails, GuardDrops, Crash, vars, schema, database
<1>2. QED
  BY <1>1 DEF TypeOK

\* Mysql needs a fault to differ from the others: until then scripts exclude
\* each other and run exactly once on every dialect.
THEOREM ExactUntilFirstFault == Spec => []ExactUntilFault
<1> DEFINE Inv == RecordedInv /\ (faults = 0 => FaultlessInv)
<1>1. Init => Inv
  <2> SUFFICES ASSUME Init PROVE FaultlessInv
    BY RecordedInit
  <2>1. HolderInv
    BY MigratorAssumption DEF Init, HolderInv, Working, Attempting, InTransaction
  <2>2. RestInv
    BY MigratorAssumption DEF Init, RestInv, Working, InTransaction
  <2>3. QED
    BY <2>1, <2>2 DEF FaultlessInv
<1>2. Inv /\ [Next]_vars => Inv'
  BY RecordedStep, FaultsBefore, FaultlessStep DEF RecordedInv
<1>3. Inv => ExactUntilFault
  <2>1. FaultlessInv => ScriptsDoNotOverlap
    BY DEF FaultlessInv, HolderInv, Attempting, ScriptsDoNotOverlap
  <2>2. ASSUME FaultlessInv, \A p \in Proc : pc[p] \notin {"run", "commit"}
        PROVE  ExactlyOnce
    BY <2>2 DEF FaultlessInv, RestInv, Working, ExactlyOnce
  <2>3. QED
    BY <2>1, <2>2 DEF ExactUntilFault
<1>4. QED
  BY <1>1, <1>2, <1>3, PTL DEF Spec
==============================================================================
