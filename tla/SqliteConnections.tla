--------------------------- MODULE SqliteConnections ---------------------------
(***************************************************************************)
(* pyxle_db/backends/sqlite.py on a file database: coroutines submit jobs  *)
(* to a bounded pool of threads (asyncio.to_thread).  A one-shot statement *)
(* runs on its thread's cached connection, a transaction on a dedicated    *)
(* one that its jobs share from thread to thread.  close_sync may run at   *)
(* any time; a coroutine may be cancelled while it awaits a job, and a job *)
(* that a thread has already picked up then runs on for nobody.            *)
(***************************************************************************)
EXTENDS Naturals

CONSTANTS Task,       \* coroutines that use the backend
          Thread,     \* threads of the pool
          Conn,       \* connection handles
          None,
          MaxCalls,   \* bound: operations the tasks start
          MaxCloses,  \* bound: calls of close_sync
          MaxEvents   \* bound: cancellations, failures and thread exits

ASSUME SqliteAssumption ==
    /\ Conn \subseteq Nat
    /\ None \notin Task \cup Conn
    /\ MaxCalls \in Nat /\ MaxCloses \in Nat /\ MaxEvents \in Nat

VARIABLES open,         \* handles that are not closed
          writer,       \* the handle whose transaction holds the write lock
          connections,  \* _connections: every connection opened and not discarded
          generation,   \* _generation
          closing,      \* what close_sync took and still has to close
          cached,       \* each thread's _local.entry: the connection
          cachedGen,    \* ... and the generation stored with it
          pc, job,      \* where each thread is, and in which job
          held,         \* the connection the thread works on
          serves,       \* the task that awaits the thread's job
          call,         \* what each task awaits, or "idle", or "inside" a transaction
          scope,        \* the _conn of the task's transaction context
          calls, closes, events

file == <<open, writer>>
lists == <<connections, generation, closing>>
locals == <<cached, cachedGen>>
threads == <<pc, job, held, serves>>
tasks == <<call, scope>>
bounds == <<calls, closes, events>>
vars == <<file, lists, locals, threads, tasks, bounds>>

\* Mutant: transactions use the cached connection too.
Leased_All == {"query", "batch", "sync", "enter"}

\* Jobs on the thread's cached connection: execute and the fetches,
\* executemany, sync_transaction.
Leased == {"query", "batch", "sync"}
OnScope == {"stmt", "commit", "rollback"}
Waiting == {"query", "batch", "sync", "enter"} \cup OnScope

Init ==
    /\ open = {} /\ writer = None
    /\ connections = {} /\ generation = 0 /\ closing = {}
    /\ cached = [t \in Thread |-> None] /\ cachedGen = [t \in Thread |-> 0]
    /\ pc = [t \in Thread |-> "idle"] /\ job = [t \in Thread |-> "none"]
    /\ held = [t \in Thread |-> None] /\ serves = [t \in Thread |-> None]
    /\ call = [k \in Task |-> "idle"] /\ scope = [k \in Task |-> None]
    /\ calls = 0 /\ closes = 0 /\ events = 0

Event == events < MaxEvents /\ events' = events + 1

\* Handles nobody can reach stand for connection objects not yet created.
Fresh ==
    {c \in Conn : /\ c \notin open \cup connections \cup closing
                  /\ \A t \in Thread : c # cached[t] /\ c # held[t]
                  /\ \A k \in Task : c # scope[k]}

Goto(t, where) == pc' = [pc EXCEPT ![t] = where]

Unlocked(c) == IF writer = c THEN None ELSE writer

\* The job ends, and its task resumes if it still waits.  `opened': the job
\* was the BEGIN of a transaction and succeeded.
Return(t, opened) ==
    /\ Goto(t, "idle")
    /\ job' = [job EXCEPT ![t] = "none"]
    /\ held' = [held EXCEPT ![t] = None]
    /\ serves' = [serves EXCEPT ![t] = None]
    /\ call' = [k \in Task |-> IF k # serves[t] THEN call[k]
                               ELSE IF opened \/ job[t] = "stmt" THEN "inside" ELSE "idle"]
    /\ scope' = [k \in Task |-> IF k = serves[t] /\ opened THEN held[t] ELSE scope[k]]

-----------------------------------------------------------------------------
\* The tasks.  A task starts an operation ...
Call(k, op) ==
    /\ call[k] = "idle" /\ calls < MaxCalls /\ calls' = calls + 1
    /\ call' = [call EXCEPT ![k] = op]
    /\ UNCHANGED <<file, lists, locals, threads, scope, closes, events>>

\* ... or goes on with its transaction: a statement, or the end of the scope.
Continue(k, op) ==
    /\ call[k] = "inside"
    /\ call' = [call EXCEPT ![k] = op]
    /\ UNCHANGED <<file, lists, locals, threads, scope, bounds>>

\* CancelledError while the task awaits its job.  A queued job is dropped, a
\* running one goes on; inside the scope __aexit__ then rolls back.
Cancel(k) ==
    /\ call[k] \in Waiting \ {"sync"} /\ Event
    /\ serves' = [t \in Thread |-> IF serves[t] = k THEN None ELSE serves[t]]
    /\ call' = [call EXCEPT ![k] = IF call[k] = "stmt" THEN "rollback" ELSE "idle"]
    /\ scope' = [scope EXCEPT ![k] = IF call[k] = "stmt" THEN @ ELSE None]
    /\ UNCHANGED <<file, lists, locals, pc, job, held, calls, closes>>

-----------------------------------------------------------------------------
\* The threads.  An idle one takes a queued job; _finish takes the context's
\* connection with it.
PickUp(t, k) ==
    /\ pc[t] = "idle" /\ call[k] \in Waiting
    /\ \A u \in Thread : serves[u] # k
    /\ serves' = [serves EXCEPT ![t] = k]
    /\ job' = [job EXCEPT ![t] = call[k]]
    /\ Goto(t, IF call[k] \in Leased THEN "lease"
               ELSE IF call[k] = "enter" THEN "open"
               ELSE IF call[k] = "stmt" THEN "work" ELSE "finish")
    /\ held' = [held EXCEPT ![t] = IF call[k] \in OnScope THEN scope[k] ELSE None]
    /\ scope' = [scope EXCEPT ![k] = IF call[k] \in {"commit", "rollback"} THEN None ELSE @]
    /\ UNCHANGED <<file, lists, locals, call, bounds>>

AfterLease(t) == IF job[t] = "query" THEN "work" ELSE "begin"


Current(t) == cached[t] # None /\ cachedGen[t] = generation

\* _thread_connection: the cached connection, unless close_sync ran since.
Lease(t) ==
    /\ pc[t] = "lease"
    /\ \/ /\ Current(t)
          /\ held' = [held EXCEPT ![t] = cached[t]]
          /\ Goto(t, AfterLease(t))
       \/ ~Current(t) /\ Goto(t, "open") /\ UNCHANGED held
    /\ UNCHANGED <<file, lists, locals, job, serves, tasks, bounds>>

\* _open_connection: sqlite3.connect and the PRAGMAs, which may fail: then nothing
\* refers to the handle, and the interpreter closes it with the frame ...
Open(t) ==
    /\ pc[t] = "open"
    /\ \/ /\ \E c \in Fresh : /\ \A d \in Fresh : c <= d
                              /\ open' = open \cup {c}
                              /\ held' = [held EXCEPT ![t] = c]
          /\ Goto(t, "track")
          /\ UNCHANGED <<job, serves, tasks, events>>
       \/ Event /\ Return(t, FALSE) /\ UNCHANGED open
    /\ UNCHANGED <<writer, lists, locals, calls, closes>>

\* Mutant: only connections that will be cached are recorded.
Recorded_Cached(t) == IF job[t] \in Leased THEN {held[t]} ELSE {}

Recorded(t) == {held[t]}

\* ... then the append under the tracking lock.
Track(t) ==
    /\ pc[t] = "track"
    /\ connections' = connections \cup Recorded(t)
    /\ Goto(t, IF job[t] \in Leased THEN "cache" ELSE "begin")
    /\ UNCHANGED <<file, generation, closing, locals, job, held, serves, tasks, bounds>>

\* _thread_connection stores the entry, with the generation of this moment.
Cache(t) ==
    /\ pc[t] = "cache"
    /\ cached' = [cached EXCEPT ![t] = held[t]]
    /\ cachedGen' = [cachedGen EXCEPT ![t] = generation]
    /\ Goto(t, AfterLease(t))
    /\ UNCHANGED <<file, lists, job, held, serves, tasks, bounds>>

\* BEGIN IMMEDIATE raised: the dedicated connection of a transaction is
\* discarded, the others stay cached.
BeginRaises(t) ==
    \/ job[t] = "enter" /\ Goto(t, "discard") /\ UNCHANGED <<job, held, serves, tasks>>
    \/ job[t] # "enter" /\ Return(t, FALSE)

Begin(t) ==
    /\ pc[t] = "begin"
    /\ \/ /\ held[t] \in open /\ writer = None
          /\ writer' = held[t]
          /\ \/ job[t] = "enter" /\ Return(t, TRUE)
             \/ job[t] # "enter" /\ Goto(t, "work") /\ UNCHANGED <<job, held, serves, tasks>>
       \/ \* closed under it, or a transaction within a transaction
          (held[t] \notin open \/ writer = held[t]) /\ BeginRaises(t) /\ UNCHANGED writer
    /\ UNCHANGED <<open, lists, locals, bounds>>

\* Mutant: BEGIN waits for the lock for ever.
BusyTimeout_Never(t) == FALSE /\ UNCHANGED vars

\* busy_timeout expires while another connection holds the write lock.
BusyTimeout(t) ==
    /\ pc[t] = "begin" /\ held[t] \in open /\ writer \notin {None, held[t]}
    /\ BeginRaises(t)
    /\ UNCHANGED <<file, lists, locals, bounds>>

\* One statement, which may fail; or the body of executemany and of a
\* sync_transaction, which rolls back if it fails.
Work(t) ==
    /\ pc[t] = "work"
    /\ \/ job[t] \in {"query", "stmt"} /\ Return(t, FALSE) /\ UNCHANGED writer
       \/ /\ job[t] \in {"batch", "sync"}
          /\ \/ Goto(t, "commit") /\ UNCHANGED <<writer, job, held, serves, tasks>>
             \/ writer' = Unlocked(held[t]) /\ Return(t, FALSE)
    /\ UNCHANGED <<open, lists, locals, bounds>>

\* COMMIT of executemany and of sync_transaction.  If it fails (a deferred
\* constraint), only sync_transaction rolls back.
Commit(t) ==
    /\ pc[t] = "commit"
    /\ \/ writer' = Unlocked(held[t]) /\ UNCHANGED events
       \/ writer' = (IF job[t] = "sync" THEN Unlocked(held[t]) ELSE writer) /\ Event
    /\ Return(t, FALSE)
    /\ UNCHANGED <<open, lists, locals, calls, closes>>

\* _finish: COMMIT, with ROLLBACK if that fails, or ROLLBACK.
Finish(t) ==
    /\ pc[t] = "finish"
    /\ writer' = Unlocked(held[t])
    /\ Goto(t, "discard")
    /\ UNCHANGED <<open, lists, locals, job, held, serves, tasks, bounds>>

\* _discard_connection.
Discard(t) ==
    /\ pc[t] = "discard"
    /\ connections' = connections \ {held[t]}
    /\ open' = open \ {held[t]}
    /\ writer' = Unlocked(held[t])
    /\ Return(t, FALSE)
    /\ UNCHANGED <<generation, closing, locals, bounds>>

\* A thread ends: its thread-local entry is gone, its connection is not.
ThreadExit(t) ==
    /\ pc[t] = "idle" /\ cached[t] # None /\ Event
    /\ cached' = [cached EXCEPT ![t] = None]
    /\ UNCHANGED <<file, lists, cachedGen, threads, tasks, calls, closes>>

-----------------------------------------------------------------------------
\* close_sync: swap the list and bump the generation under the tracking lock,
\* then close what the list held, one by one.
CloseSwap ==
    /\ closes < MaxCloses /\ closes' = closes + 1
    /\ closing' = closing \cup connections
    /\ connections' = {}
    /\ generation' = generation + 1
    /\ UNCHANGED <<file, locals, threads, tasks, calls, events>>

CloseOne(c) ==
    /\ c \in closing
    /\ closing' = closing \ {c}
    /\ open' = open \ {c}
    /\ writer' = Unlocked(c)
    /\ UNCHANGED <<connections, generation, locals, threads, tasks, bounds>>

-----------------------------------------------------------------------------
Progress(t) ==
    \/ Lease(t) \/ Open(t) \/ Track(t) \/ Cache(t) \/ Begin(t) \/ BusyTimeout(t)
    \/ Work(t) \/ Commit(t) \/ Finish(t) \/ Discard(t)

Leave(k) == Continue(k, "commit") \/ Continue(k, "rollback")

Next ==
    \/ \E k \in Task :
         \/ \E op \in Leased \cup {"enter"} : Call(k, op)
         \/ Continue(k, "stmt") \/ Leave(k) \/ Cancel(k)
         \/ \E t \in Thread : PickUp(t, k)
    \/ \E t \in Thread : Progress(t) \/ ThreadExit(t)
    \/ CloseSwap
    \/ \E c \in Conn : CloseOne(c)

Spec == Init /\ [][Next]_vars

\* Threads run, the queue is first in first out, and the body of a transaction
\* ends.
FairSpec ==
    /\ Spec
    /\ \A t \in Thread : WF_vars(Progress(t))
    /\ \A k \in Task : SF_vars(\E t \in Thread : PickUp(t, k)) /\ SF_vars(Leave(k))

-----------------------------------------------------------------------------
\* Variables have their types; a thread past its open works on a handle.
TypeOK ==
    /\ open \subseteq Conn /\ connections \subseteq Conn /\ closing \subseteq Conn
    /\ writer \in open \cup {None}
    /\ generation \in 0..MaxCloses
    /\ cached \in [Thread -> Conn \cup {None}] /\ cachedGen \in [Thread -> 0..MaxCloses]
    /\ pc \in [Thread -> {"idle", "lease", "open", "track", "cache", "begin", "work",
                          "commit", "finish", "discard"}]
    /\ job \in [Thread -> Waiting \cup {"none"}]
    /\ held \in [Thread -> Conn \cup {None}]
    /\ \A t \in Thread : held[t] = None <=> pc[t] \in {"idle", "lease", "open"}
    /\ serves \in [Thread -> Task \cup {None}]
    /\ call \in [Task -> Waiting \cup {"idle", "inside"}]
    /\ scope \in [Task -> Conn \cup {None}]
    /\ calls \in 0..MaxCalls /\ closes \in 0..MaxCloses
    /\ events \in 0..MaxEvents

\* Every open connection is in the list, about to enter it, being closed or
\* being discarded, so that close_sync misses none whatever races with it:
\* "every connection is also recorded in a backend-level list" (sqlite.py:13-15).
NoConnectionLost ==
    \A c \in open : \/ c \in connections \cup closing
                    \/ \E t \in Thread : held[t] = c /\ pc[t] = "track"

\* The connections of transactions: c belongs to the scope of a task, or to a
\* job of a transaction.
Dedicated ==
    {scope[k] : k \in Task} \cup {held[t] : t \in {u \in Thread : job[u] \in OnScope \cup {"enter"}}}

\* A transaction is exclusive to its caller: no thread has its connection
\* cached or runs a one-shot statement on it, and no two scopes share one
\* (backends/base.py:32-33, contract rule 6).
TransactionsAreExclusive ==
    /\ \A c \in Dedicated \ {None} :
         /\ \A t \in Thread : cached[t] # c /\ (held[t] = c => job[t] \notin Leased)
         /\ \A j, k \in Task : scope[j] = c /\ scope[k] = c => j = k
    /\ \A t, u \in Thread : held[t] = held[u] /\ held[t] # None /\ t # u
                            => job[t] \notin Leased

\* Every operation ends, even when all threads wait for the write lock and the
\* job that would free it is queued behind them.
EveryCallEnds == \A k \in Task : call[k] \in Waiting ~> call[k] \notin Waiting

\* The write lock of the database is free again and again: it neither stays with
\* one connection nor goes round among them for ever.
WriteLockIsFreed == []<>(writer = None)

\* The write lock belongs to a scope that is still open or to a running job:
\* "Commits on success, rolls back on exception" (_SqliteTransactionContext).
WriteLockIsOwned ==
    writer # None =>
        \/ \E k \in Task : call[k] \in OnScope \cup {"inside"} /\ scope[k] = writer
        \/ \E t \in Thread : held[t] = writer

\* A statement of a transaction never runs outside it: where one is about to
\* run, its connection is inside the transaction, or closed.
StatementsStayInside ==
    \A t \in Thread : pc[t] = "work" /\ job[t] = "stmt" /\ held[t] \in open => writer = held[t]

\* A one-shot statement never runs inside somebody's transaction: "puts the
\* connection in autocommit, so a single statement is atomic by itself"
\* (sqlite.py:552-554).
OneShotsAutocommit ==
    \A t \in Thread : pc[t] = "work" /\ job[t] = "query" => writer # held[t]

\* With no close under way, a thread's current entry is not a closed handle:
\* "transparently reopen instead of using a closed handle" (sqlite.py:446-447).
CachedMeansOpen ==
    closing = {} =>
        \A t \in Thread : cached[t] # None /\ cachedGen[t] = generation => cached[t] \in open
=============================================================================
