-------------------------- MODULE RequestUnitOfWork --------------------------
(***************************************************************************)
(* pyxle_db/middleware.py: one HTTP request behind PyxleDbMiddleware.      *)
(* The handler (task Main) and the tasks it has spawned query              *)
(* request.state.db and request.state.session; the middleware watches the  *)
(* response and, once the application has returned or raised, commits or   *)
(* rolls back the unit of work and then the ORM session.                   *)
(*                                                                         *)
(* An await is a step boundary: between the test of _tx and the assignment *)
(* that opening a transaction ends with, other tasks of the request run.   *)
(***************************************************************************)
EXTENDS Naturals

CONSTANTS Task,          \* coroutines that query the request's handles
          Main,          \* the one that produces the response
          Tx,            \* transaction contexts the request may create
          NoTx,
          SingleWriter,  \* TRUE on sqlite: one write transaction at a time
          HasSession,    \* an ORM session factory is registered
          MaxWrites,     \* bound: writes of the handler
          MaxFaults      \* bound: failed statements and dead processes

ASSUME UnitOfWorkAssumption ==
    /\ Main \in Task /\ NoTx \notin Tx
    /\ {"none", "direct", "session"} \cap Tx = {}
    /\ SingleWriter \in BOOLEAN /\ HasSession \in BOOLEAN
    /\ MaxWrites \in Nat /\ MaxFaults \in Nat

VARIABLES phase,      \* where the middleware's __call__ is
          auto,       \* auto_commit: unsafe method, not disabled by the app
          manual,     \* the @no_auto_transaction flag on request.state
          task,       \* what each task awaits
          using,      \* the context a task is opening or about to query
          ctx, tx,    \* _tx_ctx and _tx of the unit of work
          txState,    \* each context's transaction, as the database sees it
          writes,     \* where each write went: a context, "direct", "session"
          session,    \* the AsyncSession's transaction
          status,     \* "unset" (counts as 500), "success" (2xx, 3xx), "failure"
          complete,   \* the final body frame was sent
          faults

vars == <<phase, auto, manual, task, using, ctx, tx, txState, writes, session, status,
          complete, faults>>
response == <<status, complete>>
uow == <<ctx, tx>>

Write == 1..MaxWrites
OpenTx == {x \in Tx : txState[x] = "open"}

Init ==
    /\ phase = "app"
    /\ auto \in BOOLEAN
    /\ manual = FALSE
    /\ task = [t \in Task |-> "idle"]
    /\ using = [t \in Task |-> NoTx]
    /\ ctx = NoTx /\ tx = NoTx
    /\ txState = [x \in Tx |-> "unused"]
    /\ writes = [w \in Write |-> "none"]
    /\ session = IF HasSession THEN "clean" ELSE "closed"
    /\ status = "unset" /\ complete = FALSE
    /\ faults = 0

Fault == faults < MaxFaults /\ faults' = faults + 1

\* The next write goes to place.
WriteTo(place) ==
    \E w \in Write : /\ writes[w] = "none" /\ \A v \in 1..(w - 1) : writes[v] # "none"
                     /\ writes' = [writes EXCEPT ![w] = place]

\* A handler runs while the application does; a spawned task may outlive it.
MayRun(t) == t # Main \/ phase = "app"

\* Mutant: nothing is tested.
Opened_Never == FALSE

\* The `opened' property, and _executor's test of _tx.
Opened == tx # NoTx

\* _executor: queries share the unit of work's transaction.
Managed == auto /\ ~manual
-----------------------------------------------------------------------------
\* no_auto_transaction's wrapper sets the flag when the action starts; a loader
\* or a guard may have queried before.
SetManual ==
    /\ phase = "app" /\ ~manual
    /\ manual' = TRUE
    /\ UNCHANGED <<phase, auto, task, using, uow, txState, writes, session, response, faults>>

\* _executor up to its await: with no transaction yet, a new context is stored
\* and entered.
StartOpening(t) ==
    /\ MayRun(t) /\ task[t] = "idle" /\ Managed /\ ~Opened
    /\ \E x \in Tx :
         /\ txState[x] = "unused"
         /\ ctx' = x
         /\ txState' = [txState EXCEPT ![x] = "opening"]
         /\ using' = [using EXCEPT ![t] = x]
    /\ task' = [task EXCEPT ![t] = "opening"]
    /\ UNCHANGED <<phase, auto, manual, tx, writes, session, response, faults>>

\* __aenter__ returns: the transaction is open and becomes _tx.
FinishOpening(t) ==
    /\ task[t] = "opening"
    /\ SingleWriter => OpenTx = {} /\ session # "dirty"
    /\ tx' = using[t]
    /\ txState' = [txState EXCEPT ![using[t]] = "open"]
    /\ task' = [task EXCEPT ![t] = "query"]
    /\ UNCHANGED <<phase, auto, manual, using, ctx, writes, session, response, faults>>

\* __aenter__ raises: a lock timeout while another writer is open, or a fault.
\* _tx_ctx keeps the context that never opened.
FailOpening(t) ==
    /\ task[t] = "opening"
    /\ \/ SingleWriter /\ (OpenTx # {} \/ session = "dirty") /\ UNCHANGED faults
       \/ Fault
    /\ txState' = [txState EXCEPT ![using[t]] = "failed"]
    /\ task' = [task EXCEPT ![t] = "idle"]
    /\ UNCHANGED <<phase, auto, manual, using, uow, writes, session, response>>

\* _executor returns the transaction that is already there.
ShareTransaction(t) ==
    /\ MayRun(t) /\ task[t] = "idle" /\ Managed /\ Opened
    /\ using' = [using EXCEPT ![t] = tx]
    /\ task' = [task EXCEPT ![t] = "query"]
    /\ UNCHANGED <<phase, auto, manual, uow, txState, writes, session, response, faults>>

\* The statement runs in the transaction the task was given.
Query(t) ==
    /\ task[t] = "query"
    /\ \/ txState[using[t]] = "open" /\ WriteTo(using[t])
       \/ UNCHANGED writes
    /\ task' = [task EXCEPT ![t] = "idle"]
    /\ UNCHANGED <<phase, auto, manual, using, uow, txState, session, response, faults>>

\* Read or manual mode: the statement commits by itself.
QueryDirect(t) ==
    /\ MayRun(t) /\ task[t] = "idle" /\ ~Managed
    /\ SingleWriter => OpenTx = {} /\ session # "dirty"
    /\ WriteTo("direct")
    /\ UNCHANGED <<phase, auto, manual, task, using, uow, txState, session, response, faults>>

\* The handler writes through request.state.session, which begins its own
\* transaction.
QuerySession ==
    /\ phase = "app" /\ task[Main] = "idle"
    /\ session \in {"clean", "dirty"}
    /\ SingleWriter => OpenTx = {}
    /\ WriteTo("session")
    /\ session' = "dirty"
    /\ UNCHANGED <<phase, auto, manual, task, using, uow, txState, response, faults>>

\* send_wrapper sees http.response.start, then the final body frame.
SendStart ==
    /\ phase = "app" /\ status = "unset" /\ task[Main] = "idle"
    /\ status' \in {"success", "failure"}
    /\ UNCHANGED <<phase, auto, manual, task, using, uow, txState, writes, session, complete, faults>>

SendFinal ==
    /\ phase = "app" /\ status # "unset" /\ ~complete /\ task[Main] = "idle"
    /\ complete' = TRUE
    /\ UNCHANGED <<phase, auto, manual, task, using, uow, txState, writes, session, status, faults>>

\* The application returns, possibly with the response cut short, or raises.
AppReturns ==
    /\ phase = "app" /\ task[Main] = "idle"
    /\ phase' \in {"finish", "escape"}
    /\ UNCHANGED <<auto, manual, task, using, uow, txState, writes, session, response, faults>>

-----------------------------------------------------------------------------
\* Mutant: a stream cut short counts as a success.
Ok_Truncated == status = "success"

Ok == status = "success" /\ complete

\* __aexit__ of the stored context, whose transaction may not be the one that
\* _tx named, or may never have opened: then nothing happens.
Close(outcome) ==
    /\ txState' = IF ctx # NoTx /\ txState[ctx] = "open"
                  THEN [txState EXCEPT ![ctx] = outcome] ELSE txState
    /\ ctx' = NoTx /\ tx' = NoTx

\* Mutant: the unit of work is left alone when the response failed.
FinishUow_NoRollback ==
    /\ phase = "finish"
    /\ \/ Opened /\ Ok /\ Close("committed")
       \/ ~(Opened /\ Ok) /\ UNCHANGED <<uow, txState>>
    /\ UNCHANGED faults
    /\ phase' = "session"
    /\ UNCHANGED <<auto, manual, task, using, writes, session, response>>

\* After the response: commit or roll back the unit of work if it opened.  A
\* commit that fails (and rolls back) is only logged.
FinishUow ==
    /\ phase = "finish"
    /\ \/ ~Opened /\ UNCHANGED <<uow, txState, faults>>
       \/ Opened /\ Close(IF Ok THEN "committed" ELSE "rolledback") /\ UNCHANGED faults
       \/ Opened /\ Close("rolledback") /\ Fault
    /\ phase' = "session"
    /\ UNCHANGED <<auto, manual, task, using, writes, session, response>>

\* _finalize_session; a commit that fails has rolled back and raises.
FinishSession ==
    /\ phase = "session"
    /\ \/ /\ session = "dirty" /\ Managed /\ Ok
          /\ session' = "committed" /\ UNCHANGED faults
       \/ /\ session = "dirty" /\ Managed /\ Ok
          /\ session' = "closed" /\ Fault
       \/ /\ ~(session = "dirty" /\ Managed /\ Ok)
          /\ session' = "closed" /\ UNCHANGED faults
    /\ phase' = "done"
    /\ UNCHANGED <<auto, manual, task, using, uow, txState, writes, response>>

\* An exception reached the middleware: roll back, discard the session, raise.
\* A rollback that raises (the connection is broken, or the context was never
\* entered) skips the session.
Escape ==
    /\ phase = "escape"
    /\ \/ Close("rolledback") /\ session' = "closed" /\ UNCHANGED faults
       \/ ctx # NoTx /\ Close("rolledback") /\ UNCHANGED session /\ Fault
    /\ phase' = "raised"
    /\ UNCHANGED <<auto, manual, task, using, writes, response>>

\* The server process dies; the database rolls back what is open.
Crash ==
    /\ phase \notin {"done", "raised", "crashed"} /\ Fault
    /\ phase' = "crashed"
    /\ txState' = [x \in Tx |-> IF txState[x] = "open" THEN "rolledback" ELSE txState[x]]
    /\ session' = IF session = "committed" THEN session ELSE "closed"
    /\ task' = [t \in Task |-> "dead"]
    /\ UNCHANGED <<auto, manual, using, uow, writes, response>>

-----------------------------------------------------------------------------
Step(t) ==
    \/ StartOpening(t) \/ FinishOpening(t) \/ FailOpening(t) \/ ShareTransaction(t)
    \/ Query(t) \/ QueryDirect(t)

Finish == FinishUow \/ FinishSession \/ Escape

Next ==
    \/ \E t \in Task : Step(t)
    \/ SetManual \/ QuerySession \/ SendStart \/ SendFinal \/ AppReturns
    \/ Finish \/ Crash

Spec == Init /\ [][Next]_vars

\* The event loop resumes every await, and the application does return.
FairSpec ==
    /\ Spec
    /\ WF_vars(Finish) /\ SF_vars(AppReturns)
    /\ \A t \in Task : WF_vars(FinishOpening(t) \/ FailOpening(t)) /\ WF_vars(Query(t))

-----------------------------------------------------------------------------
Durable(w) ==
    \/ writes[w] \in Tx /\ txState[writes[w]] = "committed"
    \/ writes[w] = "session" /\ session = "committed"

\* Variables have their types.
TypeOK ==
    /\ phase \in {"app", "finish", "session", "escape", "done", "raised", "crashed"}
    /\ auto \in BOOLEAN /\ manual \in BOOLEAN /\ complete \in BOOLEAN
    /\ task \in [Task -> {"idle", "opening", "query", "dead"}]
    /\ using \in [Task -> Tx \cup {NoTx}]
    /\ \A t \in Task : task[t] \in {"opening", "query"} => using[t] \in Tx
    /\ ctx \in Tx \cup {NoTx} /\ tx \in Tx \cup {NoTx}
    /\ txState \in [Tx -> {"unused", "opening", "open", "failed", "committed", "rolledback"}]
    /\ writes \in [Write -> Tx \cup {"none", "direct", "session"}]
    /\ session \in {"clean", "dirty", "committed", "closed"}
    /\ status \in {"unset", "success", "failure"}
    /\ faults \in 0..MaxFaults

\* A failed, truncated or raised response leaves nothing behind: no write of
\* the unit of work or of the session is ever durable without a complete 2xx/3xx
\* response (middleware.py, "commit only on a 2xx/3xx response").
FailureLeavesNothing == \A w \in Write : Durable(w) => status = "success" /\ complete

\* Only the handler has used the unit of work: no other task of the request
\* was ever given a transaction, or opened one.
OnlyHandler == \A t \in Task \ {Main} : using[t] = NoTx

\* When the application returns after a complete 2xx/3xx response, everything
\* the handler wrote in the unit of work is kept, unless something failed.
SuccessKeepsWrites ==
    phase = "done" /\ status = "success" /\ complete /\ faults = 0 /\ OnlyHandler =>
        \A w \in Write : writes[w] \in Tx => Durable(w)

\* When the middleware has finished, no transaction of the request is open:
\* "the middleware commits or rolls it back exactly once" (_RequestUnitOfWork).
NothingLeftOpen == phase \in {"done", "raised"} => OpenTx = {}

\* The same, of requests whose handler awaits its queries one after the other.
HandlerLeavesNothingOpen == OnlyHandler => NothingLeftOpen

\* The writes of one request become durable together or not at all: "runs the
\* request's writes inside one transaction" (middleware.py:9-11).
OneTransaction ==
    phase \in {"done", "raised", "crashed"} =>
        \A v, w \in Write : /\ writes[v] \in Tx \cup {"session"}
                            /\ writes[w] \in Tx \cup {"session"}
                            => (Durable(v) <=> Durable(w))

\* Whatever reached the middleware, the session's connection is given back:
\* "Discard any open work before re-raising" (middleware.py:240-241).
SessionGivenBack ==
    phase \in {"done", "raised"} => session \in {"committed", "closed"}

\* A transaction the handler opened does not stay open: it holds a connection
\* and, on sqlite, the write lock of the whole database.
TransactionsEnd ==
    \A x \in Tx : txState[x] = "open" /\ OnlyHandler ~> txState[x] # "open" \/ ~OnlyHandler
=============================================================================
