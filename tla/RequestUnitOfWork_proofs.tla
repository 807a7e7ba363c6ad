---------------------- MODULE RequestUnitOfWork_proofs ----------------------
(***************************************************************************)
(* Theorems about RequestUnitOfWork, for every number of tasks,            *)
(* transaction contexts, writes and faults.                                *)
(***************************************************************************)
EXTENDS RequestUnitOfWork, TLAPS

LEMMA TypeInit == Init => TypeOK
<1> SUFFICES ASSUME Init PROVE TypeOK
  OBVIOUS
<1>1. session \in {"clean", "dirty", "committed", "closed"}
  BY DEF Init
<1>2. auto \in BOOLEAN /\ manual \in BOOLEAN /\ complete \in BOOLEAN
  BY ZenonT(20) DEF Init
<1>3. faults \in 0..MaxFaults
  BY UnitOfWorkAssumption DEF Init
<1>4. /\ task \in [Task -> {"idle", "opening", "query", "dead"}]
      /\ using \in [Task -> Tx \cup {NoTx}]
      /\ txState \in [Tx -> {"unused", "opening", "open", "failed", "committed", "rolledback"}]
      /\ writes \in [Write -> Tx \cup {"none", "direct", "session"}]
  BY DEF Init
<1>5. QED
  BY <1>1, <1>2, <1>3, <1>4 DEF Init, TypeOK

LEMMA TypeStep == TypeOK /\ [Next]_vars => TypeOK'
<1> USE UnitOfWorkAssumption
<1> SUFFICES ASSUME TypeOK, [Next]_vars PROVE TypeOK'
  OBVIOUS
<1>1. ASSUME NEW t \in Task, StartOpening(t) \/ FailOpening(t) \/ ShareTransaction(t)
      PROVE  TypeOK'
  <2>1. CASE StartOpening(t)
    BY <2>1 DEF StartOpening, TypeOK, response
  <2>2. CASE FailOpening(t)
    <3>1. faults' \in 0..MaxFaults
      BY <2>2 DEF FailOpening, Fault, TypeOK
    <3>2. /\ txState' = [txState EXCEPT ![using[t]] = "failed"]
          /\ task' = [task EXCEPT ![t] = "idle"]
          /\ UNCHANGED <<phase, auto, manual, using, ctx, tx, writes, session, status, complete>>
      BY <2>2 DEF FailOpening, uow, response
    <3>3. QED
      BY <3>1, <3>2, ZenonT(40) DEF TypeOK
  <2>3. CASE ShareTransaction(t)
    BY <2>3 DEF ShareTransaction, Opened, TypeOK, uow, response
  <2>4. QED
    BY <1>1, <2>1, <2>2, <2>3
<1>2. ASSUME NEW t \in Task, FinishOpening(t) PROVE TypeOK'
  BY <1>2 DEF FinishOpening, TypeOK, response
<1>3. ASSUME NEW t \in Task, Query(t) PROVE TypeOK'
  <2>1. writes' \in [Write -> Tx \cup {"none", "direct", "session"}]
    <3>1. CASE UNCHANGED writes
      BY <3>1 DEF TypeOK
    <3>2. CASE txState[using[t]] = "open" /\ WriteTo(using[t])
      <4>1. using[t] \in Tx
        BY <1>3 DEF Query, TypeOK
      <4>2. QED
        BY <3>2, <4>1 DEF WriteTo, TypeOK
    <3>3. QED
      BY <1>3, <3>1, <3>2 DEF Query
  <2>2. /\ task' = [task EXCEPT ![t] = "idle"]
        /\ UNCHANGED <<phase, auto, manual, using, ctx, tx, txState, session, status,
                      complete, faults>>
    BY <1>3 DEF Query, uow, response
  <2>3. QED
    BY <2>1, <2>2 DEF TypeOK
<1>4. ASSUME NEW t \in Task, QueryDirect(t) PROVE TypeOK'
  BY <1>4 DEF QueryDirect, WriteTo, TypeOK, uow, response
<1>5. ASSUME QuerySession PROVE TypeOK'
  BY <1>5, SMTT(30) DEF QuerySession, WriteTo, TypeOK, uow, response
<1>6. ASSUME SetManual \/ SendStart \/ SendFinal \/ AppReturns PROVE TypeOK'
  BY <1>6, ZenonT(40) DEF SetManual, SendStart, SendFinal, AppReturns, TypeOK, uow, response
<1>7. ASSUME FinishUow \/ FinishSession \/ Escape PROVE TypeOK'
  BY <1>7, SMTT(30) DEF FinishUow, FinishSession, Escape, Close, Fault, TypeOK, uow, response
<1>8. ASSUME Crash PROVE TypeOK'
  BY <1>8, SMTT(30) DEF Crash, Fault, TypeOK, uow, response
<1>9. CASE UNCHANGED vars
  BY <1>9 DEF vars, TypeOK
<1>10. QED
  BY <1>1, <1>2, <1>3, <1>4, <1>5, <1>6, <1>7, <1>8, <1>9 DEF Next, Step, Finish

\* The variables always have their types.
THEOREM TypeCorrect == Spec => []TypeOK
BY TypeInit, TypeStep, PTL DEF Spec

-----------------------------------------------------------------------------
(***************************************************************************)
(* Nothing is committed while the application runs, and afterwards only    *)
(* with the response already judged; the judgement cannot change any more. *)
(***************************************************************************)
CommitInv ==
    session = "committed" \/ (\E x \in Tx : txState[x] = "committed") => Ok /\ phase # "app"

LEMMA CommitStep == TypeOK /\ CommitInv /\ [Next]_vars => CommitInv'
<1> USE UnitOfWorkAssumption DEF CommitInv, Ok
<1> SUFFICES ASSUME TypeOK, CommitInv, [Next]_vars PROVE CommitInv'
  OBVIOUS
<1>1. ASSUME NEW t \in Task, Step(t) PROVE CommitInv'
  <2>1. /\ UNCHANGED <<session, phase, status, complete>>
        /\ \A x \in Tx : txState'[x] = "committed" => txState[x] = "committed"
    BY <1>1 DEF Step, StartOpening, FinishOpening, FailOpening, ShareTransaction, Query,
                QueryDirect, TypeOK, response
  <2>2. QED
    BY <2>1
<1>2. ASSUME SetManual \/ QuerySession \/ SendStart \/ SendFinal \/ AppReturns
      PROVE  CommitInv'
  BY <1>2 DEF SetManual, QuerySession, SendStart, SendFinal, AppReturns, response
<1>3. ASSUME FinishUow PROVE CommitInv'
  <2>1. /\ UNCHANGED <<session, status, complete>> /\ phase' = "session"
        /\ \A x \in Tx : txState'[x] = "committed" => txState[x] = "committed" \/ Ok
    BY <1>3 DEF FinishUow, Close, TypeOK, response
  <2>2. QED
    BY <2>1
<1>4. ASSUME FinishSession PROVE CommitInv'
  BY <1>4 DEF FinishSession, response
<1>5. ASSUME Escape PROVE CommitInv'
  <2>1. /\ UNCHANGED <<status, complete>> /\ phase' = "raised"
        /\ session' = "committed" => session = "committed"
        /\ \A x \in Tx : txState'[x] = "committed" => txState[x] = "committed"
    BY <1>5 DEF Escape, Close, TypeOK, response
  <2>2. QED
    BY <2>1
<1>6. ASSUME Crash PROVE CommitInv'
  <2>1. /\ UNCHANGED <<status, complete>> /\ phase' = "crashed"
        /\ session' = "committed" => session = "committed"
        /\ \A x \in Tx : txState'[x] = "committed" => txState[x] = "committed"
    BY <1>6 DEF Crash, TypeOK, response
  <2>2. QED
    BY <2>1
<1>7. CASE UNCHANGED vars
  BY <1>7 DEF vars
<1>8. QED
  BY <1>1, <1>2, <1>3, <1>4, <1>5, <1>6, <1>7 DEF Next, Finish

\* However many tasks of the request query at once and whatever fails, no
\* write of the unit of work or of the session is durable without a complete
\* 2xx/3xx response.
THEOREM FailedResponsesCommitNothing == Spec => []FailureLeavesNothing
<1>1. Init => CommitInv
  BY DEF Init, CommitInv
<1>2. CommitInv => FailureLeavesNothing
  BY DEF CommitInv, FailureLeavesNothing, Durable, Ok
<1>3. QED
  BY <1>1, <1>2, CommitStep, TypeCorrect, PTL DEF Spec

-----------------------------------------------------------------------------
(***************************************************************************)
(* A handler that awaits its queries one after the other: the context the  *)
(* unit of work stores is the one whose transaction is open.  Other tasks  *)
(* may exist, as long as they do not use the unit of work.                 *)
(***************************************************************************)
SequentialInv ==
    /\ \A x \in Tx : txState[x] = "open" =>
          x = tx /\ ctx = tx /\ phase \in {"app", "finish", "escape"}
    /\ task[Main] = "opening" =>
          /\ phase = "app" /\ tx = NoTx /\ ctx = using[Main] /\ ctx # NoTx
          /\ txState[ctx] = "opening"
    /\ phase \in {"finish", "session", "escape", "done", "raised"} => task[Main] = "idle"

\* A task that used the unit of work once has used it for ever.
LEMMA OnlyHandlerBefore ==
    ASSUME TypeOK, [Next]_vars, OnlyHandler'
    PROVE  OnlyHandler
<1> USE UnitOfWorkAssumption DEF OnlyHandler, TypeOK
<1>1. ASSUME NEW t \in Task, Step(t) PROVE OnlyHandler
  BY <1>1 DEF Step, StartOpening, FinishOpening, FailOpening, ShareTransaction, Query,
              QueryDirect, Opened
<1>2. ASSUME UNCHANGED using PROVE OnlyHandler
  BY <1>2
<1>3. QED
  BY <1>1, <1>2 DEF Next, Finish, vars, SetManual, QuerySession, SendStart, SendFinal,
                    AppReturns, FinishUow, FinishSession, Escape, Crash

\* Meanwhile the other tasks at most query outside it.
LEMMA OthersStayOutside ==
    ASSUME TypeOK, OnlyHandler, OnlyHandler', NEW t \in Task \ {Main}, Step(t)
    PROVE  QueryDirect(t)
<1> USE UnitOfWorkAssumption DEF OnlyHandler, TypeOK
<1>1. using[t] = NoTx /\ using'[t] = NoTx
  OBVIOUS
<1>2. task[t] \notin {"opening", "query"}
  BY <1>1
<1>3. ~StartOpening(t) /\ ~ShareTransaction(t)
  BY <1>1 DEF StartOpening, ShareTransaction, Opened
<1>4. QED
  BY <1>2, <1>3 DEF Step, FinishOpening, FailOpening, Query

LEMMA SequentialStep ==
    ASSUME TypeOK, OnlyHandler, OnlyHandler', SequentialInv, [Next]_vars
    PROVE  SequentialInv'
<1> USE UnitOfWorkAssumption DEF SequentialInv
<1>1. ASSUME StartOpening(Main) PROVE SequentialInv'
  BY <1>1 DEF StartOpening, MayRun, Opened, TypeOK
<1>2. ASSUME FinishOpening(Main) PROVE SequentialInv'
  BY <1>2 DEF FinishOpening, TypeOK
<1>3. ASSUME FailOpening(Main) PROVE SequentialInv'
  BY <1>3 DEF FailOpening, TypeOK, uow
<1>4. ASSUME ShareTransaction(Main) PROVE SequentialInv'
  BY <1>4 DEF ShareTransaction, MayRun, TypeOK, uow
<1>5. ASSUME Query(Main) PROVE SequentialInv'
  BY <1>5 DEF Query, TypeOK, uow
<1>6. ASSUME NEW t \in Task, QueryDirect(t) PROVE SequentialInv'
  BY <1>6 DEF QueryDirect, uow
<1>7. ASSUME SetManual \/ QuerySession \/ SendStart \/ SendFinal \/ AppReturns
      PROVE  SequentialInv'
  BY <1>7 DEF SetManual, QuerySession, SendStart, SendFinal, AppReturns, uow
<1>8. ASSUME FinishUow PROVE SequentialInv'
  <2>1. phase' = "session" /\ UNCHANGED <<task, using>>
    BY <1>8 DEF FinishUow
  <2>2. \A x \in Tx : txState'[x] # "open"
    BY <1>8 DEF FinishUow, Close, Opened, TypeOK
  <2>3. QED
    BY <1>8, <2>1, <2>2 DEF FinishUow
<1>9. ASSUME FinishSession PROVE SequentialInv'
  BY <1>9 DEF FinishSession, uow
<1>10. ASSUME Escape PROVE SequentialInv'
  <2>1. phase' = "raised" /\ UNCHANGED <<task, using>>
    BY <1>10 DEF Escape
  <2>2. \A x \in Tx : txState'[x] # "open"
    BY <1>10 DEF Escape, Close, TypeOK
  <2>3. QED
    BY <1>10, <2>1, <2>2 DEF Escape
<1>11. ASSUME Crash PROVE SequentialInv'
  BY <1>11 DEF Crash
<1>12. CASE UNCHANGED vars
  BY <1>12 DEF vars
<1>13. ASSUME NEW t \in Task, Step(t) PROVE SequentialInv'
  <2>1. CASE t = Main
    BY <1>1, <1>2, <1>3, <1>4, <1>5, <1>6, <1>13, <2>1 DEF Step
  <2>2. CASE t # Main
    BY <1>6, <1>13, <2>2, OthersStayOutside
  <2>3. QED
    BY <2>1, <2>2
<1>14. QED
  BY <1>7, <1>8, <1>9, <1>10, <1>11, <1>12, <1>13 DEF Next, Finish

\* When no task but the handler uses the unit of work, the middleware leaves no
\* transaction of the request open, however the application ended.
THEOREM SequentialRequestsCleanUp == Spec => []HandlerLeavesNothingOpen
<1> DEFINE Inv == TypeOK /\ (OnlyHandler => SequentialInv)
<1>1. Init => Inv
  BY TypeInit, UnitOfWorkAssumption DEF Init, SequentialInv
<1>2. Inv /\ [Next]_vars => Inv'
  BY TypeStep, OnlyHandlerBefore, SequentialStep
<1>3. Inv => HandlerLeavesNothingOpen
  BY DEF SequentialInv, HandlerLeavesNothingOpen, NothingLeftOpen, OpenTx
<1>4. QED
  BY <1>1, <1>2, <1>3, PTL DEF Spec

-----------------------------------------------------------------------------
(***************************************************************************)
(* What such a handler wrote is in the one open transaction until the      *)
(* middleware has judged the response, and committed after a success.      *)
(***************************************************************************)
KeptInv ==
    \A w \in Write : writes[w] \in Tx =>
        /\ phase \in {"app", "finish"} => txState[writes[w]] = "open"
        /\ phase \in {"session", "done"} /\ Ok => txState[writes[w]] = "committed"

LEMMA KeptStep ==
    ASSUME TypeOK, OnlyHandler, OnlyHandler', SequentialInv, KeptInv, [Next]_vars, faults' = 0
    PROVE  KeptInv'
<1> USE UnitOfWorkAssumption DEF KeptInv, Ok
<1>1. ASSUME StartOpening(Main) PROVE KeptInv'
  BY <1>1 DEF StartOpening, TypeOK, response
<1>2. ASSUME FinishOpening(Main) PROVE KeptInv'
  BY <1>2 DEF FinishOpening, SequentialInv, TypeOK, response
<1>3. ASSUME FailOpening(Main) PROVE KeptInv'
  BY <1>3 DEF FailOpening, SequentialInv, TypeOK, uow, response
<1>4. ASSUME ShareTransaction(Main) PROVE KeptInv'
  BY <1>4 DEF ShareTransaction, TypeOK, uow, response
<1>5. ASSUME Query(Main) PROVE KeptInv'
  <2>1. phase \notin {"session", "done"}
    BY <1>5 DEF Query, SequentialInv
  <2>2. CASE UNCHANGED writes
    BY <1>5, <2>2 DEF Query, uow, response
  <2>3. CASE txState[using[Main]] = "open" /\ WriteTo(using[Main])
    BY <1>5, <2>1, <2>3 DEF Query, WriteTo, TypeOK, uow, response
  <2>4. QED
    BY <1>5, <2>2, <2>3 DEF Query
<1>6. ASSUME NEW t \in Task, QueryDirect(t) PROVE KeptInv'
  BY <1>6 DEF QueryDirect, WriteTo, TypeOK, uow, response
<1>7. ASSUME SetManual \/ SendStart \/ SendFinal \/ AppReturns PROVE KeptInv'
  BY <1>7 DEF SetManual, SendStart, SendFinal, AppReturns, uow, response
<1>8. ASSUME QuerySession PROVE KeptInv'
  BY <1>8 DEF QuerySession, WriteTo, TypeOK, uow, response
<1>9. ASSUME FinishUow PROVE KeptInv'
  <2>1. /\ phase = "finish" /\ phase' = "session"
        /\ UNCHANGED <<writes, status, complete>>
    BY <1>9 DEF FinishUow, response
  <2>2. ASSUME NEW w \in Write, writes[w] \in Tx, Ok
        PROVE  txState'[writes[w]] = "committed"
    <3>1. writes[w] = tx /\ ctx = tx /\ Opened /\ txState[ctx] = "open"
      BY <2>1, <2>2 DEF SequentialInv, Opened
    <3>2. ~Fault
      BY DEF Fault, TypeOK
    <3>3. Close("committed")
      BY <1>9, <2>2, <3>1, <3>2 DEF FinishUow
    <3>4. QED
      BY <2>2, <3>1, <3>3 DEF Close, TypeOK
  <2>3. QED
    BY <2>1, <2>2
<1>10. ASSUME FinishSession PROVE KeptInv'
  BY <1>10 DEF FinishSession, uow, response
<1>11. ASSUME Escape \/ Crash PROVE KeptInv'
  BY <1>11 DEF Escape, Crash, response
<1>12. CASE UNCHANGED vars
  BY <1>12 DEF vars
<1>13. ASSUME NEW t \in Task, Step(t) PROVE KeptInv'
  <2>1. CASE t = Main
    BY <1>1, <1>2, <1>3, <1>4, <1>5, <1>6, <1>13, <2>1 DEF Step
  <2>2. CASE t # Main
    BY <1>6, <1>13, <2>2, OthersStayOutside
  <2>3. QED
    BY <2>1, <2>2
<1>14. QED
  BY <1>7, <1>8, <1>9, <1>10, <1>11, <1>12, <1>13 DEF Next, Finish

\* Nothing has failed before if nothing has failed since.
LEMMA FaultsGrow ==
    ASSUME TypeOK, [Next]_vars, faults' = 0
    PROVE  faults = 0
<1>1. faults' = faults \/ faults' = faults + 1
  BY DEF Next, Step, Finish, vars, StartOpening, FinishOpening, FailOpening, ShareTransaction,
         Query, QueryDirect, SetManual, QuerySession, SendStart, SendFinal, AppReturns,
         FinishUow, FinishSession, Escape, Crash, Fault, response
<1>2. QED
  BY <1>1, UnitOfWorkAssumption DEF TypeOK

\* When no task but the handler uses the unit of work and nothing failed, all it
\* wrote there is durable once the middleware has finished after a complete
\* 2xx/3xx response.
THEOREM SuccessfulResponsesKeepWrites == Spec => []SuccessKeepsWrites
<1> DEFINE Inv == /\ TypeOK
                  /\ OnlyHandler => SequentialInv
                  /\ OnlyHandler /\ faults = 0 => KeptInv
<1>1. Init => Inv
  BY TypeInit, UnitOfWorkAssumption DEF Init, SequentialInv, KeptInv
<1>2. Inv /\ [Next]_vars => Inv'
  BY TypeStep, OnlyHandlerBefore, SequentialStep, KeptStep, FaultsGrow
<1>3. Inv => SuccessKeepsWrites
  BY DEF SuccessKeepsWrites, KeptInv, Ok, Durable
<1>4. QED
  BY <1>1, <1>2, <1>3, PTL DEF Spec
=============================================================================
