----------------------- MODULE SqliteConnections_proofs -----------------------
(***************************************************************************)
(* Theorems about SqliteConnections, for any number of tasks, threads and  *)
(* connections, and any number of closes, cancellations and failures.      *)
(***************************************************************************)
EXTENDS SqliteConnections, TLAPS

PcOK ==
    /\ pc \in [Thread -> {"idle", "lease", "open", "track", "cache", "begin", "work",
                          "commit", "finish", "discard"}]
    /\ job \in [Thread -> Waiting \cup {"none"}]
    /\ held \in [Thread -> Conn \cup {None}]
    /\ \A t \in Thread : held[t] = None <=> pc[t] \in {"idle", "lease", "open"}
    /\ serves \in [Thread -> Task \cup {None}]
    /\ call \in [Task -> Waiting \cup {"idle", "inside"}]
    /\ scope \in [Task -> Conn \cup {None}]

DataOK ==
    /\ open \subseteq Conn /\ connections \subseteq Conn /\ closing \subseteq Conn
    /\ writer \in open \cup {None}
    /\ generation \in 0..MaxCloses
    /\ cached \in [Thread -> Conn \cup {None}] /\ cachedGen \in [Thread -> 0..MaxCloses]
    /\ generation = closes
    /\ calls \in 0..MaxCalls /\ closes \in 0..MaxCloses
    /\ events \in 0..MaxEvents

\* Each place in the code belongs to certain jobs.
PlaceOK ==
    \A t \in Thread :
        /\ job[t] = "none" <=> pc[t] = "idle"
        /\ pc[t] \in {"lease", "cache", "commit"} => job[t] \in Leased
        /\ pc[t] \in {"open", "track", "begin"} => job[t] \in Leased \cup {"enter"}
        /\ pc[t] = "work" => job[t] \in Leased \cup {"stmt"}
        /\ pc[t] = "finish" => job[t] \in {"commit", "rollback"}
        /\ pc[t] = "discard" => job[t] \in {"enter", "commit", "rollback"}

\* A task's job runs in at most one thread.
ServesOK ==
    /\ \A t \in Thread : serves[t] # None => job[t] = call[serves[t]] /\ pc[t] # "idle"
    /\ \A t, u \in Thread : serves[t] = serves[u] /\ serves[t] # None => t = u

\* A task inside a transaction has its connection until _finish takes it.
ScopeOK ==
    \A k \in Task :
        /\ call[k] \in {"inside", "stmt"} => scope[k] # None
        /\ call[k] \in {"commit", "rollback"} =>
              scope[k] # None \/ \E t \in Thread : serves[t] = k

JobInv == PcOK /\ PlaceOK /\ ServesOK /\ ScopeOK

LEMMA JobInit == Init => JobInv
BY SqliteAssumption
DEF Init, JobInv, PcOK, PlaceOK, ServesOK, ScopeOK, Waiting, Leased, OnScope

-----------------------------------------------------------------------------
\* The end of a job preserves JobInv, whatever the job was.
LEMMA ReturnStep ==
    ASSUME JobInv, NEW t \in Thread, pc[t] # "idle", NEW opened \in BOOLEAN,
           opened => job[t] = "enter" /\ held[t] # None,
           Return(t, opened)
    PROVE  JobInv'
<1> USE SqliteAssumption DEF JobInv, Leased, OnScope, Waiting
<1>1. /\ pc' = [pc EXCEPT ![t] = "idle"] /\ job' = [job EXCEPT ![t] = "none"]
      /\ held' = [held EXCEPT ![t] = None] /\ serves' = [serves EXCEPT ![t] = None]
      /\ \A k \in Task : call'[k] = IF k # serves[t] THEN call[k]
                         ELSE IF opened \/ job[t] = "stmt" THEN "inside" ELSE "idle"
      /\ \A k \in Task : scope'[k] = IF k = serves[t] /\ opened THEN held[t] ELSE scope[k]
  BY DEF Return, Goto
<1>2. PcOK'
  <2>1. call' \in [Task -> Waiting \cup {"idle", "inside"}]
    BY DEF Return, PcOK
  <2>2. scope' \in [Task -> Conn \cup {None}]
    BY DEF Return, PcOK
  <2>3. QED
    BY <1>1, <2>1, <2>2 DEF PcOK
<1>3. PlaceOK'
  BY <1>1 DEF PlaceOK, PcOK
<1>4. ServesOK'
  <2>1. ASSUME NEW u \in Thread, serves'[u] # None
        PROVE  u # t /\ serves'[u] = serves[u] /\ serves[u] # serves[t] /\ serves[u] \in Task
    BY <1>1, <2>1 DEF ServesOK, PcOK
  <2>2. QED
    BY <1>1, <2>1 DEF ServesOK, PcOK
<1>5. ScopeOK'
  <2> SUFFICES ASSUME NEW k \in Task
               PROVE  /\ call'[k] \in {"inside", "stmt"} => scope'[k] # None
                      /\ call'[k] \in {"commit", "rollback"} =>
                            scope'[k] # None \/ \E u \in Thread : serves'[u] = k
    BY DEF ScopeOK
  <2>1. CASE k = serves[t]
    <3>1. job[t] = call[k]
      BY <2>1 DEF ServesOK, PcOK
    <3>2. QED
      BY <1>1, <2>1, <3>1 DEF ScopeOK, PcOK
  <2>2. CASE k # serves[t]
    <3>1. \A u \in Thread : serves[u] = k => serves'[u] = k
      BY <1>1, <2>2 DEF PcOK
    <3>2. QED
      BY <1>1, <2>2, <3>1 DEF ScopeOK, PcOK
  <2>3. QED
    BY <2>1, <2>2
<1>6. QED
  BY <1>2, <1>3, <1>4, <1>5

\* So does a step of a job within its thread.
LEMMA WithinJob ==
    ASSUME JobInv, NEW t \in Thread, UNCHANGED <<job, serves, call, scope>>,
           pc[t] # "idle",
           NEW where \in {"open", "track", "cache", "begin", "work", "commit", "discard"},
           NEW h \in Conn \cup {None}, h = None <=> where = "open",
           pc' = [pc EXCEPT ![t] = where], held' = [held EXCEPT ![t] = h],
           where \in {"cache", "commit"} => job[t] \in Leased,
           where \in {"open", "track", "begin"} => job[t] \in Leased \cup {"enter"},
           where = "work" => job[t] \in Leased,
           where = "discard" => job[t] \in {"enter", "commit", "rollback"}
    PROVE  JobInv'
<1> USE SqliteAssumption DEF JobInv
<1>1. PcOK'
  BY DEF PcOK
<1>2. PlaceOK'
  BY DEF PlaceOK, PcOK
<1>3. ServesOK'
  BY DEF ServesOK, PcOK
<1>4. ScopeOK'
  BY DEF ScopeOK
<1>5. QED
  BY <1>1, <1>2, <1>3, <1>4

LEMMA CallStep ==
    ASSUME JobInv, NEW k \in Task, NEW op \in Leased \cup {"enter"}, Call(k, op)
    PROVE  JobInv'
<1> USE SqliteAssumption DEF JobInv, Call, threads, Waiting, OnScope, Leased
<1>1. \A t \in Thread : serves[t] # k
  BY DEF ServesOK, PcOK
<1>2. PcOK' /\ PlaceOK'
  BY DEF PcOK, PlaceOK
<1>3. ServesOK'
  BY <1>1 DEF ServesOK, PcOK
<1>4. ScopeOK'
  BY DEF ScopeOK, PcOK
<1>5. QED
  BY <1>2, <1>3, <1>4

LEMMA ContinueStep ==
    ASSUME JobInv, NEW k \in Task, NEW op \in OnScope, Continue(k, op)
    PROVE  JobInv'
<1> USE SqliteAssumption DEF JobInv, Continue, threads, Waiting, OnScope, Leased
<1>1. \A t \in Thread : serves[t] # k
  BY DEF ServesOK, PcOK
<1>2. PcOK' /\ PlaceOK'
  BY DEF PcOK, PlaceOK
<1>3. ServesOK'
  BY <1>1 DEF ServesOK, PcOK
<1>4. ScopeOK'
  BY DEF ScopeOK, PcOK
<1>5. QED
  BY <1>2, <1>3, <1>4

LEMMA CancelStep ==
    ASSUME JobInv, NEW k \in Task, Cancel(k)
    PROVE  JobInv'
<1> USE SqliteAssumption DEF JobInv, Cancel, Waiting, OnScope, Leased
<1>1. PcOK' /\ PlaceOK'
  BY DEF PcOK, PlaceOK
<1>2. ServesOK'
  <2>1. ASSUME NEW t \in Thread, serves'[t] # None
        PROVE  serves'[t] = serves[t] /\ serves[t] # k /\ serves[t] \in Task
    BY <2>1 DEF PcOK
  <2>2. QED
    BY <2>1 DEF ServesOK, PcOK
<1>3. ScopeOK'
  <2>1. \A j \in Task : j # k => call'[j] = call[j] /\ scope'[j] = scope[j]
    BY DEF PcOK
  <2>2. \A t \in Thread : serves[t] # k => serves'[t] = serves[t]
    BY DEF PcOK
  <2>3. call'[k] = "idle" \/ (call'[k] = "rollback" /\ scope'[k] # None)
    BY DEF ScopeOK, PcOK
  <2>4. QED
    BY <2>1, <2>2, <2>3 DEF ScopeOK
<1>4. QED
  BY <1>1, <1>2, <1>3

LEMMA PickUpStep ==
    ASSUME JobInv, NEW t \in Thread, NEW k \in Task, PickUp(t, k)
    PROVE  JobInv'
<1> USE SqliteAssumption DEF JobInv, PickUp, Goto, Waiting, OnScope, Leased
<1>1. \A u \in Thread : serves[u] # k
  OBVIOUS
<1>2. call[k] \in OnScope => scope[k] # None
  BY <1>1 DEF ScopeOK
<1>3. PcOK'
  <2>1. pc' \in [Thread -> {"idle", "lease", "open", "track", "cache", "begin", "work",
                            "commit", "finish", "discard"}]
    BY DEF PcOK
  <2>2. held' \in [Thread -> Conn \cup {None}] /\ scope' \in [Task -> Conn \cup {None}]
    BY DEF PcOK
  <2>3. \A u \in Thread : held'[u] = None <=> pc'[u] \in {"idle", "lease", "open"}
    BY <1>2 DEF PcOK
  <2>4. QED
    BY <2>1, <2>2, <2>3 DEF PcOK
<1>4. PlaceOK'
  BY DEF PcOK, PlaceOK
<1>5. ServesOK'
  <2>1. serves[t] = None
    BY DEF ServesOK, PcOK
  <2>2. \A u \in Thread : u # t => /\ serves'[u] = serves[u] /\ job'[u] = job[u]
                                   /\ pc'[u] = pc[u] /\ serves[u] # k
    BY <1>1 DEF PcOK
  <2>3. serves'[t] = k /\ job'[t] = call[k] /\ pc'[t] # "idle" /\ call' = call
    BY DEF PcOK
  <2>4. QED
    BY <2>2, <2>3 DEF ServesOK
<1>6. ScopeOK'
  <2>1. \A j \in Task : j # k => scope'[j] = scope[j]
    BY DEF PcOK
  <2>2. call' = call /\ (call[k] \notin {"commit", "rollback"} => scope'[k] = scope[k])
    BY DEF PcOK
  <2>3. serves'[t] = k /\ serves[t] = None
    BY DEF ServesOK, PlaceOK, PcOK
  <2>4. \A u \in Thread : serves[u] # None => serves'[u] = serves[u]
    BY <2>3 DEF PcOK
  <2>5. QED
    BY <2>1, <2>2, <2>3, <2>4 DEF ScopeOK
<1>7. QED
  BY <1>3, <1>4, <1>5, <1>6

LEMMA ProgressStep ==
    ASSUME JobInv, cached \in [Thread -> Conn \cup {None}], NEW t \in Thread, Progress(t)
    PROVE  JobInv'
<1> USE SqliteAssumption DEF JobInv
<1>1. held = [held EXCEPT ![t] = held[t]] /\ held[t] \in Conn \cup {None}
  BY DEF PcOK
<1>2. ASSUME Lease(t) PROVE JobInv'
  <2>1. job[t] \in Leased /\ pc[t] = "lease"
    BY <1>2 DEF Lease, PlaceOK
  <2>2. ASSUME Current(t), held' = [held EXCEPT ![t] = cached[t]], Goto(t, AfterLease(t)),
               cached[t] \in Conn
        PROVE  JobInv'
    BY <1>2, <2>1, <2>2, WithinJob DEF Lease, AfterLease, Goto, tasks
  <2>3. ASSUME Goto(t, "open"), UNCHANGED held
        PROVE  JobInv'
    <3>1. held[t] = None
      BY <2>1 DEF PcOK
    <3>2. QED
      BY <1>1, <1>2, <2>1, <2>3, <3>1, WithinJob DEF Lease, Goto, tasks
  <2>4. QED
    BY <1>2, <2>2, <2>3 DEF Lease, Current
<1>3. ASSUME Open(t) PROVE JobInv'
  <2>1. pc[t] = "open" /\ job[t] \in Leased \cup {"enter"}
    BY <1>3 DEF Open, PlaceOK
  <2>2. CASE Return(t, FALSE)
    BY <2>1, <2>2, ReturnStep
  <2>3. ASSUME NEW c \in Conn, held' = [held EXCEPT ![t] = c], Goto(t, "track"),
               UNCHANGED <<job, serves, tasks>>
        PROVE  JobInv'
    BY <2>1, <2>3, WithinJob DEF Goto, tasks
  <2>4. QED
    BY <1>3, <2>2, <2>3 DEF Open, Fresh
<1>4. ASSUME Track(t) \/ Cache(t) \/ Finish(t) PROVE JobInv'
  <2>1. held[t] # None /\ pc[t] # "idle"
    BY <1>4 DEF Track, Cache, Finish, PcOK
  <2>2. CASE Track(t)
    BY <1>1, <2>1, <2>2, WithinJob DEF Track, Goto, tasks, PlaceOK
  <2>3. CASE Cache(t)
    BY <1>1, <2>1, <2>3, WithinJob DEF Cache, Goto, tasks, PlaceOK, AfterLease
  <2>4. CASE Finish(t)
    BY <1>1, <2>1, <2>4, WithinJob DEF Finish, Goto, tasks, PlaceOK
  <2>5. QED
    BY <1>4, <2>2, <2>3, <2>4
<1>5. ASSUME Begin(t) \/ BusyTimeout(t) PROVE JobInv'
  <2>1. pc[t] = "begin" /\ held[t] # None /\ job[t] \in Leased \cup {"enter"}
    BY <1>5 DEF Begin, BusyTimeout, PcOK, PlaceOK
  <2>2. CASE BeginRaises(t)
    BY <1>1, <2>1, <2>2, WithinJob, ReturnStep DEF BeginRaises, Goto, tasks
  <2>3. CASE job[t] = "enter" /\ Return(t, TRUE)
    BY <2>1, <2>3, ReturnStep
  <2>4. CASE job[t] # "enter" /\ Goto(t, "work") /\ UNCHANGED <<job, held, serves, tasks>>
    BY <1>1, <2>1, <2>4, WithinJob DEF Goto, tasks
  <2>5. QED
    BY <1>5, <2>2, <2>3, <2>4 DEF Begin, BusyTimeout
<1>6. ASSUME Work(t) \/ Commit(t) \/ Discard(t) PROVE JobInv'
  <2>1. held[t] # None /\ pc[t] # "idle"
    BY <1>6 DEF Work, Commit, Discard, PcOK
  <2>2. CASE Return(t, FALSE)
    BY <2>1, <2>2, ReturnStep
  <2>3. CASE job[t] \in {"batch", "sync"} /\ Goto(t, "commit")
             /\ UNCHANGED <<job, held, serves, tasks>>
    BY <1>1, <2>1, <2>3, WithinJob DEF Goto, tasks, Leased
  <2>4. QED
    BY <1>6, <2>2, <2>3 DEF Work, Commit, Discard
<1>7. QED
  BY <1>2, <1>3, <1>4, <1>5, <1>6 DEF Progress

LEMMA JobStep == DataOK /\ JobInv /\ [Next]_vars => JobInv'
<1> SUFFICES ASSUME DataOK, JobInv, [Next]_vars PROVE JobInv'
  OBVIOUS
<1>1. ASSUME UNCHANGED <<threads, tasks>> PROVE JobInv'
  BY <1>1 DEF threads, tasks, JobInv, PcOK, PlaceOK, ServesOK, ScopeOK
<1>2. ASSUME NEW k \in Task,
             \/ \E op \in Leased \cup {"enter"} : Call(k, op)
             \/ Continue(k, "stmt") \/ Leave(k) \/ Cancel(k)
             \/ \E t \in Thread : PickUp(t, k)
      PROVE  JobInv'
  BY <1>2, CallStep, ContinueStep, CancelStep, PickUpStep DEF Leave, OnScope
<1>3. ASSUME NEW t \in Thread, Progress(t) PROVE JobInv'
  BY <1>3, ProgressStep DEF DataOK
<1>4. ASSUME NEW t \in Thread, ThreadExit(t) PROVE JobInv'
  BY <1>1, <1>4 DEF ThreadExit
<1>5. ASSUME CloseSwap \/ \E c \in Conn : CloseOne(c) PROVE JobInv'
  BY <1>1, <1>5 DEF CloseSwap, CloseOne
<1>6. CASE UNCHANGED vars
  BY <1>1, <1>6 DEF vars
<1>7. QED
  BY <1>2, <1>3, <1>4, <1>5, <1>6 DEF Next

-----------------------------------------------------------------------------
LEMMA DataInit == Init => DataOK
BY SqliteAssumption DEF Init, DataOK

LEMMA DataStep == DataOK /\ JobInv /\ [Next]_vars => DataOK'
<1> SUFFICES ASSUME DataOK, JobInv, [Next]_vars PROVE DataOK'
  OBVIOUS
<1> USE SqliteAssumption DEF DataOK
<1>1. ASSUME NEW k \in Task,
             \/ \E op \in Leased \cup {"enter"} : Call(k, op)
             \/ Continue(k, "stmt") \/ Leave(k) \/ Cancel(k)
             \/ \E t \in Thread : PickUp(t, k)
      PROVE  DataOK'
  BY <1>1 DEF Call, Continue, Leave, Cancel, PickUp, Event, file, lists, locals, bounds
<1>2. ASSUME NEW t \in Thread, Progress(t) PROVE DataOK'
  <2>1. held[t] \in Conn \cup {None}
    BY DEF JobInv, PcOK
  <2>2. CASE Lease(t) \/ BusyTimeout(t)
    BY <2>2 DEF Lease, BusyTimeout, file, lists, locals, bounds
  <2>3. CASE Open(t)
    <3>1. open \subseteq open' /\ open' \subseteq Conn
      BY <2>3 DEF Open, Fresh
    <3>2. events' \in 0..MaxEvents
      <4>1. events' = events \/ Event
        BY <2>3 DEF Open
      <4>2. QED
        BY <4>1 DEF Event
    <3>3. UNCHANGED <<writer, lists, locals, calls, closes>>
      BY <2>3 DEF Open
    <3>4. QED
      BY <3>1, <3>2, <3>3 DEF lists, locals
  <2>4. CASE Track(t)
    <3>1. held[t] \in Conn
      BY <2>4 DEF Track, JobInv, PcOK
    <3>2. QED
      BY <2>4, <3>1 DEF Track, Recorded, file, locals, bounds
  <2>5. CASE Cache(t)
    BY <2>1, <2>5 DEF Cache, file, lists, bounds
  <2>6. CASE Begin(t)
    BY <2>6 DEF Begin, lists, locals, bounds
  <2>7. CASE Work(t) \/ Commit(t) \/ Finish(t)
    <3>1. writer' \in open \cup {None}
      BY <2>7 DEF Work, Commit, Finish, Unlocked
    <3>2. events' \in 0..MaxEvents
      <4>1. events' = events \/ Event
        BY <2>7 DEF Work, Commit, Finish, bounds
      <4>2. QED
        BY <4>1 DEF Event
    <3>3. UNCHANGED <<open, lists, locals, calls, closes>>
      BY <2>7 DEF Work, Commit, Finish, bounds
    <3>4. QED
      BY <3>1, <3>2, <3>3 DEF lists, locals
  <2>8. CASE Discard(t)
    BY <2>8 DEF Discard, Unlocked, locals, bounds
  <2>9. QED
    BY <1>2, <2>2, <2>3, <2>4, <2>5, <2>6, <2>7, <2>8 DEF Progress
<1>3. ASSUME NEW t \in Thread, ThreadExit(t) PROVE DataOK'
  BY <1>3 DEF ThreadExit, Event, file, lists
<1>4. CASE CloseSwap
  BY <1>4 DEF CloseSwap, file, locals
<1>5. ASSUME NEW c \in Conn, CloseOne(c) PROVE DataOK'
  BY <1>5 DEF CloseOne, Unlocked, locals, bounds
<1>6. CASE UNCHANGED vars
  BY <1>6 DEF vars, file, lists, locals, bounds
<1>7. QED
  BY <1>1, <1>2, <1>3, <1>4, <1>5, <1>6 DEF Next

LEMMA AlwaysTyped == Spec => [](DataOK /\ JobInv)
BY JobInit, DataInit, JobStep, DataStep, PTL DEF Spec

\* The variables always have their types.
THEOREM TypeCorrect == Spec => []TypeOK
<1>1. DataOK /\ JobInv => TypeOK
  BY DEF DataOK, JobInv, PcOK, TypeOK
<1>2. QED
  BY <1>1, AlwaysTyped, PTL

-----------------------------------------------------------------------------
LEMMA TrackedStep == DataOK /\ JobInv /\ NoConnectionLost /\ [Next]_vars => NoConnectionLost'
<1> SUFFICES ASSUME DataOK, JobInv, NoConnectionLost, [Next]_vars PROVE NoConnectionLost'
  OBVIOUS
<1> USE SqliteAssumption
<1>1. ASSUME open' \subseteq open, connections \subseteq connections', closing \subseteq closing',
             \A t \in Thread : pc[t] = "track" => pc'[t] = "track" /\ held'[t] = held[t]
      PROVE  NoConnectionLost'
  BY <1>1 DEF NoConnectionLost
<1>2. ASSUME NEW k \in Task,
             \/ \E op \in Leased \cup {"enter"} : Call(k, op)
             \/ Continue(k, "stmt") \/ Leave(k) \/ Cancel(k)
             \/ \E t \in Thread : PickUp(t, k)
      PROVE  NoConnectionLost'
  BY <1>1, <1>2 DEF Call, Continue, Leave, Cancel, PickUp, Goto, file, lists, threads, JobInv, PcOK
<1>3. ASSUME NEW t \in Thread, Progress(t) PROVE NoConnectionLost'
  <2>1. \A u \in Thread : u # t => pc'[u] = pc[u] /\ held'[u] = held[u]
    BY <1>3 DEF Progress, Lease, Open, Track, Cache, Begin, BusyTimeout, Work, Commit, Finish,
                Discard, Return, BeginRaises, Goto, JobInv, PcOK
  <2>2. CASE Lease(t) \/ Cache(t) \/ Begin(t) \/ BusyTimeout(t) \/ Work(t) \/ Commit(t)
             \/ Finish(t)
    <3>1. pc[t] # "track" /\ open' = open /\ connections' = connections /\ closing' = closing
      BY <2>2 DEF Lease, Cache, Begin, BusyTimeout, Work, Commit, Finish, file, lists
    <3>2. QED
      BY <1>1, <2>1, <3>1
  <2>3. CASE Open(t)
    <3>1. /\ pc[t] = "open" /\ connections' = connections /\ closing' = closing
          /\ \/ open' = open
             \/ \E c \in Conn : open' = open \cup {c} /\ held'[t] = c /\ pc'[t] = "track"
      BY <2>3 DEF Open, Fresh, Goto, lists, JobInv, PcOK
    <3>2. QED
      BY <2>1, <3>1 DEF NoConnectionLost
  <2>4. CASE Track(t)
    BY <2>1, <2>4 DEF Track, Recorded, file, NoConnectionLost
  <2>5. CASE Discard(t)
    BY <2>1, <2>5 DEF Discard, NoConnectionLost
  <2>6. QED
    BY <1>3, <2>2, <2>3, <2>4, <2>5 DEF Progress
<1>4. ASSUME NEW t \in Thread, ThreadExit(t) PROVE NoConnectionLost'
  BY <1>1, <1>4 DEF ThreadExit, file, lists, threads
<1>5. CASE CloseSwap
  BY <1>5 DEF CloseSwap, NoConnectionLost, file, threads
<1>6. ASSUME NEW c \in Conn, CloseOne(c) PROVE NoConnectionLost'
  BY <1>6 DEF CloseOne, NoConnectionLost, threads
<1>7. CASE UNCHANGED vars
  BY <1>1, <1>7 DEF vars, file, lists, threads
<1>8. QED
  BY <1>2, <1>3, <1>4, <1>5, <1>6, <1>7 DEF Next

\* No open connection is ever outside the list, except while the thread that
\* opened it is on its way to record it, or close_sync to close it.
THEOREM ConnectionsAreTracked == Spec => []NoConnectionLost
<1>1. Init => NoConnectionLost
  BY DEF Init, NoConnectionLost
<1>2. QED
  BY <1>1, TrackedStep, AlwaysTyped, PTL DEF Spec

-----------------------------------------------------------------------------
(***************************************************************************)
(* Who may refer to a connection: one thread's cache and that thread's own *)
(* jobs; or a thread that is opening it; or one scope, and the threads     *)
(* that run the jobs of that scope, which may be several after a           *)
(* cancellation.                                                           *)
(***************************************************************************)
HolderOK ==
    /\ \A t, u \in Thread : held[t] = held[u] /\ held[t] # None /\ t # u =>
                               job[t] \in OnScope /\ job[u] \in OnScope
    /\ \A t \in Thread, k \in Task : held[t] # None /\ held[t] = scope[k] => job[t] \in OnScope

CacheOK ==
    /\ \A t, u \in Thread : held[t] # None /\ held[t] = cached[u] => t = u /\ job[t] \in Leased
    /\ \A t, u \in Thread : cached[t] # None /\ cached[t] = cached[u] => t = u
    /\ \A t \in Thread, k \in Task : cached[t] # None => cached[t] # scope[k]

ScopesApart == \A j, k \in Task : scope[j] = scope[k] /\ scope[j] # None => j = k

ExclInv == HolderOK /\ CacheOK /\ ScopesApart

\* References that only go away do no harm.
LEMMA ExclFrame ==
    ASSUME ExclInv,
           \A t \in Thread : held'[t] # None => held'[t] = held[t] /\ job'[t] = job[t],
           \A t \in Thread : cached'[t] # None => cached'[t] = cached[t],
           \A k \in Task : scope'[k] # None => scope'[k] = scope[k]
    PROVE  ExclInv'
<1>1. HolderOK'
  BY DEF ExclInv, HolderOK
<1>2. CacheOK'
  BY DEF ExclInv, CacheOK
<1>3. ScopesApart'
  BY DEF ExclInv, ScopesApart
<1>4. QED
  BY <1>1, <1>2, <1>3 DEF ExclInv

\* The end of a job that was not a BEGIN only drops references.
LEMMA ExclReturn ==
    ASSUME ExclInv, JobInv, NEW t \in Thread, Return(t, FALSE), UNCHANGED cached
    PROVE  ExclInv'
BY ExclFrame DEF Return, JobInv, PcOK

LEMMA ExclPickUp ==
    ASSUME ExclInv, JobInv, NEW t \in Thread, NEW k \in Task, PickUp(t, k)
    PROVE  ExclInv'
<1> USE DEF PickUp, locals
<1>1. /\ held'[t] = IF call[k] \in OnScope THEN scope[k] ELSE None
      /\ job'[t] = call[k]
      /\ \A u \in Thread : u # t => held'[u] = held[u] /\ job'[u] = job[u]
      /\ cached' = cached
      /\ \A j \in Task : scope'[j] # None => scope'[j] = scope[j]
      /\ scope'[k] # None => call[k] \notin {"commit", "rollback"}
  BY DEF JobInv, PcOK
<1>2. HolderOK'
  BY <1>1 DEF ExclInv, HolderOK, ScopesApart
<1>3. CacheOK'
  BY <1>1 DEF ExclInv, CacheOK
<1>4. ScopesApart'
  BY <1>1 DEF ExclInv, ScopesApart
<1>5. QED
  BY <1>2, <1>3, <1>4 DEF ExclInv

LEMMA ExclProgress ==
    ASSUME ExclInv, JobInv, DataOK, NEW t \in Thread, Progress(t)
    PROVE  ExclInv'
<1> USE SqliteAssumption
<1>1. ASSUME UNCHANGED <<cached, scope, job>>,
             \A u \in Thread : held'[u] = held[u]
      PROVE  ExclInv'
  BY <1>1, ExclFrame
<1>2. CASE Lease(t)
  <2>1. CASE UNCHANGED held
    BY <1>1, <1>2, <2>1 DEF Lease, locals, tasks
  <2>2. CASE Current(t) /\ held' = [held EXCEPT ![t] = cached[t]]
    <3>1. /\ held'[t] = cached[t] /\ cached[t] # None /\ job[t] \in Leased
          /\ \A u \in Thread : u # t => held'[u] = held[u]
          /\ UNCHANGED <<cached, scope, job>>
      BY <1>2, <2>2 DEF Lease, Current, JobInv, PcOK, PlaceOK, locals, tasks
    <3>2. HolderOK'
      BY <3>1 DEF ExclInv, HolderOK, CacheOK
    <3>3. CacheOK'
      BY <3>1 DEF ExclInv, CacheOK
    <3>4. ScopesApart'
      BY <3>1 DEF ExclInv, ScopesApart
    <3>5. QED
      BY <3>2, <3>3, <3>4 DEF ExclInv
  <2>3. QED
    BY <1>2, <2>1, <2>2 DEF Lease
<1>3. CASE Open(t)
  <2>1. CASE Return(t, FALSE)
    BY <1>3, <2>1, ExclReturn DEF Open, locals
  <2>2. ASSUME NEW c \in Fresh, held' = [held EXCEPT ![t] = c], UNCHANGED <<job, serves, tasks>>
        PROVE  ExclInv'
    <3>1. /\ held'[t] = c /\ c # None
          /\ \A u \in Thread : u # t => held'[u] = held[u] /\ held[u] # c
          /\ \A u \in Thread : cached[u] # c
          /\ \A k \in Task : scope[k] # c
          /\ UNCHANGED <<cached, scope, job>>
      BY <1>3, <2>2 DEF Open, Fresh, JobInv, PcOK, locals, tasks
    <3>2. HolderOK'
      BY <3>1 DEF ExclInv, HolderOK
    <3>3. CacheOK'
      BY <3>1 DEF ExclInv, CacheOK
    <3>4. ScopesApart'
      BY <3>1 DEF ExclInv, ScopesApart
    <3>5. QED
      BY <3>2, <3>3, <3>4 DEF ExclInv
  <2>3. QED
    BY <1>3, <2>1, <2>2 DEF Open
<1>4. CASE Track(t) \/ Finish(t)
  BY <1>1, <1>4 DEF Track, Finish, locals, tasks
<1>5. CASE Cache(t)
  <2>1. /\ cached'[t] = held[t] /\ held[t] # None /\ job[t] \in Leased
        /\ \A u \in Thread : u # t => cached'[u] = cached[u]
        /\ UNCHANGED <<held, scope, job>>
    BY <1>5 DEF Cache, DataOK, JobInv, PcOK, PlaceOK, tasks
  <2>2. job[t] \notin OnScope
    BY <2>1 DEF Leased, OnScope
  <2>3. CacheOK'
    BY <2>1, <2>2 DEF ExclInv, CacheOK, HolderOK
  <2>4. HolderOK' /\ ScopesApart'
    BY <2>1 DEF ExclInv, HolderOK, ScopesApart
  <2>5. QED
    BY <2>3, <2>4 DEF ExclInv
<1>6. CASE Begin(t) \/ BusyTimeout(t)
  <2>1. CASE BeginRaises(t)
    BY <1>1, <1>6, <2>1, ExclReturn DEF BeginRaises, Begin, BusyTimeout, locals, tasks
  <2>2. CASE job[t] # "enter" /\ Goto(t, "work") /\ UNCHANGED <<job, held, serves, tasks>>
    BY <1>1, <1>6, <2>2 DEF Begin, BusyTimeout, locals, tasks
  <2>3. CASE job[t] = "enter" /\ Return(t, TRUE)
    <3>1. /\ held'[t] = None
          /\ \A u \in Thread : u # t => held'[u] = held[u] /\ job'[u] = job[u]
          /\ cached' = cached
          /\ \A k \in Task : scope'[k] = IF k = serves[t] THEN held[t] ELSE scope[k]
      BY <1>6, <2>3 DEF Return, Begin, BusyTimeout, JobInv, PcOK, locals
    <3>2. job[t] \notin Leased \cup OnScope
      BY <2>3 DEF Leased, OnScope
    <3>3. HolderOK'
      BY <3>1, <3>2 DEF ExclInv, HolderOK
    <3>4. CacheOK'
      BY <3>1, <3>2 DEF ExclInv, CacheOK
    <3>5. ScopesApart'
      BY <3>1, <3>2 DEF ExclInv, HolderOK, ScopesApart
    <3>6. QED
      BY <3>3, <3>4, <3>5 DEF ExclInv
  <2>4. QED
    BY <1>6, <2>1, <2>2, <2>3 DEF Begin, BusyTimeout
<1>7. CASE Work(t) \/ Commit(t) \/ Discard(t)
  <2>1. CASE Return(t, FALSE)
    BY <1>7, <2>1, ExclReturn DEF Work, Commit, Discard, locals
  <2>2. CASE UNCHANGED <<job, held, serves, tasks>>
    BY <1>1, <1>7, <2>2 DEF Work, Commit, Discard, locals, tasks
  <2>3. QED
    BY <1>7, <2>1, <2>2 DEF Work, Commit, Discard
<1>8. QED
  BY <1>2, <1>3, <1>4, <1>5, <1>6, <1>7 DEF Progress

LEMMA ExclStep == DataOK /\ JobInv /\ ExclInv /\ [Next]_vars => ExclInv'
<1> SUFFICES ASSUME DataOK, JobInv, ExclInv, [Next]_vars PROVE ExclInv'
  OBVIOUS
<1>1. ASSUME NEW k \in Task,
             (\E op \in Leased \cup {"enter"} : Call(k, op)) \/ Continue(k, "stmt") \/ Leave(k)
      PROVE  ExclInv'
  BY <1>1, ExclFrame DEF Call, Continue, Leave, locals, threads
<1>2. ASSUME NEW k \in Task, Cancel(k) PROVE ExclInv'
  BY <1>2, ExclFrame DEF Cancel, JobInv, PcOK, locals
<1>3. ASSUME NEW t \in Thread, ThreadExit(t) PROVE ExclInv'
  BY <1>3, ExclFrame DEF ThreadExit, DataOK, threads, tasks
<1>4. ASSUME CloseSwap \/ \E c \in Conn : CloseOne(c) PROVE ExclInv'
  BY <1>4, ExclFrame DEF CloseSwap, CloseOne, locals, threads, tasks
<1>5. CASE UNCHANGED vars
  BY <1>5, ExclFrame DEF vars, locals, threads, tasks
<1>6. QED
  BY <1>1, <1>2, <1>3, <1>4, <1>5, ExclPickUp, ExclProgress DEF Next

LEMMA AlwaysApart == Spec => []ExclInv
<1>1. Init => ExclInv
  BY DEF Init, ExclInv, HolderOK, CacheOK, ScopesApart
<1>2. QED
  BY <1>1, ExclStep, AlwaysTyped, PTL DEF Spec

\* A transaction has its connection to itself, whatever is cancelled, closed or
\* reopened around it.
THEOREM TransactionsHaveTheirConnection == Spec => []TransactionsAreExclusive
<1>1. JobInv /\ ExclInv => TransactionsAreExclusive
  <2> SUFFICES ASSUME JobInv, ExclInv PROVE TransactionsAreExclusive
    OBVIOUS
  <2>1. Leased \cap (OnScope \cup {"enter"}) = {}
    BY DEF Leased, OnScope
  <2>2. ASSUME NEW c \in Dedicated \ {None}, NEW t \in Thread
        PROVE  cached[t] # c /\ (held[t] = c => job[t] \notin Leased)
    <3>1. CASE \E k \in Task : c = scope[k]
      BY <2>1, <2>2, <3>1 DEF ExclInv, HolderOK, CacheOK
    <3>2. CASE \E u \in Thread : c = held[u] /\ job[u] \in OnScope \cup {"enter"}
      BY <2>1, <2>2, <3>2 DEF ExclInv, HolderOK, CacheOK
    <3>3. QED
      BY <2>2, <3>1, <3>2 DEF Dedicated
  <2>3. QED
    BY <2>1, <2>2 DEF ExclInv, HolderOK, ScopesApart, TransactionsAreExclusive
<1>2. QED
  BY <1>1, AlwaysApart, AlwaysTyped, PTL

-----------------------------------------------------------------------------
(***************************************************************************)
(* Until something is cancelled or fails, a thread works for the task that *)
(* waits for it, so what the docstrings say of transactions is true.       *)
(***************************************************************************)
ServedInv ==
    /\ \A t \in Thread : pc[t] # "idle" => serves[t] # None
    /\ \A t \in Thread, k \in Task : scope[k] # None /\ held[t] = scope[k] =>
                                       serves[t] = k /\ job[t] = "stmt"
    /\ \A t \in Thread : /\ job[t] = "stmt" => held[t] = scope[serves[t]]
                         /\ job[t] \in {"commit", "rollback"} => scope[serves[t]] = None
                         /\ pc[t] = "begin" => job[t] # "query"

\* The connection of a scope is in its transaction, unless it was closed.
InsideInv == \A k \in Task : scope[k] \in open => writer = scope[k]

\* The thread is between the BEGIN and the end of what it runs on its own.
Writes(t) ==
    /\ held[t] = writer
    /\ \/ pc[t] = "finish"
       \/ pc[t] \in {"work", "commit"} /\ job[t] \in {"batch", "sync"}

OwnedInv ==
    writer # None => \/ \E k \in Task : call[k] \in OnScope \cup {"inside"} /\ scope[k] = writer
                     \/ \E t \in Thread : Writes(t)

OwnInv == ServedInv /\ InsideInv /\ OwnedInv

\* The end of a job that was not a BEGIN, and that gave back the lock if it had it.
LEMMA OwnReturn ==
    ASSUME DataOK, JobInv, ExclInv, OwnInv, NEW t \in Thread, pc[t] # "idle", Return(t, FALSE),
           open' = open \/ open' = open \ {held[t]},
           \/ writer' = writer /\ ~Writes(t) /\ open' = open
           \/ writer' = Unlocked(held[t]) /\ job[t] # "stmt"
    PROVE  OwnInv'
<1>1. /\ pc'[t] = "idle" /\ job'[t] = "none" /\ held'[t] = None /\ serves'[t] = None
      /\ \A u \in Thread \ {t} : /\ pc'[u] = pc[u] /\ job'[u] = job[u] /\ held'[u] = held[u]
                                 /\ serves'[u] = serves[u]
      /\ \A k \in Task : scope'[k] = scope[k]
      /\ \A k \in Task : call'[k] = IF k # serves[t] THEN call[k]
                                    ELSE IF job[t] = "stmt" THEN "inside" ELSE "idle"
  BY DEF Return, Goto, JobInv, PcOK
<1>2. serves[t] \in Task /\ job[t] = call[serves[t]] /\ job[t] \in Waiting
  BY DEF OwnInv, ServedInv, JobInv, PcOK, PlaceOK, ServesOK
<1>3. ServedInv'
  BY <1>1, <1>2, SqliteAssumption DEF OwnInv, ServedInv, JobInv, PcOK, PlaceOK, ServesOK
<1>4. \A k \in Task : scope[k] = held[t] /\ held[t] # None => job[t] = "stmt"
  BY DEF OwnInv, ServedInv
<1>5. \A k \in Task : scope[k] \in open' => scope'[k] = scope[k] /\ scope[k] \in open /\ scope[k] # None
  BY <1>1, SqliteAssumption DEF DataOK
<1>6. InsideInv'
  BY <1>1, <1>4, <1>5 DEF OwnInv, InsideInv, Unlocked
<1>7. OwnedInv'
  <2> SUFFICES ASSUME writer' # None
               PROVE  \/ \E k \in Task : call'[k] \in OnScope \cup {"inside"} /\ scope'[k] = writer'
                      \/ \E u \in Thread : Writes(u)'
    BY DEF OwnedInv
  <2>1. writer' = writer /\ ~Writes(t)
    BY DEF Unlocked, Writes
  <2>2. CASE \E u \in Thread : Writes(u)
    BY <1>1, <2>1, <2>2 DEF Writes
  <2>3. ASSUME NEW k \in Task, call[k] \in OnScope \cup {"inside"}, scope[k] = writer
        PROVE  call'[k] \in OnScope \cup {"inside"} /\ scope'[k] = writer'
    <3>1. CASE k # serves[t]
      BY <1>1, <2>1, <2>3, <3>1
    <3>2. CASE k = serves[t]
      BY <1>1, <1>2, <2>1, <2>3, <3>2 DEF OwnInv, ServedInv, OnScope, Waiting, Leased
    <3> QED
      BY <3>1, <3>2
  <2> QED
    BY <2>1, <2>2, <2>3 DEF OwnInv, OwnedInv
<1> QED
  BY <1>3, <1>6, <1>7 DEF OwnInv

\* A step within a job that leaves the lock as it is and takes no scope's connection.
LEMMA OwnWithin ==
    ASSUME JobInv, ExclInv, OwnInv, NEW t \in Thread, pc[t] # "idle", pc'[t] # "idle",
           UNCHANGED <<writer, job, serves, call, scope>>,
           \A k \in Task : scope[k] \in open' => scope[k] \in open,
           \A u \in Thread \ {t} : pc'[u] = pc[u] /\ held'[u] = held[u],
           \A k \in Task : scope[k] # None /\ held'[t] = scope[k] => held'[t] = held[t],
           job[t] = "stmt" => held'[t] = held[t],
           pc'[t] = "begin" => job[t] # "query",
           Writes(t) => Writes(t)'
    PROVE  OwnInv'
<1>1. ServedInv'
  BY DEF OwnInv, ServedInv
<1>2. InsideInv'
  BY DEF OwnInv, InsideInv
<1>3. OwnedInv'
  BY DEF OwnInv, OwnedInv, Writes
<1> QED
  BY <1>1, <1>2, <1>3 DEF OwnInv

\* The BEGIN of a scope: its task, which still waits, gets the connection.
LEMMA OwnEnter ==
    ASSUME DataOK, JobInv, ExclInv, OwnInv, NEW t \in Thread, pc[t] = "begin", job[t] = "enter",
           Return(t, TRUE), UNCHANGED open, writer = None, writer' = held[t]
    PROVE  OwnInv'
<1>1. PICK k \in Task : k = serves[t]
  BY DEF OwnInv, ServedInv, JobInv, PcOK
<1>2. call[k] = "enter" /\ held[t] \in Conn
  <2>1. k # None
    BY SqliteAssumption
  <2>2. held[t] # None /\ held[t] \in Conn \cup {None}
    BY DEF JobInv, PcOK
  <2> QED
    BY <1>1, <2>1, <2>2 DEF JobInv, ServesOK
<1>3. /\ pc'[t] = "idle" /\ job'[t] = "none" /\ held'[t] = None /\ serves'[t] = None
      /\ \A u \in Thread \ {t} : /\ pc'[u] = pc[u] /\ job'[u] = job[u] /\ held'[u] = held[u]
                                 /\ serves'[u] = serves[u]
      /\ scope'[k] = held[t] /\ call'[k] = "inside"
      /\ \A j \in Task \ {k} : scope'[j] = scope[j] /\ call'[j] = call[j]
  BY <1>1 DEF Return, Goto, JobInv, PcOK
<1>4. \A u \in Thread \ {t} : held[u] # held[t]
  BY <1>2, SqliteAssumption DEF ExclInv, HolderOK, OnScope
<1>5. \A u \in Thread \ {t} : serves[u] # k
  BY <1>1, SqliteAssumption DEF JobInv, ServesOK
<1>6. ServedInv'
  <2>1. \A u \in Thread : pc'[u] # "idle" => serves'[u] # None
    BY <1>3 DEF OwnInv, ServedInv
  <2>2. ASSUME NEW u \in Thread, NEW j \in Task, scope'[j] # None, held'[u] = scope'[j]
        PROVE  serves'[u] = j /\ job'[u] = "stmt"
    BY <1>3, <1>4, <2>2 DEF OwnInv, ServedInv
  <2>3. ASSUME NEW u \in Thread
        PROVE  /\ job'[u] = "stmt" => held'[u] = scope'[serves'[u]]
               /\ job'[u] \in {"commit", "rollback"} => scope'[serves'[u]] = None
               /\ pc'[u] = "begin" => job'[u] # "query"
    <3>1. CASE u = t
      BY <1>3, <3>1
    <3>2. CASE u # t
      <4>1. job[u] # "none" => serves[u] \in Task \ {k}
        BY <1>5, <3>2 DEF OwnInv, ServedInv, JobInv, PcOK, PlaceOK
      <4> QED
        BY <1>3, <3>2, <4>1 DEF OwnInv, ServedInv
    <3> QED
      BY <3>1, <3>2
  <2> QED
    BY <2>1, <2>2, <2>3 DEF ServedInv
<1>7. InsideInv'
  BY <1>3, SqliteAssumption DEF OwnInv, InsideInv, DataOK
<1>8. OwnedInv'
  BY <1>3 DEF OwnedInv
<1> QED
  BY <1>6, <1>7, <1>8 DEF OwnInv

LEMMA OwnProgress ==
    ASSUME DataOK, JobInv, ExclInv, OwnInv, events' = events, NEW t \in Thread, Progress(t)
    PROVE  OwnInv'
<1> USE SqliteAssumption
<1>1. pc[t] # "idle" /\ ~Event
  <2>1. pc[t] # "idle"
    BY DEF Progress, Lease, Open, Track, Cache, Begin, BusyTimeout, Work, Commit, Finish, Discard
  <2>2. events \in Nat
    BY DEF DataOK
  <2>3. ~Event
    BY <2>2 DEF Event
  <2> QED
    BY <2>1, <2>3
<1>2. CASE Lease(t)
  <2>1. \A k \in Task : scope[k] # None => held'[t] # scope[k] \/ held'[t] = held[t]
    BY <1>2 DEF Lease, Current, JobInv, PcOK, ExclInv, CacheOK
  <2>2. /\ job[t] # "stmt" /\ ~Writes(t)
    BY <1>2 DEF Lease, Writes, JobInv, PlaceOK, Leased
  <2> QED
    BY <1>1, <1>2, <2>1, <2>2, OwnWithin
    DEF Lease, AfterLease, Goto, file, tasks, JobInv, PcOK
<1>3. CASE Open(t)
  <2>1. PICK c \in Fresh : open' = open \cup {c} /\ held' = [held EXCEPT ![t] = c]
    BY <1>1, <1>3 DEF Open
  <2>2. job[t] # "stmt" /\ ~Writes(t)
    BY <1>3 DEF Open, Writes, JobInv, PlaceOK, Leased
  <2>3. \A k \in Task : scope[k] # c
    BY <2>1 DEF Fresh
  <2>4. /\ pc' = [pc EXCEPT ![t] = "track"] /\ UNCHANGED <<writer, job, serves, call, scope>>
    BY <1>1, <1>3 DEF Open, Goto, tasks
  <2> QED
    <3>1. \A k \in Task : scope[k] \in open' => scope[k] \in open
      BY <2>1, <2>3
    <3>2. \A k \in Task : held'[t] # scope[k]
      BY <2>1, <2>3 DEF JobInv, PcOK
    <3>3. \A u \in Thread \ {t} : pc'[u] = pc[u] /\ held'[u] = held[u]
      BY <2>1, <2>4 DEF JobInv, PcOK
    <3>4. pc'[t] = "track"
      BY <2>4 DEF JobInv, PcOK
    <3> QED
      BY <1>1, <2>2, <2>4, <3>1, <3>2, <3>3, <3>4, OwnWithin
<1>4. CASE Track(t) \/ Cache(t)
  <2>1. ~Writes(t) /\ pc'[t] # "idle" /\ UNCHANGED <<open, writer, job, serves, call, scope, held>>
    BY <1>4 DEF Track, Cache, AfterLease, Goto, Writes, JobInv, PcOK, file, tasks
  <2>2. \A u \in Thread \ {t} : pc'[u] = pc[u]
    BY <1>4 DEF Track, Cache, Goto, JobInv, PcOK
  <2>3. pc'[t] = "begin" => job[t] # "query"
    BY <1>4 DEF Track, Cache, AfterLease, Goto, JobInv, PcOK, Leased
  <2> QED
    BY <1>1, <2>1, <2>2, <2>3, OwnWithin
<1>5. CASE Begin(t) \/ BusyTimeout(t)
  <2>1. pc[t] = "begin" /\ ~Writes(t) /\ UNCHANGED open /\ job[t] # "stmt"
    BY <1>5 DEF Begin, BusyTimeout, Writes, file, JobInv, PlaceOK, Leased
  <2>2. CASE BeginRaises(t) /\ UNCHANGED writer
    <3>1. CASE Return(t, FALSE)
      BY <2>1, <2>2, <3>1, OwnReturn
    <3>2. CASE Goto(t, "discard") /\ UNCHANGED <<job, held, serves, tasks>>
      BY <1>1, <2>1, <2>2, <3>2, OwnWithin DEF Goto, tasks, JobInv, PcOK
    <3> QED
      BY <2>2, <3>1, <3>2 DEF BeginRaises
  <2>3. CASE writer = None /\ writer' = held[t] /\ job[t] = "enter" /\ Return(t, TRUE)
    BY <2>1, <2>3, OwnEnter
  <2>4. CASE /\ writer = None /\ writer' = held[t] /\ job[t] # "enter"
             /\ Goto(t, "work") /\ UNCHANGED <<job, held, serves, tasks>>
    <3>1. job[t] \in {"query", "batch", "sync"} /\ pc' = [pc EXCEPT ![t] = "work"]
      BY <2>1, <2>4 DEF JobInv, PlaceOK, Leased, Goto
    <3>2. ServedInv'
      BY <2>1, <2>4, <3>1 DEF OwnInv, ServedInv, tasks, JobInv, PcOK
    <3>3. InsideInv'
      BY <2>1, <2>4 DEF OwnInv, InsideInv, tasks, DataOK
    <3>4. job[t] # "query"
      BY <2>1 DEF OwnInv, ServedInv
    <3>5. OwnedInv'
      BY <2>4, <3>1, <3>4 DEF OwnedInv, Writes, JobInv, PcOK
    <3> QED
      BY <3>2, <3>3, <3>5 DEF OwnInv
  <2> QED
    BY <1>5, <2>2, <2>3, <2>4 DEF Begin, BusyTimeout, file
<1>6. CASE Work(t)
  <2>1. CASE job[t] \in {"query", "stmt"} /\ Return(t, FALSE) /\ UNCHANGED writer
    BY <1>1, <1>6, <2>1, OwnReturn DEF Work, Writes
  <2>2. CASE job[t] \in {"batch", "sync"} /\ Goto(t, "commit") /\ UNCHANGED <<writer, job, held, serves, tasks>>
    <3>1. Writes(t) => Writes(t)'
      BY <1>6, <2>2 DEF Work, Writes, Goto, JobInv, PcOK
    <3> QED
      BY <1>1, <1>6, <2>2, <3>1, OwnWithin DEF Work, Goto, tasks, JobInv, PcOK
  <2>3. CASE job[t] \in {"batch", "sync"} /\ writer' = Unlocked(held[t]) /\ Return(t, FALSE)
    BY <1>1, <1>6, <2>3, OwnReturn DEF Work
  <2> QED
    BY <1>6, <2>1, <2>2, <2>3 DEF Work
<1>7. CASE Commit(t)
  <2>1. job[t] # "stmt"
    BY <1>7 DEF Commit, JobInv, PlaceOK, Leased
  <2> QED
    BY <1>1, <1>7, <2>1, OwnReturn DEF Commit
<1>8. CASE Finish(t)
  <2>1. job[t] # "stmt"
    BY <1>8 DEF Finish, JobInv, PlaceOK
  <2>2. \A k \in Task : scope[k] # held[t] \/ scope[k] = None
    BY <2>1 DEF OwnInv, ServedInv
  <2>3. /\ pc' = [pc EXCEPT ![t] = "discard"] /\ writer' = Unlocked(held[t])
        /\ UNCHANGED <<open, job, held, serves, call, scope>>
    BY <1>8 DEF Finish, Goto, tasks
  <2>4. ServedInv'
    BY <1>1, <2>3 DEF OwnInv, ServedInv, JobInv, PcOK
  <2>5. InsideInv'
    BY <2>2, <2>3 DEF OwnInv, InsideInv, DataOK, Unlocked
  <2>6. OwnedInv'
    BY <2>3 DEF OwnInv, OwnedInv, Unlocked, Writes, JobInv, PcOK
  <2> QED
    BY <2>4, <2>5, <2>6 DEF OwnInv
<1>9. CASE Discard(t)
  <2>1. job[t] # "stmt"
    BY <1>9 DEF Discard, JobInv, PlaceOK
  <2> QED
    BY <1>1, <1>9, <2>1, OwnReturn DEF Discard
<1> QED
  BY <1>2, <1>3, <1>4, <1>5, <1>6, <1>7, <1>8, <1>9 DEF Progress

LEMMA OwnPickUp ==
    ASSUME DataOK, JobInv, ExclInv, OwnInv, NEW t \in Thread, NEW k \in Task, PickUp(t, k)
    PROVE  OwnInv'
<1> USE SqliteAssumption
<1>1. /\ serves'[t] = k /\ job'[t] = call[k] /\ pc[t] = "idle" /\ call' = call
      /\ held'[t] = IF call[k] \in OnScope THEN scope[k] ELSE None
      /\ \A u \in Thread \ {t} : /\ pc'[u] = pc[u] /\ job'[u] = job[u] /\ held'[u] = held[u]
                                 /\ serves'[u] = serves[u] /\ serves[u] # k
      /\ \A j \in Task \ {k} : scope'[j] = scope[j]
      /\ scope'[k] = IF call[k] \in {"commit", "rollback"} THEN None ELSE scope[k]
      /\ call[k] \in {"commit", "rollback"} => pc'[t] = "finish"
      /\ pc'[t] # "begin"
      /\ UNCHANGED <<open, writer>>
  BY DEF PickUp, Goto, JobInv, PcOK, file, OnScope, Leased
<1>2. ServedInv'
  <2>1. \A u \in Thread : pc'[u] # "idle" => serves'[u] # None
    BY <1>1 DEF OwnInv, ServedInv
  <2>2. ASSUME NEW u \in Thread, NEW j \in Task, scope'[j] # None, held'[u] = scope'[j]
        PROVE  serves'[u] = j /\ job'[u] = "stmt"
    <3>1. scope'[j] = scope[j]
      BY <1>1, <2>2
    <3>2. CASE u = t
      BY <1>1, <2>2, <3>1, <3>2 DEF ExclInv, ScopesApart, OnScope
    <3>3. CASE u # t
      BY <1>1, <2>2, <3>1, <3>3 DEF OwnInv, ServedInv
    <3> QED
      BY <3>2, <3>3
  <2>3. ASSUME NEW u \in Thread
        PROVE  /\ job'[u] = "stmt" => held'[u] = scope'[serves'[u]]
               /\ job'[u] \in {"commit", "rollback"} => scope'[serves'[u]] = None
               /\ pc'[u] = "begin" => job'[u] # "query"
    <3>1. CASE u = t
      BY <1>1, <3>1 DEF OnScope
    <3>2. CASE u # t
      <4>1. job[u] # "none" => serves[u] \in Task \ {k}
        BY <1>1, <3>2 DEF OwnInv, ServedInv, JobInv, PcOK, PlaceOK
      <4> QED
        BY <1>1, <3>2, <4>1 DEF OwnInv, ServedInv
    <3> QED
      BY <3>1, <3>2
  <2> QED
    BY <2>1, <2>2, <2>3 DEF ServedInv
<1>3. InsideInv'
  <2>1. None \notin open
    BY DEF DataOK
  <2>2. ASSUME NEW j \in Task, scope'[j] \in open PROVE scope'[j] = scope[j]
    BY <1>1, <2>1, <2>2
  <2> QED
    BY <1>1, <2>2 DEF OwnInv, InsideInv
<1>4. OwnedInv'
  <2> SUFFICES ASSUME writer # None
               PROVE  \/ \E j \in Task : call'[j] \in OnScope \cup {"inside"} /\ scope'[j] = writer'
                      \/ \E u \in Thread : Writes(u)'
    BY <1>1 DEF OwnedInv
  <2>1. ASSUME NEW u \in Thread, Writes(u) PROVE Writes(u)'
    BY <1>1, <2>1 DEF Writes
  <2>2. ASSUME NEW j \in Task, call[j] \in OnScope \cup {"inside"}, scope[j] = writer, scope'[j] # writer
        PROVE  Writes(t)'
    <3>1. j = k /\ call[k] \in {"commit", "rollback"}
      BY <1>1, <2>2
    <3>2. held'[t] = writer /\ pc'[t] = "finish" /\ writer' = writer
      BY <1>1, <2>2, <3>1 DEF OnScope
    <3> QED
      BY <3>2 DEF Writes
  <2> QED
    BY <1>1, <2>1, <2>2 DEF OwnInv, OwnedInv
<1> QED
  BY <1>2, <1>3, <1>4 DEF OwnInv

LEMMA OwnStep ==
    DataOK /\ JobInv /\ ExclInv /\ (events = 0 => OwnInv) /\ [Next]_vars => (events = 0 => OwnInv)'
<1> SUFFICES ASSUME DataOK, JobInv, ExclInv, events = 0 => OwnInv, [Next]_vars, events' = 0
             PROVE  OwnInv'
  OBVIOUS
<1> USE SqliteAssumption
<1>1. events \in Nat
  BY DEF DataOK
<1>2. \A e \in Nat : e + 1 # 0
  OBVIOUS
<1>3. ~Event
  BY <1>1, <1>2 DEF Event
<1>4. UNCHANGED events
  BY <1>3 DEF Next, Call, Continue, Leave, Cancel, PickUp, Progress, Lease, Open, Track, Cache, Begin,
              BusyTimeout, Work, Commit, Finish, Discard, ThreadExit, CloseSwap, CloseOne, bounds, vars
<1>5. OwnInv
  BY <1>4
<1>6. ASSUME NEW k \in Task, NEW op \in Leased \cup {"enter"}, Call(k, op) PROVE OwnInv'
  <2>1. UNCHANGED <<open, writer, pc, job, held, serves, scope>> /\ \A j \in Task \ {k} : call'[j] = call[j]
    BY <1>6 DEF Call, file, threads, JobInv, PcOK
  <2>2. call[k] \notin OnScope \cup {"inside"}
    BY <1>6 DEF Call, OnScope
  <2> QED
    BY <1>5, <2>1, <2>2 DEF OwnInv, ServedInv, InsideInv, OwnedInv, Writes
<1>7. ASSUME NEW k \in Task, NEW op \in OnScope, Continue(k, op) PROVE OwnInv'
  <2>1. /\ UNCHANGED <<open, writer, pc, job, held, serves, scope>>
        /\ call'[k] = op /\ \A j \in Task \ {k} : call'[j] = call[j]
    BY <1>7 DEF Continue, file, threads, JobInv, PcOK
  <2> QED
    BY <1>5, <1>7, <2>1 DEF OwnInv, ServedInv, InsideInv, OwnedInv, Writes
<1>8. ASSUME NEW k \in Task, Cancel(k) PROVE OwnInv'
  BY <1>3, <1>8 DEF Cancel
<1>9. ASSUME NEW t \in Thread, ThreadExit(t) PROVE OwnInv'
  BY <1>3, <1>9 DEF ThreadExit
<1>10. ASSUME NEW c \in Conn, CloseOne(c) PROVE OwnInv'
  <2>1. /\ UNCHANGED <<pc, job, held, serves, call, scope>>
        /\ open' = open \ {c} /\ writer' = Unlocked(c)
    BY <1>10 DEF CloseOne, threads, tasks
  <2> QED
    BY <1>5, <2>1 DEF OwnInv, ServedInv, InsideInv, OwnedInv, Writes, Unlocked
<1>11. CASE CloseSwap \/ UNCHANGED vars
  BY <1>5, <1>11 DEF CloseSwap, vars, file, threads, tasks, OwnInv, ServedInv, InsideInv, OwnedInv, Writes
<1> QED
  BY <1>4, <1>5, <1>6, <1>7, <1>8, <1>9, <1>10, <1>11, OwnProgress, OwnPickUp
  DEF Next, Leave, OnScope

\* Until something is cancelled or fails, or a thread ends, the write lock belongs to
\* an open scope or a running job, a statement of a transaction runs inside it or on a
\* closed connection, and a one-shot statement runs outside every transaction, however
\* many close_sync race with them: the three of which a cancellation or a failed COMMIT
\* makes exceptions (_SqliteTransactionContext, executemany).
THEOREM UndisturbedTransactions ==
    Spec => [](events = 0 => WriteLockIsOwned /\ StatementsStayInside /\ OneShotsAutocommit)
<1>1. Init => (events = 0 => OwnInv)
  BY DEF Init, OwnInv, ServedInv, InsideInv, OwnedInv
<1>2. Spec => [](events = 0 => OwnInv)
  BY <1>1, OwnStep, AlwaysTyped, AlwaysApart, PTL DEF Spec
<1>3. DataOK /\ JobInv /\ ExclInv /\ OwnInv => WriteLockIsOwned /\ StatementsStayInside /\ OneShotsAutocommit
  <2> SUFFICES ASSUME DataOK, JobInv, ExclInv, OwnInv
               PROVE  WriteLockIsOwned /\ StatementsStayInside /\ OneShotsAutocommit
    OBVIOUS
  <2>1. WriteLockIsOwned
    BY DEF OwnInv, OwnedInv, WriteLockIsOwned, Writes
  <2>2. StatementsStayInside
    <3> SUFFICES ASSUME NEW t \in Thread, pc[t] = "work", job[t] = "stmt", held[t] \in open
                 PROVE  writer = held[t]
      BY DEF StatementsStayInside
    <3>1. PICK k \in Task : k = serves[t]
      BY DEF OwnInv, ServedInv, JobInv, PcOK
    <3> QED
      BY <3>1 DEF OwnInv, ServedInv, InsideInv
  <2>3. OneShotsAutocommit
    <3> SUFFICES ASSUME NEW t \in Thread, pc[t] = "work", job[t] = "query", writer = held[t]
                 PROVE  FALSE
      BY DEF OneShotsAutocommit
    <3>1. held[t] # None
      BY DEF JobInv, PcOK
    <3>2. \A k \in Task : scope[k] # writer
      BY <3>1 DEF OwnInv, ServedInv
    <3>3. PICK u \in Thread : Writes(u)
      BY <3>1, <3>2 DEF OwnInv, OwnedInv
    <3>4. u # t
      BY <3>3 DEF Writes
    <3>5. job[t] \in OnScope
      BY <3>1, <3>3, <3>4 DEF Writes, ExclInv, HolderOK
    <3> QED
      BY <3>5 DEF OnScope
  <2> QED
    BY <2>1, <2>2, <2>3
<1> QED
  BY <1>2, <1>3, AlwaysTyped, AlwaysApart, PTL
=============================================================================
