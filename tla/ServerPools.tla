------------------------------- MODULE ServerPools -------------------------------
(***************************************************************************)
(* pyxle_db's server backends, postgresql.py and mysql.py, under the       *)
(* Database facade: a pool of connections made on first use, the calls     *)
(* that take a connection from it, and aclose.  A call is a one-shot       *)
(* statement or a transaction; the body of a transaction may make another  *)
(* call of the same Database and wait for it.  Every await of a call may   *)
(* fail or be cancelled.  The drivers' pools are external: a pool counts   *)
(* the connections it has given out, and closing it waits for them.        *)
(***************************************************************************)
EXTENDS Naturals, FiniteSets

CONSTANTS Call,        \* calls of the Database
          Closer,      \* the task that runs aclose
          PoolMax,     \* bound: pool_max
          MaxPools,    \* bound: pools ever made
          None

ASSUME ServerPoolsAssumption ==
    /\ Closer \notin Call /\ None \notin Call \cup {Closer}
    /\ IsFiniteSet(Call) /\ PoolMax \in Nat \ {0} /\ MaxPools \in Nat

Pools == 1 .. MaxPools

VARIABLES backend,    \* "postgresql" or "mysql"
          size,       \* _pool_max
          connected,  \* Database._connected
          facade,     \* who holds Database._connect_lock
          lock,       \* who holds the backend's _connect_lock
          pool,       \* the backend's _pool; 0: None
          made,       \* pools there have been
          closed,     \* those pool.close() was called on
          out,        \* each pool: its connections given out and not back yet
          returning,  \* those of them whose release went on without its caller
          pc,         \* each call: its next step
          kind,       \* "one_shot" or "transaction"
          mine,       \* the pool it acquires from
          conn,       \* the pool whose connection it holds; 0: none
          begun,      \* calls in a transaction that nothing has tried to end
          inner,      \* the call that its body waits for
          closing,    \* aclose: "idle", "swap", "drain"
          draining,   \* the pool it waits for
          dirty,      \* history: pools that got a connection back with a transaction
                      \* open that nothing tried to end
          raw         \* history: a call has ended with an error of the driver since
                      \* the last began

config == <<backend, size>>
calls == <<pc, kind, mine, conn, begun, inner>>
counts == <<out, returning, dirty>>
locks == <<facade, lock>>
aclose == <<closing, draining>>
vars == <<config, connected, locks, pool, made, closed, counts, calls, aclose, raw>>

Init ==
    /\ backend \in {"postgresql", "mysql"} /\ size \in 1 .. PoolMax
    /\ connected = FALSE /\ facade = None /\ lock = None
    /\ pool = 0 /\ made = 0 /\ closed = {}
    /\ out = [p \in Pools |-> 0] /\ returning = [p \in Pools |-> 0] /\ dirty = {}
    /\ pc = [c \in Call |-> "idle"] /\ kind = [c \in Call |-> "one_shot"]
    /\ mine = [c \in Call |-> 0] /\ conn = [c \in Call |-> 0]
    /\ begun = {} /\ inner = [c \in Call |-> None]
    /\ closing = "idle" /\ draining = 0 /\ raw = FALSE

Holders(p) == {c \in Call : conn[c] = p}
Goto(c, label) == pc' = [pc EXCEPT ![c] = label]
\* A call made by the body of another, whichever way it ends, lets that body go on.
Return(c) ==
    /\ pc' = [d \in Call |-> IF d = c THEN "idle" ELSE IF inner[d] = c THEN "body" ELSE pc[d]]
    /\ inner' = [d \in Call |-> IF inner[d] = c THEN None ELSE inner[d]]
    /\ kind' = [kind EXCEPT ![c] = "one_shot"]
    /\ mine' = [mine EXCEPT ![c] = 0] /\ conn' = [conn EXCEPT ![c] = 0]
    /\ begun' = begun \ {c}
-----------------------------------------------------------------------------
\* Database.connect: nothing to do when it has been done.
Enter(c, k) ==
    /\ kind' = [kind EXCEPT ![c] = k] /\ raw' = FALSE
    /\ pc' = [pc EXCEPT ![c] = IF connected THEN "ensure" ELSE "connect"]

Begin(c, k) ==
    /\ pc[c] = "idle"
    /\ Enter(c, k)
    /\ UNCHANGED <<config, connected, locks, pool, made, closed, counts, mine, conn, begun, inner, aclose>>

\* Database._connect_lock, with the second look at the flag.
TakeFacade(c) ==
    /\ pc[c] = "connect" /\ facade = None
    /\ facade' = IF connected THEN None ELSE c
    /\ Goto(c, "ensure")
    /\ UNCHANGED <<config, connected, lock, pool, made, closed, counts, kind, mine, conn, begun, inner, aclose, raw>>

\* The backend has a pool.  Under the facade's lock that was all connect wanted
\* (the flag is set and the lock released); the call then asks for it itself.
HavePool(c, p) ==
    IF facade = c
    THEN connected' = TRUE /\ facade' = None /\ Goto(c, "ensure") /\ UNCHANGED mine
    ELSE /\ mine' = [mine EXCEPT ![c] = p] /\ Goto(c, "acquire")
         /\ UNCHANGED <<connected, facade>>

\* _ensure_pool, when there is one.
FindPool(c) ==
    /\ pc[c] = "ensure" /\ pool # 0
    /\ HavePool(c, pool)
    /\ UNCHANGED <<config, lock, pool, made, closed, counts, kind, conn, begun, inner, aclose, raw>>

LockFree == lock = None

\* Mutant: the flag is not looked at again under the lock.
NoPool_Unchecked == TRUE
NoPool == pool = 0

\* Otherwise the backend's _connect_lock, a second look, and then create_pool.
TakeLock(c) ==
    /\ pc[c] = "ensure" /\ NoPool /\ LockFree
    /\ lock' = c
    /\ Goto(c, "create")
    /\ UNCHANGED <<config, connected, facade, pool, made, closed, counts, kind, mine, conn, begun, inner, aclose, raw>>

CreatePool(c) ==
    /\ pc[c] = "create" /\ made < MaxPools
    /\ made' = made + 1 /\ pool' = made' /\ lock' = None
    /\ HavePool(c, made')
    /\ UNCHANGED <<config, closed, counts, kind, conn, begun, inner, aclose, raw>>

\* pool.acquire: a free connection, of a pool that is open or that a close waits for.
\* A MySQL connection does not autocommit: a one-shot's first statement begins.
Acquire(c) ==
    /\ pc[c] = "acquire"
    /\ mine[c] \notin closed \/ (closing = "drain" /\ draining = mine[c])
    /\ out[mine[c]] < size
    /\ out' = [out EXCEPT ![mine[c]] = @ + 1]
    /\ conn' = [conn EXCEPT ![c] = mine[c]] /\ mine' = [mine EXCEPT ![c] = 0]
    /\ Goto(c, IF kind[c] = "transaction" THEN "start" ELSE "body")
    /\ begun' = IF kind[c] = "one_shot" /\ backend = "mysql" THEN begun \cup {c} ELSE begun
    /\ UNCHANGED <<config, connected, locks, pool, made, closed, returning, dirty, kind, inner, aclose, raw>>

\* The body of a transaction calls the Database again.
Nest(c, d) ==
    /\ pc[c] = "body" /\ kind[c] = "transaction" /\ pc[d] = "idle" /\ c # d
    /\ kind' = [kind EXCEPT ![d] = "one_shot"]
    /\ pc' = [pc EXCEPT ![c] = "nested", ![d] = IF connected THEN "ensure" ELSE "connect"]
    /\ inner' = [inner EXCEPT ![c] = d] /\ raw' = FALSE
    /\ UNCHANGED <<config, connected, locks, pool, made, closed, counts, mine, conn, begun, aclose>>

-----------------------------------------------------------------------------
\* A step of a call that holds its connection; b: those in a transaction then.
Within(c, label, b) ==
    /\ Goto(c, label) /\ begun' = b
    /\ UNCHANGED <<config, connected, locks, pool, made, closed, counts, kind, mine, conn, inner, aclose, raw>>

\* PostgreSQL's one-shots have no transaction of their own.
Plain(c) == backend = "postgresql" /\ kind[c] = "one_shot"

\* tx.start, or conn.begin.
Start(c) == pc[c] = "start" /\ Within(c, "body", begun \cup {c})

\* Mutant: the transaction is begun before the try block of MySQL's scope.
StartFails_Outside(c) ==
    /\ pc[c] = "start"
    /\ \/ backend = "postgresql" /\ Within(c, "release", begun \ {c})
       \/ /\ backend = "mysql"
          /\ Return(c)
          /\ UNCHANGED <<config, connected, locks, pool, made, closed, counts, aclose, raw>>

\* Only MySQL's is where a failure is rolled back; what a BEGIN that was cut did on
\* PostgreSQL's server is left to the pool, which resets what it takes back.
StartFails(c) ==
    /\ pc[c] = "start"
    /\ Within(c, IF backend = "mysql" THEN "rollback" ELSE "release", begun \ {c})

BodyEnds(c) ==
    /\ pc[c] = "body"
    /\ Within(c, IF Plain(c) THEN "release" ELSE "commit", begun)

\* The body raises, or is cancelled: either is a BaseException.
BodyFails(c) ==
    /\ pc[c] = "body"
    /\ Within(c, IF Plain(c) THEN "release" ELSE "rollback", begun)

Commit(c) == pc[c] = "commit" /\ Within(c, "release", begun \ {c})

\* It fails or is cancelled.  Only MySQL's one-shots commit inside the try block.
CommitFails(c) ==
    /\ pc[c] = "commit"
    /\ Within(c, IF kind[c] = "one_shot" THEN "rollback" ELSE "release", begun \ {c})

Rollback(c) == pc[c] = "rollback" /\ Within(c, "release", begun \ {c})

\* A driver's error is swallowed, a cancellation is not; the finally clause is next.
RollbackFails(c) == pc[c] = "rollback" /\ Within(c, "release", begun \ {c})

\* What a connection goes back with.
Leaves(c) == dirty' = IF c \in begun THEN dirty \cup {conn[c]} ELSE dirty

\* The finally clause: pool.release.
Release(c) ==
    /\ pc[c] = "release"
    /\ out' = [out EXCEPT ![conn[c]] = @ - 1]
    /\ Leaves(c) /\ Return(c)
    /\ UNCHANGED <<config, connected, locks, pool, made, closed, returning, aclose, raw>>

\* PostgreSQL awaits it: the await may raise, and a transaction's scope translates
\* nothing there, or be cancelled.  The pool goes on to take the connection back.
ReleaseCut(c) ==
    /\ pc[c] = "release" /\ backend = "postgresql"
    /\ returning' = [returning EXCEPT ![conn[c]] = @ + 1]
    /\ raw' \in {raw, raw \/ kind[c] = "transaction"}
    /\ Leaves(c) /\ Return(c)
    /\ UNCHANGED <<config, connected, locks, pool, made, closed, out, aclose>>

\* And has taken it back.
TakeBack(p) ==
    /\ returning[p] > 0
    /\ returning' = [returning EXCEPT ![p] = @ - 1] /\ out' = [out EXCEPT ![p] = @ - 1]
    /\ UNCHANGED <<config, connected, locks, pool, made, closed, dirty, calls, aclose, raw>>
-----------------------------------------------------------------------------
\* The awaits no try block surrounds: mysql.py's pool.acquire.
Leaks == backend = "mysql"

\* The server refuses a connection, or the pool has been closed.
AcquireFails(c) ==
    /\ pc[c] = "acquire"
    /\ raw' = (raw \/ Leaks)
    /\ Return(c)
    /\ UNCHANGED <<config, connected, locks, pool, made, closed, counts, aclose>>

\* create_pool fails, translated, or the call is cancelled: the locks it holds
\* are released with their context managers.
Fail(c) ==
    /\ pc[c] \in {"connect", "ensure", "create", "acquire"}
    /\ lock' = (IF lock = c THEN None ELSE lock)
    /\ facade' = (IF facade = c THEN None ELSE facade)
    /\ Return(c)
    /\ UNCHANGED <<config, connected, pool, made, closed, counts, aclose, raw>>
-----------------------------------------------------------------------------
\* aclose.  PostgreSQL's takes the backend's _connect_lock for all of it.
AcloseBegin ==
    /\ closing = "idle"
    /\ closing' = "swap"
    /\ UNCHANGED <<config, connected, locks, pool, made, closed, counts, calls, draining, raw>>

AcloseSwap ==
    /\ closing = "swap"
    /\ backend = "postgresql" => lock = None
    /\ IF pool = 0
       THEN closing' = "idle" /\ connected' = FALSE /\ UNCHANGED <<lock, closed, draining>>
       ELSE /\ closing' = "drain" /\ draining' = pool /\ closed' = closed \cup {pool}
            /\ lock' = (IF backend = "postgresql" THEN Closer ELSE lock)
            /\ UNCHANGED connected
    /\ pool' = 0
    /\ UNCHANGED <<config, facade, made, counts, calls, raw>>

\* pool.close() or wait_closed(), which wait for the connections in use.
AcloseDrain ==
    /\ closing = "drain" /\ out[draining] = 0
    /\ closing' = "idle" /\ draining' = 0 /\ connected' = FALSE
    /\ lock' = (IF lock = Closer THEN None ELSE lock)
    /\ UNCHANGED <<config, facade, pool, made, closed, counts, calls, raw>>

Connect(c) == TakeFacade(c) \/ FindPool(c) \/ TakeLock(c) \/ CreatePool(c)
Work(c) == Start(c) \/ BodyEnds(c) \/ Commit(c) \/ Rollback(c) \/ Release(c)
Mishap(c) ==
    \/ AcquireFails(c) \/ Fail(c)
    \/ StartFails(c) \/ BodyFails(c) \/ CommitFails(c) \/ RollbackFails(c) \/ ReleaseCut(c)

\* What a call does when nothing goes wrong that need not: a closed pool refuses it
\* once it has a connection free, or none to wait for.
Progress(c) ==
    \/ Connect(c) \/ Acquire(c) \/ Work(c)
    \/ pc[c] = "acquire" /\ mine[c] \in closed /\ out[mine[c]] < size /\ AcquireFails(c)
    \/ pc[c] = "create" /\ made = MaxPools /\ Fail(c)

Next ==
    \/ \E c \in Call :
         \/ \E k \in {"one_shot", "transaction"} : Begin(c, k)
         \/ \E d \in Call : Nest(c, d)
         \/ Connect(c) \/ Acquire(c) \/ Work(c) \/ Mishap(c)
    \/ \E p \in Pools : TakeBack(p)
    \/ AcloseBegin \/ AcloseSwap \/ AcloseDrain

\* Tasks run, statements and connection attempts end; what waits for a lock or
\* a connection gets it when it keeps coming free (both queue their waiters).
\* Nobody need be cancelled; a body calls again, but not for ever.  Past the bound on
\* pools create_pool fails.
Fairness ==
    /\ \A c \in Call : SF_vars(Progress(c))
    /\ \A p \in Pools : WF_vars(TakeBack(p))
    /\ SF_vars(AcloseSwap \/ AcloseDrain)

Spec == Init /\ [][Next]_vars /\ Fairness
-----------------------------------------------------------------------------
PC == {"idle", "connect", "ensure", "create", "acquire",
       "start", "body", "nested", "commit", "rollback", "release"}
\* Where a call has a connection.
Holding == {"start", "body", "nested", "commit", "rollback", "release"}

\* Variables have their types; a lock's holder is at the step that needs it.
TypeOK ==
    /\ backend \in {"postgresql", "mysql"} /\ size \in 1 .. PoolMax /\ connected \in BOOLEAN
    /\ facade \in Call \cup {None} /\ lock \in Call \cup {Closer, None}
    /\ pool \in 0 .. made /\ made \in 0 .. MaxPools /\ closed \subseteq 1 .. made
    /\ out \in [Pools -> Nat] /\ returning \in [Pools -> Nat] /\ dirty \subseteq Pools
    /\ pc \in [Call -> PC] /\ kind \in [Call -> {"one_shot", "transaction"}]
    /\ mine \in [Call -> 0 .. made] /\ conn \in [Call -> 0 .. made]
    /\ begun \subseteq Call /\ inner \in [Call -> Call \cup {None}]
    /\ closing \in {"idle", "swap", "drain"} /\ draining \in 0 .. made /\ raw \in BOOLEAN
    /\ \A c \in Call : (lock = c) <=> (pc[c] = "create")

\* However many calls come first together, and whoever closes meanwhile, the
\* backend never loses a pool: one that is open is the one it knows, so a later
\* aclose closes it (_ensure_pool and aclose of either backend).
NoPoolLost == \A p \in 1 .. made : p \in closed \/ p = pool

\* Wherever a call fails or is cancelled (BEGIN, body, COMMIT, ROLLBACK, release),
\* its connection goes back to its pool, once: what a pool counts as given out is
\* with a call that is under way, or on its way back.  And none goes back with a
\* transaction that nothing tried to end (the finally clauses; "released in all
\* cases", "always release", "so the connection re-enters the pool clean", mysql.py).
ConnectionsComeBack ==
    /\ \A p \in Pools : out[p] = Cardinality(Holders(p)) + returning[p]
    /\ dirty = {}

\* Stated, and broken by MySQL's acquire and PostgreSQL's release: "Every error
\* raised crosses the boundary as a pyxle_db.errors type" (contract rule 1).
DriverErrorsNeverLeak == ~raw

\* Stated, and broken on PostgreSQL by a transaction whose body calls again: it
\* waits for the lock that aclose holds while it waits for the transaction
\* ("Release every connection. Works on every backend", Database.aclose).
AcloseReturns == (closing # "idle") ~> (closing = "idle")

\* Every connection of a pool is with a body that waits for a call which waits for a
\* connection of the same pool: nothing but a cancellation ends that.
Exhausted ==
    \E p \in Pools :
        /\ Cardinality(Holders(p)) = size
        /\ \A c \in Holders(p) : /\ pc[c] = "nested" /\ pc[inner[c]] = "acquire"
                                 /\ mine[inner[c]] = p

\* On MySQL aclose returns, whatever calls and bodies do meanwhile, unless a pool is
\* exhausted by bodies that call again.
MysqlAcloseReturns ==
    (backend = "mysql" /\ closing # "idle") ~> (closing = "idle" \/ Exhausted)
=============================================================================
