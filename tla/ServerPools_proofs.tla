--------------------------- MODULE ServerPools_proofs ---------------------------
(***************************************************************************)
(* Proofs about ServerPools, for any number of calls, any size of a pool   *)
(* and any number of pools made.  The inductive invariant says why two     *)
(* calls never make a pool each (whoever creates one holds the lock, and   *)
(* there is none while it does), and at which steps a call has a           *)
(* connection and a transaction, so that every way out gives them back.    *)
(***************************************************************************)
EXTENDS ServerPools, FiniteSetTheorems, TLAPS

\* Where a call stands: it creates a pool only while there is none, waits for another
\* call in its body only, has a connection between acquire and release, a transaction
\* before it commits or rolls back, and PostgreSQL's one-shots have none.
Sound(c) ==
    /\ pc[c] = "create" => pool = 0
    /\ inner[c] # None => pc[c] = "nested"
    /\ conn[c] # 0 <=> pc[c] \in Holding
    /\ pc[c] = "acquire" => mine[c] # 0
    /\ pc[c] = "start" => kind[c] = "transaction"
    /\ c \in begun => pc[c] \in {"body", "nested", "commit", "rollback"} /\ ~Plain(c)

\* A pool that has given out connections has been made.
InUseWasMade == \A p \in Pools : out[p] # 0 => p <= made

IInv ==
    /\ TypeOK
    /\ \A c \in Call : Sound(c)
    /\ InUseWasMade
    /\ NoPoolLost
    /\ ConnectionsComeBack

\* The numbers of pools are numbers.
LEMMA PoolNumbers ==
    ASSUME TypeOK
    PROVE  /\ made \in Nat /\ MaxPools \in Nat /\ made <= MaxPools
           /\ pool \in Nat /\ pool <= made /\ (pool # 0 => pool \in 1 .. made)
           /\ \A n \in 0 .. made : n # 0 => n \in Pools
BY ServerPoolsAssumption DEF TypeOK, Pools

\* There are finitely many holders of a pool.
LEMMA HoldersFinite ==
    ASSUME NEW p PROVE IsFiniteSet(Holders(p)) /\ Cardinality(Holders(p)) \in Nat
<1>1. Holders(p) \subseteq Call
  BY DEF Holders
<1> QED
  BY <1>1, ServerPoolsAssumption, FS_Subset, FS_CardinalityType

\* What a call does to connections and counts when it touches none.
LEMMA CountsFrame ==
    ASSUME ConnectionsComeBack, UNCHANGED <<conn, out, returning, dirty>>
    PROVE  ConnectionsComeBack'
<1>1. \A p \in Pools : Holders(p)' = Holders(p)
  BY DEF Holders
<1> QED
  BY <1>1 DEF ConnectionsComeBack

LEMMA Initially == Init => IInv
<1> SUFFICES ASSUME Init PROVE IInv
  OBVIOUS
<1>1. TypeOK
  <2>1. \A c \in Call : (lock = c) <=> (pc[c] = "create")
    BY ServerPoolsAssumption DEF Init
  <2>2. /\ pc \in [Call -> PC] /\ begun \subseteq Call
        /\ kind \in [Call -> {"one_shot", "transaction"}] /\ inner \in [Call -> Call \cup {None}]
    BY DEF Init, PC
  <2>3. pool \in 0 .. made /\ made \in 0 .. MaxPools /\ draining \in 0 .. made
    BY ServerPoolsAssumption DEF Init
  <2>4. mine \in [Call -> 0 .. made] /\ conn \in [Call -> 0 .. made]
    BY DEF Init
  <2>5. /\ backend \in {"postgresql", "mysql"} /\ connected \in BOOLEAN /\ size \in 1 .. PoolMax
        /\ facade \in Call \cup {None} /\ lock \in Call \cup {Closer, None}
        /\ closed \subseteq 1 .. made /\ closing \in {"idle", "swap", "drain"} /\ raw \in BOOLEAN
        /\ out \in [Pools -> Nat] /\ returning \in [Pools -> Nat] /\ dirty \subseteq Pools
    BY DEF Init
  <2> QED
    BY <2>1, <2>2, <2>3, <2>4, <2>5 DEF TypeOK
<1>2. (\A c \in Call : Sound(c)) /\ InUseWasMade /\ NoPoolLost
  BY DEF Init, Sound, Holding, InUseWasMade, NoPoolLost
<1>3. ConnectionsComeBack
  <2>1. \A p \in Pools : Holders(p) = {}
    BY DEF Init, Holders, Pools
  <2> QED
    BY <2>1, FS_EmptySet DEF Init, ConnectionsComeBack
<1> QED
  BY <1>1, <1>2, <1>3 DEF IInv

\* A call that is over leaves the others where they are, but for the body that
\* waited for it.
LEMMA Returned ==
    ASSUME TypeOK, \A d \in Call : Sound(d), NEW c \in Call, pc[c] # "nested", Return(c)
    PROVE  /\ pc' \in [Call -> PC] /\ begun' \subseteq Call
           /\ kind' \in [Call -> {"one_shot", "transaction"}]
           /\ mine' \in [Call -> 0 .. made] /\ conn' \in [Call -> 0 .. made]
           /\ inner' \in [Call -> Call \cup {None}]
           /\ pc'[c] = "idle" /\ conn'[c] = 0 /\ inner'[c] = None /\ c \notin begun'
           /\ \A d \in Call \ {c} :
                /\ conn'[d] = conn[d] /\ kind'[d] = kind[d] /\ mine'[d] = mine[d]
                /\ d \in begun' <=> d \in begun
                /\ \/ pc'[d] = pc[d] /\ inner'[d] = inner[d]
                   \/ pc[d] = "nested" /\ pc'[d] = "body" /\ inner'[d] = None
<1>1. inner[c] = None
  BY DEF Sound
<1>2. inner[c] # c
  BY <1>1, ServerPoolsAssumption
<1>3. pc' \in [Call -> PC]
  BY DEF Return, TypeOK, PC
<1>4. \A d \in Call : inner[d] = c => pc[d] = "nested"
  BY ServerPoolsAssumption DEF Sound
<1>5. /\ pc'[c] = "idle"
      /\ \A d \in Call \ {c} : pc'[d] = IF inner[d] = c THEN "body" ELSE pc[d]
  BY DEF Return
<1>6. /\ inner' \in [Call -> Call \cup {None}]
      /\ \A d \in Call : inner'[d] = IF inner[d] = c THEN None ELSE inner[d]
  BY DEF Return, TypeOK
<1>7. /\ begun' \subseteq Call
      /\ kind' \in [Call -> {"one_shot", "transaction"}]
      /\ mine' \in [Call -> 0 .. made] /\ conn' \in [Call -> 0 .. made]
      /\ conn'[c] = 0 /\ c \notin begun'
      /\ \A d \in Call \ {c} :
           /\ conn'[d] = conn[d] /\ kind'[d] = kind[d] /\ mine'[d] = mine[d]
           /\ d \in begun' <=> d \in begun
  <2>1. 0 \in 0 .. made
    BY PoolNumbers
  <2> QED
    BY <2>1 DEF Return, TypeOK
<1> QED
  BY <1>1, <1>2, <1>3, <1>4, <1>5, <1>6, <1>7

\* A call that a step leaves alone stands where it stood.
LEMMA SoundFrame ==
    ASSUME NEW d \in Call, Sound(d), pc[d] = "create" => pool' = pool,
           pc'[d] = pc[d], inner'[d] = inner[d], conn'[d] = conn[d], mine'[d] = mine[d],
           kind'[d] = kind[d], d \in begun' <=> d \in begun, backend' = backend
    PROVE  Sound(d)'
BY DEF Sound, Plain

\* Of the invariant, what speaks of pools and counts, when those are left alone.
LEMMA PoolsFrame ==
    ASSUME IInv, UNCHANGED <<pool, made, closed, counts, conn>>
    PROVE  InUseWasMade' /\ NoPoolLost' /\ ConnectionsComeBack'
BY CountsFrame DEF IInv, counts, InUseWasMade, NoPoolLost

LEMMA BeginStep ==
    ASSUME IInv, NEW c \in Call, NEW k \in {"one_shot", "transaction"}, Begin(c, k) PROVE IInv'
<1>1. /\ pc[c] = "idle" /\ pc' = [pc EXCEPT ![c] = IF connected THEN "ensure" ELSE "connect"]
      /\ kind' = [kind EXCEPT ![c] = k] /\ raw' = FALSE
      /\ UNCHANGED <<backend, size, connected, facade, lock, pool, made, closed, counts, out, returning,
                     dirty, mine, conn, begun, inner, closing, draining>>
  BY DEF Begin, Enter, config, locks, counts, aclose
<1>2. TypeOK /\ Sound(c)
  BY DEF IInv
<1>3. TypeOK'
  BY <1>1, <1>2 DEF TypeOK, PC
<1>4. Sound(c)'
  BY <1>1, <1>2 DEF Sound, TypeOK, Holding
<1>5. ASSUME NEW d \in Call \ {c} PROVE Sound(d)'
  BY <1>1, <1>2, SoundFrame DEF IInv, TypeOK
<1> QED
  BY <1>1, <1>3, <1>4, <1>5, PoolsFrame DEF IInv

LEMMA NestStep ==
    ASSUME IInv, NEW c \in Call, NEW d \in Call, Nest(c, d) PROVE IInv'
<1>1. /\ pc[c] = "body" /\ kind[c] = "transaction" /\ pc[d] = "idle" /\ c # d
      /\ pc' = [pc EXCEPT ![c] = "nested", ![d] = IF connected THEN "ensure" ELSE "connect"]
      /\ kind' = [kind EXCEPT ![d] = "one_shot"] /\ raw' = FALSE /\ inner' = [inner EXCEPT ![c] = d]
      /\ UNCHANGED <<backend, size, connected, facade, lock, pool, made, closed, counts, out, returning,
                     dirty, mine, conn, begun, closing, draining>>
  BY DEF Nest, config, locks, counts, aclose
<1>2. TypeOK /\ Sound(c) /\ Sound(d)
  BY DEF IInv
<1>3. TypeOK'
  BY <1>1, <1>2 DEF TypeOK, PC
<1>4. Sound(c)' /\ Sound(d)'
  BY <1>1, <1>2, ServerPoolsAssumption DEF Sound, TypeOK, Holding, Plain
<1>5. ASSUME NEW e \in Call \ {c, d} PROVE Sound(e)'
  BY <1>1, <1>2, SoundFrame DEF IInv, TypeOK
<1> QED
  BY <1>1, <1>3, <1>4, <1>5, PoolsFrame DEF IInv

LEMMA TakeFacadeStep ==
    ASSUME IInv, NEW c \in Call, TakeFacade(c) PROVE IInv'
<1>1. /\ pc[c] = "connect" /\ pc' = [pc EXCEPT ![c] = "ensure"] /\ facade' \in Call \cup {None}
      /\ UNCHANGED <<backend, size, connected, lock, pool, made, closed, counts, out, returning, dirty,
                     kind, mine, conn, begun, inner, closing, draining, raw>>
  BY DEF TakeFacade, Goto, config, counts, aclose
<1>2. TypeOK /\ Sound(c)
  BY DEF IInv
<1>3. TypeOK'
  BY <1>1, <1>2 DEF TypeOK, PC
<1>4. Sound(c)'
  BY <1>1, <1>2 DEF Sound, TypeOK, Holding
<1>5. ASSUME NEW d \in Call \ {c} PROVE Sound(d)'
  BY <1>1, <1>2, SoundFrame DEF IInv, TypeOK
<1> QED
  BY <1>1, <1>3, <1>4, <1>5, PoolsFrame DEF IInv

\* What the two ways to a pool share: the call asks for the pool once more or waits
\* for a connection of it.
LEMMA HavePoolMoves ==
    ASSUME TypeOK, NEW c \in Call, NEW p \in Nat, HavePool(c, p)
    PROVE  /\ pc' \in [Call -> PC] /\ \A d \in Call \ {c} : pc'[d] = pc[d] /\ mine'[d] = mine[d]
           /\ \/ pc'[c] = "ensure" /\ mine' = mine
              \/ pc'[c] = "acquire" /\ mine' = [mine EXCEPT ![c] = p]
           /\ connected' \in BOOLEAN /\ facade' \in Call \cup {None}
BY DEF HavePool, Goto, TypeOK, PC

LEMMA FindPoolStep ==
    ASSUME IInv, NEW c \in Call, FindPool(c) PROVE IInv'
<1>1. /\ pc[c] = "ensure" /\ pool # 0 /\ HavePool(c, pool)
      /\ UNCHANGED <<backend, size, lock, pool, made, closed, counts, out, returning, dirty,
                     kind, conn, begun, inner, closing, draining, raw>>
  BY DEF FindPool, config, counts, aclose
<1>2. TypeOK /\ Sound(c) /\ pool \in Nat /\ pool \in 1 .. made
  BY <1>1, PoolNumbers DEF IInv
<1>3. /\ pc' \in [Call -> PC] /\ \A d \in Call \ {c} : pc'[d] = pc[d] /\ mine'[d] = mine[d]
      /\ \/ pc'[c] = "ensure" /\ mine' = mine
         \/ pc'[c] = "acquire" /\ mine' = [mine EXCEPT ![c] = pool]
      /\ connected' \in BOOLEAN /\ facade' \in Call \cup {None}
  BY <1>1, <1>2, HavePoolMoves
<1>4. mine' \in [Call -> 0 .. made] /\ (pc'[c] = "acquire" => mine'[c] # 0)
  BY <1>1, <1>2, <1>3 DEF TypeOK
<1>5. \A d \in Call : (lock' = d) <=> (pc'[d] = "create")
  BY <1>1, <1>2, <1>3 DEF TypeOK
<1>6. TypeOK'
  BY <1>1, <1>2, <1>3, <1>4, <1>5 DEF TypeOK
<1>7. Sound(c)'
  BY <1>1, <1>2, <1>3, <1>4 DEF Sound, Holding
<1>8. ASSUME NEW d \in Call \ {c} PROVE Sound(d)'
  BY <1>1, <1>3, SoundFrame DEF IInv
<1> QED
  BY <1>1, <1>6, <1>7, <1>8, PoolsFrame DEF IInv

LEMMA TakeLockStep ==
    ASSUME IInv, NEW c \in Call, TakeLock(c) PROVE IInv'
<1>1. /\ pool = 0 /\ lock = None /\ lock' = c /\ pc[c] = "ensure"
      /\ pc' = [pc EXCEPT ![c] = "create"]
      /\ UNCHANGED <<backend, size, connected, facade, pool, made, closed, counts, out, returning, dirty,
                     kind, mine, conn, begun, inner, closing, draining, raw>>
  BY DEF TakeLock, NoPool, LockFree, Goto, config, counts, aclose
<1>2. TypeOK /\ Sound(c)
  BY DEF IInv
<1>3. pc' \in [Call -> PC] /\ pc'[c] = "create" /\ \A d \in Call \ {c} : pc'[d] = pc[d]
  BY <1>1, <1>2 DEF TypeOK, PC
<1>4. \A d \in Call : (lock' = d) <=> (pc'[d] = "create")
  BY <1>1, <1>2, <1>3, ServerPoolsAssumption DEF TypeOK
<1>5. TypeOK'
  BY <1>1, <1>2, <1>3, <1>4 DEF TypeOK
<1>6. Sound(c)'
  BY <1>1, <1>2, <1>3 DEF Sound, Holding
<1>7. ASSUME NEW d \in Call \ {c} PROVE Sound(d)'
  BY <1>1, <1>3, SoundFrame DEF IInv
<1> QED
  BY <1>1, <1>5, <1>6, <1>7, PoolsFrame DEF IInv

LEMMA CreatePoolStep ==
    ASSUME IInv, NEW c \in Call, CreatePool(c) PROVE IInv'
<1>1. /\ pc[c] = "create" /\ lock' = None /\ made < MaxPools
      /\ made' = made + 1 /\ pool' = made' /\ HavePool(c, made')
      /\ UNCHANGED <<backend, size, closed, counts, out, returning, dirty,
                     kind, conn, begun, inner, closing, draining, raw>>
  BY DEF CreatePool, config, counts, aclose
<1>2. /\ TypeOK /\ Sound(c) /\ pool = 0 /\ lock = c /\ made \in Nat /\ MaxPools \in Nat
      /\ made' \in 1 .. MaxPools /\ made' \in Nat
  BY <1>1, PoolNumbers DEF IInv, TypeOK, Sound
<1>3. /\ pc' \in [Call -> PC] /\ \A d \in Call \ {c} : pc'[d] = pc[d] /\ mine'[d] = mine[d]
      /\ \/ pc'[c] = "ensure" /\ mine' = mine
         \/ pc'[c] = "acquire" /\ mine' = [mine EXCEPT ![c] = made']
      /\ connected' \in BOOLEAN /\ facade' \in Call \cup {None}
  BY <1>1, <1>2, HavePoolMoves
<1>4. \A d \in Call \ {c} : pc[d] # "create"
  BY <1>2 DEF TypeOK
<1>5. TypeOK'
  <2>1. mine' \in [Call -> 0 .. made']
    BY <1>1, <1>2, <1>3 DEF TypeOK
  <2>2. conn' \in [Call -> 0 .. made']
    BY <1>1, <1>2 DEF TypeOK
  <2>3. \A d \in Call : (lock' = d) <=> (pc'[d] = "create")
    BY <1>1, <1>3, <1>4, ServerPoolsAssumption
  <2>4. pool' \in 0 .. made' /\ made' \in 0 .. MaxPools
    BY <1>1, <1>2
  <2>5. closed' \subseteq 1 .. made' /\ draining' \in 0 .. made'
    BY <1>1, <1>2 DEF TypeOK
  <2>6. lock' \in Call \cup {Closer, None}
    BY <1>1
  <2> QED
    BY <1>1, <1>2, <1>3, <2>1, <2>2, <2>3, <2>4, <2>5, <2>6 DEF TypeOK
<1>6. Sound(c)'
  BY <1>1, <1>2, <1>3 DEF Sound, Holding, TypeOK
<1>7. ASSUME NEW d \in Call \ {c} PROVE Sound(d)'
  BY <1>1, <1>3, <1>4, SoundFrame DEF IInv
<1>8. NoPoolLost'
  BY <1>1, <1>2 DEF IInv, NoPoolLost, TypeOK
<1>9. InUseWasMade' /\ ConnectionsComeBack'
  BY <1>1, <1>2, CountsFrame DEF IInv, InUseWasMade, Pools
<1> QED
  BY <1>5, <1>6, <1>7, <1>8, <1>9 DEF IInv

LEMMA AcquireStep ==
    ASSUME IInv, NEW c \in Call, Acquire(c) PROVE IInv'
<1> DEFINE label == IF kind[c] = "transaction" THEN "start" ELSE "body"
<1>0. PICK p \in Pools : p = mine[c] /\ p \in 0 .. made
  BY PoolNumbers DEF Acquire, IInv, TypeOK, Sound
<1>1. /\ pc[c] = "acquire" /\ pc' = [pc EXCEPT ![c] = label]
      /\ out' = [out EXCEPT ![p] = @ + 1] /\ conn' = [conn EXCEPT ![c] = p]
      /\ mine' = [mine EXCEPT ![c] = 0]
      /\ begun' = IF kind[c] = "one_shot" /\ backend = "mysql" THEN begun \cup {c} ELSE begun
      /\ UNCHANGED <<backend, size, connected, facade, lock, pool, made, closed, returning, dirty,
                     kind, inner, closing, draining, raw>>
  BY <1>0 DEF Acquire, Goto, config, locks, aclose
<1>2. TypeOK /\ Sound(c)
  BY DEF IInv
<1>3. p \in 0 .. made /\ p # 0 /\ p \in Pools /\ p <= made
  BY <1>0, <1>2, PoolNumbers DEF Pools
<1>4. conn[c] = 0 /\ inner[c] = None /\ c \notin begun
  BY <1>1, <1>2 DEF Sound, Holding, TypeOK
<1>5. TypeOK'
  <2>1. pc' \in [Call -> PC] /\ \A d \in Call : (lock' = d) <=> (pc'[d] = "create")
    BY <1>1, <1>2 DEF TypeOK, PC
  <2>2. out' \in [Pools -> Nat]
    BY <1>1, <1>2, <1>3 DEF TypeOK
  <2>3. conn' \in [Call -> 0 .. made'] /\ mine' \in [Call -> 0 .. made'] /\ begun' \subseteq Call
    BY <1>1, <1>2, <1>3, PoolNumbers DEF TypeOK
  <2> QED
    BY <1>1, <1>2, <2>1, <2>2, <2>3 DEF TypeOK
<1>6. Sound(c)'
  BY <1>1, <1>2, <1>3, <1>4 DEF Sound, Holding, TypeOK, Plain
<1>7. ASSUME NEW d \in Call \ {c} PROVE Sound(d)'
  BY <1>1, <1>2, SoundFrame DEF IInv, TypeOK
<1>8. InUseWasMade' /\ NoPoolLost'
  BY <1>1, <1>2, <1>3 DEF IInv, InUseWasMade, NoPoolLost, TypeOK
<1>9. ConnectionsComeBack'
  <2>1. Holders(p)' = Holders(p) \cup {c} /\ c \notin Holders(p)
    BY <1>1, <1>2, <1>3, <1>4 DEF Holders, TypeOK
  <2>2. Cardinality(Holders(p)') = Cardinality(Holders(p)) + 1
    BY <2>1, HoldersFinite, FS_AddElement
  <2>3. \A q \in Pools : q # p => Holders(q)' = Holders(q)
    BY <1>1, <1>2, <1>4 DEF Holders, TypeOK, Pools
  <2>4. out'[p] = out[p] + 1 /\ \A q \in Pools : q # p => out'[q] = out[q]
    BY <1>1, <1>2, <1>3 DEF TypeOK
  <2>5. out[p] = Cardinality(Holders(p)) + returning[p] /\ out[p] \in Nat /\ returning[p] \in Nat
    BY <1>2, <1>3 DEF IInv, ConnectionsComeBack, TypeOK
  <2>6. out'[p] = Cardinality(Holders(p)') + returning'[p]
    BY <1>1, <2>2, <2>4, <2>5, HoldersFinite
  <2>7. ASSUME NEW q \in Pools, q # p PROVE out'[q] = Cardinality(Holders(q)') + returning'[q]
    BY <1>1, <2>3, <2>4, <2>7 DEF IInv, ConnectionsComeBack
  <2>8. \A q \in Pools : out'[q] = Cardinality(Holders(q)') + returning'[q]
    BY <2>6, <2>7
  <2>9. dirty' = {}
    BY <1>1 DEF IInv, ConnectionsComeBack
  <2> QED
    BY <2>8, <2>9 DEF ConnectionsComeBack
<1> QED
  BY <1>5, <1>6, <1>7, <1>8, <1>9 DEF IInv

\* A step of a call that holds its connection keeps it.
LEMMA WithinStep ==
    ASSUME IInv, NEW c \in Call, pc[c] \in {"start", "body", "commit", "rollback"},
           NEW label \in {"body", "commit", "rollback", "release"}, NEW b, Within(c, label, b),
           b \subseteq begun \cup {c}, begun \ {c} \subseteq b,
           c \in b => label # "release" /\ ~Plain(c)
    PROVE  IInv'
<1>1. /\ pc' = [pc EXCEPT ![c] = label] /\ begun' = b
      /\ UNCHANGED <<backend, size, connected, facade, lock, pool, made, closed, counts, out, returning,
                     dirty, kind, mine, conn, inner, closing, draining, raw>>
  BY DEF Within, Goto, config, locks, counts, aclose
<1>2. TypeOK /\ Sound(c)
  BY DEF IInv
<1>3. TypeOK'
  <2>1. pc' \in [Call -> PC] /\ \A d \in Call : (lock' = d) <=> (pc'[d] = "create")
    BY <1>1, <1>2 DEF TypeOK, PC
  <2>2. begun' \subseteq Call
    BY <1>1, <1>2 DEF TypeOK
  <2> QED
    BY <1>1, <1>2, <2>1, <2>2 DEF TypeOK
<1>4. Sound(c)'
  BY <1>1, <1>2 DEF Sound, Holding, TypeOK, Plain
<1>5. ASSUME NEW d \in Call \ {c} PROVE Sound(d)'
  BY <1>1, <1>2, SoundFrame DEF IInv, TypeOK
<1> QED
  BY <1>1, <1>3, <1>4, <1>5, PoolsFrame DEF IInv

\* BEGIN, body, COMMIT and ROLLBACK, and the failure of each.
LEMMA ScopeStep ==
    ASSUME IInv, NEW c \in Call,
           \/ Start(c) \/ StartFails(c) \/ BodyEnds(c) \/ BodyFails(c)
           \/ Commit(c) \/ CommitFails(c) \/ Rollback(c) \/ RollbackFails(c)
    PROVE  IInv'
<1>1. Sound(c)
  BY DEF IInv
<1>2. CASE Start(c)
  <2>1. pc[c] = "start" /\ ~Plain(c) /\ Within(c, "body", begun \cup {c})
    BY <1>1, <1>2 DEF Start, Sound, Plain
  <2> QED
    BY <2>1, WithinStep
<1>3. CASE StartFails(c)
  <2>1. /\ pc[c] = "start"
        /\ Within(c, "rollback", begun \ {c}) \/ Within(c, "release", begun \ {c})
    BY <1>3 DEF StartFails
  <2> QED
    BY <2>1, WithinStep
<1>4. CASE BodyEnds(c)
  <2>1. /\ pc[c] = "body" /\ (c \in begun => ~Plain(c))
        /\ \/ Plain(c) /\ Within(c, "release", begun)
           \/ ~Plain(c) /\ Within(c, "commit", begun)
    BY <1>1, <1>4 DEF BodyEnds, Sound
  <2> QED
    BY <2>1, WithinStep
<1>5. CASE BodyFails(c)
  <2>1. /\ pc[c] = "body" /\ (c \in begun => ~Plain(c))
        /\ \/ Plain(c) /\ Within(c, "release", begun)
           \/ ~Plain(c) /\ Within(c, "rollback", begun)
    BY <1>1, <1>5 DEF BodyFails, Sound
  <2> QED
    BY <2>1, WithinStep
<1>6. CASE Commit(c) \/ Rollback(c) \/ RollbackFails(c)
  <2>1. pc[c] \in {"commit", "rollback"} /\ Within(c, "release", begun \ {c})
    BY <1>6 DEF Commit, Rollback, RollbackFails
  <2> QED
    BY <2>1, WithinStep
<1>7. CASE CommitFails(c)
  <2>1. /\ pc[c] = "commit"
        /\ Within(c, "rollback", begun \ {c}) \/ Within(c, "release", begun \ {c})
    BY <1>7 DEF CommitFails
  <2> QED
    BY <2>1, WithinStep
<1> QED
  BY <1>2, <1>3, <1>4, <1>5, <1>6, <1>7

\* However a call ends, the others stand where they stood.
LEMMA ReturnKeepsTypes ==
    ASSUME IInv, NEW c \in Call, pc[c] # "nested", Return(c),
           lock' = (IF lock = c THEN None ELSE lock), facade' \in Call \cup {None}, raw' \in BOOLEAN,
           out' \in [Pools -> Nat], returning' \in [Pools -> Nat], dirty' \subseteq Pools,
           UNCHANGED <<config, connected, pool, made, closed, aclose>>
    PROVE  TypeOK' /\ (\A d \in Call : Sound(d)') /\ NoPoolLost'
<1>1. TypeOK /\ \A d \in Call : Sound(d)
  BY DEF IInv
<1>2. /\ pc' \in [Call -> PC] /\ begun' \subseteq Call
      /\ kind' \in [Call -> {"one_shot", "transaction"}]
      /\ mine' \in [Call -> 0 .. made] /\ conn' \in [Call -> 0 .. made]
      /\ inner' \in [Call -> Call \cup {None}]
      /\ pc'[c] = "idle" /\ conn'[c] = 0 /\ inner'[c] = None /\ c \notin begun'
      /\ \A d \in Call \ {c} :
           /\ conn'[d] = conn[d] /\ kind'[d] = kind[d] /\ mine'[d] = mine[d]
           /\ d \in begun' <=> d \in begun
           /\ \/ pc'[d] = pc[d] /\ inner'[d] = inner[d]
              \/ pc[d] = "nested" /\ pc'[d] = "body" /\ inner'[d] = None
  BY <1>1, Returned
<1>3. UNCHANGED <<backend, size, connected, pool, made, closed, closing, draining>>
  BY DEF config, aclose
<1>4. \A d \in Call : (lock' = d) <=> (pc'[d] = "create")
  BY <1>1, <1>2, ServerPoolsAssumption DEF TypeOK
<1>5. TypeOK'
  BY <1>1, <1>2, <1>3, <1>4 DEF TypeOK
<1>6. Sound(c)'
  BY <1>2 DEF Sound, Holding
<1>7. ASSUME NEW d \in Call \ {c} PROVE Sound(d)'
  <2>1. CASE pc'[d] = pc[d] /\ inner'[d] = inner[d]
    BY <1>1, <1>2, <1>3, <2>1, SoundFrame
  <2>2. CASE pc[d] = "nested" /\ pc'[d] = "body" /\ inner'[d] = None
    BY <1>1, <1>2, <1>3, <2>2 DEF Sound, Holding, Plain
  <2> QED
    BY <1>2, <2>1, <2>2
<1>8. NoPoolLost'
  BY <1>3 DEF IInv, NoPoolLost
<1> QED
  BY <1>5, <1>6, <1>7, <1>8

\* A call that never had a connection ends.
LEMMA RefusedStep ==
    ASSUME IInv, NEW c \in Call, AcquireFails(c) \/ Fail(c) PROVE IInv'
<1>1. /\ pc[c] \in {"connect", "ensure", "create", "acquire"} /\ Return(c)
      /\ UNCHANGED <<config, connected, pool, made, closed, counts, aclose>>
      /\ UNCHANGED <<out, returning, dirty>>
  BY DEF AcquireFails, Fail, counts
<1>2. TypeOK /\ Sound(c)
  BY DEF IInv
<1>3. /\ lock' = (IF lock = c THEN None ELSE lock) /\ facade' \in Call \cup {None}
      /\ raw' \in BOOLEAN
  <2>1. CASE AcquireFails(c)
    <3>1. lock # c
      BY <1>2, <2>1 DEF AcquireFails, TypeOK
    <3> QED
      BY <1>2, <2>1, <3>1 DEF AcquireFails, Leaks, TypeOK, locks
  <2>2. CASE Fail(c)
    BY <1>2, <2>2 DEF Fail, TypeOK
  <2> QED
    BY <2>1, <2>2
<1>4. out' \in [Pools -> Nat] /\ returning' \in [Pools -> Nat] /\ dirty' \subseteq Pools
  BY <1>1, <1>2 DEF TypeOK
<1>5. pc[c] # "nested"
  BY <1>1
<1>6. TypeOK' /\ (\A d \in Call : Sound(d)') /\ NoPoolLost'
  BY <1>1, <1>3, <1>4, <1>5, ReturnKeepsTypes
<1>7. UNCHANGED <<made, out, conn>>
  <2>1. conn[c] = 0
    BY <1>1, <1>2 DEF Sound, Holding
  <2> QED
    BY <1>1, <1>2, <2>1 DEF Return, TypeOK
<1>8. InUseWasMade' /\ ConnectionsComeBack'
  BY <1>1, <1>7, CountsFrame DEF IInv, InUseWasMade
<1> QED
  BY <1>6, <1>8 DEF IInv

\* A connection that goes back is no longer its caller's, once.
LEMMA ReleaseStep ==
    ASSUME IInv, NEW c \in Call, Release(c) \/ ReleaseCut(c) PROVE IInv'
<1>0. PICK p \in Pools : p = conn[c] /\ p \in 0 .. made
  BY PoolNumbers DEF Release, ReleaseCut, IInv, TypeOK, Sound, Holding
<1>1. /\ pc[c] = "release" /\ Return(c) /\ Leaves(c)
      /\ UNCHANGED <<config, connected, locks, pool, made, closed, aclose>>
  BY DEF Release, ReleaseCut
<1>2. TypeOK /\ Sound(c)
  BY DEF IInv
<1>3. /\ p \in 0 .. made /\ p # 0 /\ p \in Pools /\ p <= made /\ c \notin begun /\ lock # c
  BY <1>0, <1>1, <1>2, PoolNumbers DEF TypeOK, Sound, Pools
<1>4. dirty' = dirty
  BY <1>1, <1>3 DEF Leaves
<1>5. Holders(p)' = Holders(p) \ {c} /\ c \in Holders(p)
  BY <1>0, <1>1, <1>2, <1>3 DEF Holders, Return, TypeOK
<1>6. /\ Cardinality(Holders(p)') = Cardinality(Holders(p)) - 1
      /\ Cardinality(Holders(p)) \in Nat /\ Cardinality(Holders(p)') \in Nat
  <2>1. Cardinality(Holders(p) \ {c}) = Cardinality(Holders(p)) - 1
    BY <1>5, HoldersFinite, FS_RemoveElement
  <2>2. IsFiniteSet(Holders(p) \ {c})
    BY HoldersFinite, FS_RemoveElement
  <2> QED
    BY <1>5, <2>1, <2>2, HoldersFinite, FS_CardinalityType
<1>7. out[p] = Cardinality(Holders(p)) + returning[p] /\ out[p] \in Nat /\ returning[p] \in Nat
  BY <1>2, <1>3 DEF IInv, ConnectionsComeBack, TypeOK
<1>8. \A q \in Pools : q # p => Holders(q)' = Holders(q)
  BY <1>0, <1>1, <1>2 DEF Holders, Return, TypeOK, Pools
<1>9. /\ out' \in [Pools -> Nat] /\ returning' \in [Pools -> Nat]
      /\ \A q \in Pools : q # p => out'[q] = out[q] /\ returning'[q] = returning[q]
      /\ out'[p] = Cardinality(Holders(p)') + returning'[p]
      /\ raw' \in BOOLEAN
  <2>1. CASE Release(c)
    <3>1. out' = [out EXCEPT ![p] = @ - 1] /\ returning' = returning /\ raw' = raw
      BY <1>0, <2>1 DEF Release
    <3>2. out[p] - 1 \in Nat /\ out[p] - 1 = Cardinality(Holders(p)') + returning[p]
      BY <1>6, <1>7
    <3> QED
      BY <1>2, <1>3, <3>1, <3>2 DEF TypeOK
  <2>2. CASE ReleaseCut(c)
    <3>1. out' = out /\ returning' = [returning EXCEPT ![p] = @ + 1]
      BY <1>0, <2>2 DEF ReleaseCut
    <3>2. out[p] = Cardinality(Holders(p)') + (returning[p] + 1)
      BY <1>6, <1>7
    <3>3. raw' \in BOOLEAN
      BY <1>2, <2>2 DEF ReleaseCut, TypeOK
    <3> QED
      BY <1>2, <1>3, <3>1, <3>2, <3>3 DEF TypeOK
  <2> QED
    BY <2>1, <2>2
<1>10. TypeOK' /\ (\A d \in Call : Sound(d)') /\ NoPoolLost'
  <2>1. /\ pc[c] # "nested" /\ lock' = (IF lock = c THEN None ELSE lock)
        /\ facade' \in Call \cup {None} /\ dirty' \subseteq Pools
    BY <1>1, <1>2, <1>3, <1>4 DEF locks, TypeOK
  <2> QED
    BY <1>1, <1>9, <2>1, ReturnKeepsTypes
<1>11. InUseWasMade'
  <2>1. made' = made
    BY <1>1
  <2> QED
    BY <1>3, <1>9, <2>1 DEF IInv, InUseWasMade
<1>12. ConnectionsComeBack'
  <2>1. ASSUME NEW q \in Pools, q # p PROVE out'[q] = Cardinality(Holders(q)') + returning'[q]
    BY <1>8, <1>9, <2>1 DEF IInv, ConnectionsComeBack
  <2>2. \A q \in Pools : out'[q] = Cardinality(Holders(q)') + returning'[q]
    BY <1>9, <2>1
  <2>3. dirty' = {}
    BY <1>4 DEF IInv, ConnectionsComeBack
  <2> QED
    BY <2>2, <2>3 DEF ConnectionsComeBack
<1> QED
  BY <1>10, <1>11, <1>12 DEF IInv

LEMMA TakeBackStep ==
    ASSUME IInv, NEW p \in Pools, TakeBack(p) PROVE IInv'
<1>1. /\ returning[p] > 0
      /\ returning' = [returning EXCEPT ![p] = @ - 1] /\ out' = [out EXCEPT ![p] = @ - 1]
      /\ UNCHANGED <<backend, size, connected, facade, lock, pool, made, closed, dirty, pc, kind, mine,
                     conn, begun, inner, closing, draining, raw>>
  BY DEF TakeBack, config, locks, calls, aclose
<1>2. TypeOK
  BY DEF IInv
<1>3. /\ out[p] = Cardinality(Holders(p)) + returning[p] /\ out[p] \in Nat /\ returning[p] \in Nat
      /\ Cardinality(Holders(p)) \in Nat
  BY <1>2, HoldersFinite DEF IInv, ConnectionsComeBack, TypeOK
<1>4. /\ out[p] - 1 \in Nat /\ returning[p] - 1 \in Nat /\ out[p] # 0
      /\ out[p] - 1 = Cardinality(Holders(p)) + (returning[p] - 1)
  BY <1>1, <1>3
<1>5. /\ out' \in [Pools -> Nat] /\ returning' \in [Pools -> Nat]
      /\ out'[p] = out[p] - 1 /\ returning'[p] = returning[p] - 1
      /\ \A q \in Pools : q # p => out'[q] = out[q] /\ returning'[q] = returning[q]
  BY <1>1, <1>2, <1>4 DEF TypeOK
<1>6. TypeOK'
  BY <1>1, <1>2, <1>5 DEF TypeOK
<1>7. ASSUME NEW d \in Call PROVE Sound(d)'
  BY <1>1, SoundFrame DEF IInv
<1>8. InUseWasMade' /\ NoPoolLost'
  BY <1>1, <1>4, <1>5 DEF IInv, InUseWasMade, NoPoolLost
<1>9. ConnectionsComeBack'
  <2>1. \A q \in Pools : Holders(q)' = Holders(q)
    BY <1>1 DEF Holders
  <2> QED
    BY <1>1, <1>4, <1>5, <2>1 DEF IInv, ConnectionsComeBack
<1> QED
  BY <1>6, <1>7, <1>8, <1>9 DEF IInv

LEMMA AcloseStep ==
    ASSUME IInv, AcloseBegin \/ AcloseSwap \/ AcloseDrain PROVE IInv'
<1>1. /\ TypeOK
      /\ UNCHANGED <<backend, size, facade, made, out, returning, dirty,
                     pc, kind, mine, conn, begun, inner, raw>>
  BY DEF IInv, AcloseBegin, AcloseSwap, AcloseDrain, config, locks, counts, calls
<1>2. InUseWasMade' /\ ConnectionsComeBack'
  BY <1>1, CountsFrame DEF IInv, InUseWasMade
<1>3. CASE AcloseBegin
  <2>1. /\ UNCHANGED <<connected, lock, pool, closed, draining>> /\ closing' = "swap"
    BY <1>3 DEF AcloseBegin, locks
  <2>2. TypeOK'
    BY <1>1, <2>1 DEF TypeOK
  <2>3. ASSUME NEW d \in Call PROVE Sound(d)'
    BY <1>1, <2>1, SoundFrame DEF IInv
  <2>4. NoPoolLost'
    BY <1>1, <2>1 DEF IInv, NoPoolLost
  <2> QED
    BY <1>2, <2>2, <2>3, <2>4 DEF IInv
<1>4. CASE AcloseSwap
  <2>1. pool' = 0
    BY <1>4 DEF AcloseSwap
  <2>2. \A c \in Call : (lock' = c) <=> (pc'[c] = "create")
    BY <1>1, <1>4, ServerPoolsAssumption DEF AcloseSwap, TypeOK
  <2>3. /\ connected' \in BOOLEAN /\ lock' \in Call \cup {Closer, None}
        /\ closing' \in {"idle", "swap", "drain"} /\ draining' \in 0 .. made
    BY <1>1, <1>4 DEF AcloseSwap, TypeOK
  <2>4. closed' \subseteq 1 .. made /\ closed \subseteq closed' /\ (pool # 0 => pool \in closed')
    <3>1. pool # 0 => pool \in 1 .. made
      BY <1>1, PoolNumbers
    <3>2. closed \subseteq 1 .. made
      BY <1>1 DEF TypeOK
    <3>3. CASE pool = 0
      BY <1>4, <3>3, <3>2 DEF AcloseSwap
    <3>4. CASE pool # 0
      <4>1. closed' = closed \cup {pool}
        BY <1>4, <3>4 DEF AcloseSwap
      <4> QED
        BY <3>1, <3>2, <3>4, <4>1
    <3> QED
      BY <3>3, <3>4
  <2>5. NoPoolLost'
    BY <1>1, <2>1, <2>4 DEF IInv, TypeOK, NoPoolLost
  <2>6. pool' \in 0 .. made
    BY <1>1, <2>1, PoolNumbers
  <2>7. TypeOK'
    BY <1>1, <2>2, <2>3, <2>4, <2>6 DEF TypeOK
  <2>8. ASSUME NEW d \in Call PROVE Sound(d)'
    BY <1>1, <2>1 DEF IInv, Sound, Plain
  <2> QED
    BY <1>2, <2>5, <2>7, <2>8 DEF IInv
<1>5. CASE AcloseDrain
  <2>1. \A c \in Call : (lock' = c) <=> (pc'[c] = "create")
    BY <1>1, <1>5, ServerPoolsAssumption DEF AcloseDrain, TypeOK
  <2>2. /\ UNCHANGED <<pool, closed>> /\ closing' = "idle" /\ draining' = 0 /\ connected' = FALSE
        /\ lock' \in Call \cup {Closer, None}
    BY <1>1, <1>5 DEF AcloseDrain, TypeOK
  <2>3. 0 \in 0 .. made
    BY <1>1, PoolNumbers
  <2>4. TypeOK'
    BY <1>1, <2>1, <2>2, <2>3 DEF TypeOK
  <2>5. ASSUME NEW d \in Call PROVE Sound(d)'
    BY <1>1, <2>2, SoundFrame DEF IInv
  <2>6. NoPoolLost'
    BY <1>1, <2>2 DEF IInv, NoPoolLost
  <2> QED
    BY <1>2, <2>4, <2>5, <2>6 DEF IInv
<1> QED
  BY <1>3, <1>4, <1>5

LEMMA StepKeepsInvariant == IInv /\ [Next]_vars => IInv'
<1> SUFFICES ASSUME IInv, [Next]_vars PROVE IInv'
  OBVIOUS
<1>1. ASSUME NEW c \in Call, Connect(c) \/ Acquire(c) \/ Work(c) \/ Mishap(c) PROVE IInv'
  BY <1>1, TakeFacadeStep, FindPoolStep, TakeLockStep, CreatePoolStep, AcquireStep, ScopeStep,
     RefusedStep, ReleaseStep
  DEF Connect, Work, Mishap
<1>2. CASE Next
  BY <1>1, <1>2, BeginStep, NestStep, TakeBackStep, AcloseStep DEF Next
<1>3. CASE UNCHANGED vars
  <2>1. UNCHANGED <<backend, size, connected, facade, lock, pool, made, closed, counts, out, returning,
                    dirty, pc, kind, mine, conn, begun, inner, closing, draining, raw>>
    BY <1>3 DEF vars, config, locks, counts, calls, aclose
  <2>2. TypeOK'
    BY <2>1 DEF IInv, TypeOK
  <2>3. ASSUME NEW d \in Call PROVE Sound(d)'
    BY <2>1, SoundFrame DEF IInv
  <2> QED
    BY <2>1, <2>2, <2>3, PoolsFrame DEF IInv
<1> QED
  BY <1>2, <1>3

\* The inductive invariant holds in every reachable state.
THEOREM InvariantHolds == Spec => []IInv
BY Initially, StepKeepsInvariant, PTL DEF Spec

\* Of any number of calls and closes, whichever way each ends, none loses a pool that
\* is open: the backend knows it and a later aclose closes it (_ensure_pool, aclose).
THEOREM PoolsAreKept == Spec => []NoPoolLost
<1>1. IInv => NoPoolLost
  BY DEF IInv
<1> QED
  BY <1>1, InvariantHolds, PTL

\* Wherever a call stops (BEGIN, body, COMMIT, ROLLBACK or release, failed or
\* cancelled), its connection goes back once: what a pool counts as given out is with
\* a call that is under way or on its way back, and none went back with a transaction
\* that nothing tried to end (the try and finally clauses of both backends).
THEOREM ConnectionsAreGivenBack == Spec => []ConnectionsComeBack
<1>1. IInv => ConnectionsComeBack
  BY DEF IInv
<1> QED
  BY <1>1, InvariantHolds, PTL
-----------------------------------------------------------------------------
\* What a close leaves behind.  Only the pool it waits for is closed and in use;
\* on PostgreSQL it holds the lock meanwhile, so no other pool comes to be.
ClosedAreEmpty == \A p \in closed : (closing = "drain" /\ draining = p) \/ out[p] = 0
DrainsAlone == backend = "postgresql" /\ closing = "drain" => lock = Closer /\ pool = 0

\* While no close waits, a closed pool has every connection back, those whose release
\* was cut included, and one that still waited for a connection of it gets none.
ClosedStayEmpty == closing # "drain" => \A p \in closed : out[p] = 0

\* The connections given out on PostgreSQL are all of one pool, so the server never
\* sees more than pool_max of them, reopening after a close included.
OnePoolInUse ==
    backend = "postgresql" => \A p, q \in Pools : out[p] # 0 /\ out[q] # 0 => p = q

CloseInv == ClosedAreEmpty /\ DrainsAlone

\* A step of no close: it gives out no connection of a closed pool but the one that is
\* waited for, and opens no pool while a close holds the lock.
LEMMA CloseFrame ==
    ASSUME IInv, CloseInv, UNCHANGED <<config, closed, aclose>>,
           \A p \in closed : out'[p] # 0 => out[p] # 0 \/ (closing = "drain" /\ draining = p),
           lock = Closer => lock' = Closer /\ pool' = pool
    PROVE  CloseInv'
<1>1. ClosedAreEmpty'
  BY DEF CloseInv, ClosedAreEmpty, aclose
<1>2. DrainsAlone'
  BY DEF CloseInv, DrainsAlone, config, aclose
<1> QED
  BY <1>1, <1>2 DEF CloseInv

LEMMA CallKeepsClosed ==
    ASSUME IInv, CloseInv, NEW c \in Call,
           \/ \E k \in {"one_shot", "transaction"} : Begin(c, k)
           \/ \E d \in Call : Nest(c, d)
           \/ Connect(c) \/ Acquire(c) \/ Work(c) \/ Mishap(c)
    PROVE  CloseInv'
<1>1. CASE (\E k \in {"one_shot", "transaction"} : Begin(c, k)) \/ (\E d \in Call : Nest(c, d))
  BY <1>1, CloseFrame DEF Begin, Nest, locks, counts
<1>2. CASE TakeFacade(c) \/ FindPool(c)
  BY <1>2, CloseFrame DEF TakeFacade, FindPool, counts
<1>3. CASE TakeLock(c)
  <2>1. lock # Closer
    BY <1>3, ServerPoolsAssumption DEF TakeLock, LockFree
  <2> QED
    BY <1>3, <2>1, CloseFrame DEF TakeLock, counts
<1>4. CASE CreatePool(c)
  <2>1. lock # Closer
    BY <1>4, ServerPoolsAssumption DEF CreatePool, IInv, TypeOK
  <2> QED
    BY <1>4, <2>1, CloseFrame DEF CreatePool, counts
<1>5. CASE Acquire(c)
  <2>1. \A p \in closed : out'[p] # 0 => out[p] # 0 \/ (closing = "drain" /\ draining = p)
    <3>1. /\ out' = [out EXCEPT ![mine[c]] = @ + 1]
          /\ mine[c] \notin closed \/ (closing = "drain" /\ draining = mine[c])
      BY <1>5 DEF Acquire
    <3> QED
      BY <3>1 DEF IInv, TypeOK
  <2> QED
    BY <1>5, <2>1, CloseFrame DEF Acquire, locks
<1>6. CASE \/ Start(c) \/ StartFails(c) \/ BodyEnds(c) \/ BodyFails(c)
           \/ Commit(c) \/ CommitFails(c) \/ Rollback(c) \/ RollbackFails(c)
  <2>1. UNCHANGED <<config, closed, aclose, out, lock, pool>>
    BY <1>6 DEF Start, StartFails, BodyEnds, BodyFails, Commit, CommitFails, Rollback, RollbackFails,
                Within, locks, counts
  <2> QED
    BY <2>1, CloseFrame
<1>7. CASE Release(c) \/ ReleaseCut(c)
  <2>1. \A p \in closed : out'[p] # 0 => out[p] # 0
    <3>1. CASE ReleaseCut(c)
      BY <3>1 DEF ReleaseCut
    <3>2. CASE Release(c)
      <4>1. pc[c] = "release" /\ out' = [out EXCEPT ![conn[c]] = @ - 1]
        BY <3>2 DEF Release
      <4>2. conn[c] \in Pools /\ c \in Holders(conn[c])
        BY <4>1, PoolNumbers DEF IInv, TypeOK, Sound, Holding, Holders
      <4>3. out[conn[c]] # 0
        <5>1. Cardinality(Holders(conn[c])) # 0
          BY <4>2, HoldersFinite, FS_EmptySet
        <5>2. /\ out[conn[c]] = Cardinality(Holders(conn[c])) + returning[conn[c]]
              /\ returning[conn[c]] \in Nat
          BY <4>2 DEF IInv, ConnectionsComeBack, TypeOK
        <5> QED
          BY <5>1, <5>2, HoldersFinite
      <4> QED
        BY <4>1, <4>3 DEF IInv, TypeOK
    <3> QED
      BY <1>7, <3>1, <3>2
  <2> QED
    BY <1>7, <2>1, CloseFrame DEF Release, ReleaseCut, locks
<1>8. CASE AcquireFails(c)
  BY <1>8, CloseFrame DEF AcquireFails, locks, counts
<1>9. CASE Fail(c)
  <2>1. lock = Closer => lock' = Closer
    BY <1>9, ServerPoolsAssumption DEF Fail
  <2> QED
    BY <1>9, <2>1, CloseFrame DEF Fail, counts
<1> QED
  BY <1>1, <1>2, <1>3, <1>4, <1>5, <1>6, <1>7, <1>8, <1>9 DEF Connect, Work, Mishap

LEMMA TakeBackKeepsClosed ==
    ASSUME IInv, CloseInv, NEW p \in Pools, TakeBack(p) PROVE CloseInv'
<1>1. returning[p] > 0 /\ out' = [out EXCEPT ![p] = @ - 1]
  BY DEF TakeBack
<1>2. /\ out[p] = Cardinality(Holders(p)) + returning[p] /\ returning[p] \in Nat
      /\ Cardinality(Holders(p)) \in Nat
  BY HoldersFinite DEF IInv, ConnectionsComeBack, TypeOK
<1>3. out[p] # 0
  BY <1>1, <1>2
<1>4. \A q \in closed : out'[q] # 0 => out[q] # 0
  BY <1>1, <1>3 DEF IInv, TypeOK
<1> QED
  BY <1>4, CloseFrame DEF TakeBack, locks

LEMMA AcloseKeepsClosed ==
    ASSUME IInv, CloseInv, AcloseBegin \/ AcloseSwap \/ AcloseDrain
    PROVE  CloseInv'
<1>1. out' = out /\ backend' = backend
  BY DEF AcloseBegin, AcloseSwap, AcloseDrain, counts, config
<1>2. CASE AcloseBegin
  BY <1>1, <1>2 DEF AcloseBegin, CloseInv, ClosedAreEmpty, DrainsAlone
<1>3. CASE AcloseSwap
  <2>1. /\ \A p \in closed : out[p] = 0
        /\ pool' = 0
    BY <1>3 DEF AcloseSwap, CloseInv, ClosedAreEmpty
  <2>2. CASE pool = 0
    BY <1>1, <1>3, <2>1, <2>2 DEF AcloseSwap, CloseInv, ClosedAreEmpty, DrainsAlone
  <2>3. CASE pool # 0
    <3>1. /\ draining' = pool /\ closed' = closed \cup {pool} /\ closing' = "drain"
          /\ backend = "postgresql" => lock' = Closer
      BY <1>3, <2>3 DEF AcloseSwap
    <3> QED
      BY <1>1, <2>1, <3>1 DEF CloseInv, ClosedAreEmpty, DrainsAlone
  <2> QED
    BY <2>2, <2>3
<1>4. CASE AcloseDrain
  BY <1>1, <1>4 DEF AcloseDrain, CloseInv, ClosedAreEmpty, DrainsAlone
<1> QED
  BY <1>2, <1>3, <1>4

LEMMA ClosedStep == IInv /\ CloseInv /\ [Next]_vars => CloseInv'
<1> SUFFICES ASSUME IInv, CloseInv, [Next]_vars PROVE CloseInv'
  OBVIOUS
<1>1. CASE Next
  BY <1>1, CallKeepsClosed, TakeBackKeepsClosed, AcloseKeepsClosed DEF Next
<1>2. CASE UNCHANGED vars
  BY <1>2, CloseFrame DEF vars, locks, counts
<1> QED
  BY <1>1, <1>2

\* A closed pool that nobody waits for has every connection back, and on PostgreSQL
\* all connections given out are of one pool, for any number of calls, closes and
\* reopenings (aclose and _ensure_pool).
THEOREM ClosesAreClean == Spec => [](ClosedStayEmpty /\ OnePoolInUse)
<1>1. Init => CloseInv
  BY DEF Init, CloseInv, ClosedAreEmpty, DrainsAlone
<1>2. ASSUME IInv, CloseInv PROVE ClosedStayEmpty /\ OnePoolInUse
  <2>1. ClosedStayEmpty
    BY <1>2 DEF CloseInv, ClosedAreEmpty, ClosedStayEmpty
  <2>2. ASSUME NEW p \in Pools, out[p] # 0
        PROVE  p = pool \/ (closing = "drain" /\ p = draining)
    <3>1. p \in 1 .. made
      BY <1>2, <2>2, PoolNumbers DEF IInv, InUseWasMade, Pools
    <3>2. p \in closed \/ p = pool
      BY <1>2, <3>1 DEF IInv, NoPoolLost
    <3> QED
      BY <1>2, <2>2, <3>2 DEF CloseInv, ClosedAreEmpty
  <2>3. ASSUME backend = "postgresql", NEW p \in Pools, NEW q \in Pools, out[p] # 0, out[q] # 0
        PROVE  p = q
    BY <1>2, <2>2, <2>3 DEF CloseInv, DrainsAlone, Pools
  <2>4. OnePoolInUse
    BY <2>3 DEF OnePoolInUse
  <2> QED
    BY <2>1, <2>4
<1>3. Spec => []CloseInv
  BY <1>1, InvariantHolds, ClosedStep, PTL DEF Spec
<1> QED
  BY <1>2, <1>3, InvariantHolds, PTL
=============================================================================
