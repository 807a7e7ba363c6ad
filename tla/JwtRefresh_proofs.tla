--------------------------- MODULE JwtRefresh_proofs ---------------------------
(***************************************************************************)
(* Proofs about JwtRefresh, for any number of requests, tokens, families   *)
(* and users.  The inductive invariant says why two refreshes cannot both  *)
(* rotate: a claimed token is used, has no successor yet, and is the only  *)
(* one of its family in flight, while no row of the family is unspent.     *)
(***************************************************************************)
EXTENDS JwtRefresh, TLAPS

\* Rows, and revoked families, belong to somebody.
Families ==
    /\ \A t \in Row : owner[family[t]] # None
    /\ \A f \in settled : owner[f] # None

\* Only a used token has a successor.
Lineage == \A t \in Row : parent[t] # None => parent[t] \in used

\* A rotation in flight holds a used token without successor, alone in its family.
Flights ==
    \A r \in Request : pc[r] = "issue" =>
        /\ tok[r] \in used
        /\ \A t \in Row : parent[t] # tok[r]
        /\ \A q \in Request : pc[q] = "issue" /\ family[tok[q]] = family[tok[r]] => q = r

IInv ==
    /\ TypeOK
    /\ Families
    /\ Lineage
    /\ Flights
    /\ NoFork
    /\ OneUnspentToken
    /\ SettledMeansDead

LEMMA Initially == Init => IInv
BY JwtRefreshAssumption
DEF Init, IInv, TypeOK, Families, Lineage, Flights, NoFork, OneUnspentToken,
    SettledMeansDead, Row, Rows, Unspent, InFlight

\* Types are kept by every step.
LEMMA TypeStep == TypeOK /\ [Next]_vars => TypeOK'
<1> SUFFICES ASSUME TypeOK, [Next]_vars PROVE TypeOK'
  OBVIOUS
<1> USE JwtRefreshAssumption DEF TypeOK, Row
<1>1. ASSUME NEW u \in User, IssuePair(u) PROVE TypeOK'
  BY <1>1 DEF IssuePair, Insert
<1>2. ASSUME NEW r \in Request, NEW t \in Token, Present(r, t) PROVE TypeOK'
  BY <1>2 DEF Present, Acceptable, history
<1>3. ASSUME NEW r \in Request, Claim(r) PROVE TypeOK'
  BY <1>3 DEF Claim, ClaimWins, history
<1>4. ASSUME NEW r \in Request, Burn(r) PROVE TypeOK'
  BY <1>4 DEF Burn, Revoke, Rows, Return
<1>5. ASSUME NEW r \in Request, Issue(r) PROVE TypeOK'
  BY <1>5 DEF Issue, Insert, Return
<1>6. ASSUME NEW r \in Request, Abort(r) PROVE TypeOK'
  BY <1>6 DEF Abort, Return, history
<1>7. ASSUME NEW f \in Family, RevokeFamily(f) PROVE TypeOK'
  BY <1>7 DEF RevokeFamily, Revoke, Rows
<1>8. ASSUME NEW u \in User, RevokeAllForUser(u) PROVE TypeOK'
  BY <1>8 DEF RevokeAllForUser, Revoke, Rows
<1>9. ASSUME NEW t \in Token, Expire(t) PROVE TypeOK'
  BY <1>9 DEF Expire, history
<1>10. CASE UNCHANGED vars
  BY <1>10 DEF vars
<1> QED
  BY <1>1, <1>2, <1>3, <1>4, <1>5, <1>6, <1>7, <1>8, <1>9, <1>10 DEF Next

\* A new family has no row yet, so its first token is alone in it.
LEMMA IssuePairStep ==
    ASSUME IInv, TypeOK', NEW u \in User, IssuePair(u) PROVE IInv'
<1>1. PICK f \in Family, t \in Token :
        /\ owner[f] = None /\ owner' = [owner EXCEPT ![f] = u]
        /\ t \notin Row
        /\ family' = [family EXCEPT ![t] = f]
        /\ parent' = [parent EXCEPT ![t] = None]
  BY DEF IssuePair, Insert
<1>2. /\ UNCHANGED <<used, revoked, expired, pc, tok, burned, settled>>
      /\ Row' = Row \cup {t}
      /\ \A s \in Row : family'[s] = family[s] /\ parent'[s] = parent[s] /\ family[s] # f
      /\ family'[t] = f /\ parent'[t] = None
      /\ f \notin settled
      /\ \A g \in Family : owner[g] # None => owner'[g] # None
  BY <1>1, JwtRefreshAssumption DEF IssuePair, IInv, TypeOK, Row, Families
<1>3. Families'
  BY <1>1, <1>2, JwtRefreshAssumption DEF Families, IInv, TypeOK, Row
<1>4. Lineage' /\ NoFork' /\ Flights'
  <2>1. \A r \in Request : pc[r] = "issue" => tok[r] \in Row /\ tok[r] # None
    BY JwtRefreshAssumption DEF IInv, TypeOK, Row
  <2>2. Lineage' /\ NoFork'
    BY <1>2 DEF Lineage, NoFork, IInv
  <2> QED
    BY <1>2, <2>1, <2>2 DEF Flights, IInv
<1>5. OneUnspentToken'
  <2>1. \A r \in Request : pc[r] = "issue" => tok[r] \in Row
    BY DEF IInv, TypeOK
  <2> QED
    BY <1>2, <2>1 DEF OneUnspentToken, Unspent, Rows, InFlight, IInv
<1>6. SettledMeansDead'
  <2>1. \A r \in Request : pc[r] = "issue" => tok[r] \in Row
    BY DEF IInv, TypeOK
  <2> QED
    BY <1>2, <2>1 DEF SettledMeansDead, Rows, InFlight, IInv
<1> QED
  BY <1>3, <1>4, <1>5, <1>6 DEF IInv

\* A SELECT changes no row and puts nothing in flight.
LEMMA PresentStep ==
    ASSUME IInv, TypeOK', NEW r \in Request, NEW t \in Token, Present(r, t)
    PROVE  IInv'
<1>1. /\ UNCHANGED <<family, owner, used, revoked, parent, settled>>
      /\ \A q \in Request : pc'[q] = "issue" => q # r /\ pc[q] = "issue" /\ tok'[q] = tok[q]
  BY DEF Present, history, IInv, TypeOK
<1>2. Families' /\ Lineage' /\ NoFork'
  BY <1>1 DEF Families, Lineage, NoFork, Row, IInv
<1>3. Flights'
  BY <1>1 DEF Flights, Row, IInv
<1>4. OneUnspentToken'
  BY <1>1 DEF OneUnspentToken, Unspent, Rows, Row, InFlight, IInv
<1>5. SettledMeansDead'
  BY <1>1 DEF SettledMeansDead, Rows, Row, InFlight, IInv
<1> QED
  BY <1>2, <1>3, <1>4, <1>5 DEF IInv

\* The UPDATE that wins takes the one unspent row of its family, so nothing
\* else of the family is in flight; the one that loses changes no row.
LEMMA ClaimStep ==
    ASSUME IInv, TypeOK', NEW r \in Request, Claim(r) PROVE IInv'
<1>1. /\ UNCHANGED <<family, owner, revoked, expired, tok, parent, burned, settled>>
      /\ pc[r] = "claim" /\ tok[r] \in Row
      /\ \A q \in Request : q # r => pc'[q] = pc[q]
  BY DEF Claim, history, IInv, TypeOK
<1>2. CASE ClaimWins(tok[r])
  <2>1. used' = used \cup {tok[r]} /\ tok[r] \in Unspent
    BY <1>1, <1>2 DEF Claim, ClaimWins, Unspent
  <2>2. pc'[r] = "issue"
    BY <1>1, <1>2 DEF Claim, IInv, TypeOK
  <2>3. InFlight(family[tok[r]]) = {}
    BY <1>1, <2>1 DEF OneUnspentToken, Rows, IInv, TypeOK, Row
  <2>4. Families' /\ Lineage' /\ NoFork'
    BY <1>1, <2>1 DEF Families, Lineage, NoFork, Row, IInv
  <2>5. Flights'
    <3>1. \A q \in Request : pc[q] = "issue" => family[tok[q]] # family[tok[r]]
      BY <2>3 DEF InFlight
    <3>2. \A t \in Row : parent[t] # tok[r]
      BY <1>1, <2>1, JwtRefreshAssumption DEF Lineage, Unspent, IInv, Row
    <3> QED
      BY <1>1, <2>1, <2>2, <3>1, <3>2 DEF Flights, Row, IInv
  <2>6. OneUnspentToken'
    <3>0. family[tok[r]] \in Family
      BY <1>1 DEF IInv, TypeOK, Row
    <3>1. \A t \in Unspent : family[t] = family[tok[r]] => t = tok[r]
      BY <2>1, <3>0 DEF OneUnspentToken, IInv
    <3>2. Unspent' = Unspent \ {tok[r]}
      BY <1>1, <2>1 DEF Unspent, Row
    <3>3. \A f \in Family : InFlight(f)' \subseteq InFlight(f) \cup {r}
      BY <1>1 DEF InFlight
    <3>4. \A f \in Family : r \in InFlight(f)' => f = family[tok[r]]
      BY <1>1 DEF InFlight
    <3> QED
      BY <1>1, <3>1, <3>2, <3>3, <3>4 DEF OneUnspentToken, Rows, Row, IInv, Unspent
  <2>7. SettledMeansDead'
    <3>1. family[tok[r]] \notin settled
      BY <1>1, <2>1 DEF SettledMeansDead, Unspent, Rows, IInv
    <3> QED
      BY <1>1, <2>1, <3>1 DEF SettledMeansDead, Rows, Row, InFlight, IInv
  <2> QED
    BY <2>4, <2>5, <2>6, <2>7 DEF IInv
<1>3. CASE ~ClaimWins(tok[r])
  <2>1. UNCHANGED used /\ pc'[r] = "burn"
    BY <1>1, <1>3 DEF Claim, IInv, TypeOK
  <2>2. \A q \in Request : pc'[q] = "issue" => pc[q] = "issue"
    BY <1>1, <2>1
  <2>3. Families' /\ Lineage' /\ NoFork'
    BY <1>1, <2>1 DEF Families, Lineage, NoFork, Row, IInv
  <2>4. Flights'
    BY <1>1, <2>1, <2>2 DEF Flights, Row, IInv
  <2>5. OneUnspentToken'
    BY <1>1, <2>1, <2>2 DEF OneUnspentToken, Unspent, Rows, Row, InFlight, IInv
  <2>6. SettledMeansDead'
    BY <1>1, <2>2 DEF SettledMeansDead, Rows, Row, InFlight, IInv
  <2> QED
    BY <2>3, <2>4, <2>5, <2>6 DEF IInv
<1> QED
  BY <1>2, <1>3

\* Revoking families of owned rows leaves fewer unspent rows and settles only
\* families with nothing in flight.
LEMMA RevokeStep ==
    ASSUME IInv, TypeOK', NEW F \in SUBSET Family, Revoke(F),
           \A f \in F : owner[f] # None,
           UNCHANGED <<family, owner, used, parent>>,
           \A q \in Request : pc'[q] = "issue" => pc[q] = "issue" /\ tok'[q] = tok[q]
    PROVE  IInv'
<1>1. /\ revoked' = revoked \cup Rows(F)
      /\ settled' = settled \cup {f \in F : InFlight(f) = {}}
  BY DEF Revoke
<1>2. Families' /\ Lineage' /\ NoFork'
  BY <1>1 DEF Families, Lineage, NoFork, Row, IInv
<1>3. Flights'
  BY DEF Flights, Row, IInv
<1>4. \A f \in Family : InFlight(f)' \subseteq InFlight(f)
  BY DEF InFlight
<1>5. OneUnspentToken'
  <2>1. Unspent' \subseteq Unspent
    BY <1>1 DEF Unspent, Row
  <2> QED
    BY <1>4, <2>1 DEF OneUnspentToken, Rows, Row, IInv
<1>6. SettledMeansDead'
  BY <1>1, <1>4 DEF SettledMeansDead, Rows, Row, IInv, TypeOK
<1> QED
  BY <1>2, <1>3, <1>5, <1>6 DEF IInv

\* The successor enters a family with no unspent row, whose rotation ends.
LEMMA IssueStep ==
    ASSUME IInv, TypeOK', NEW r \in Request, Issue(r) PROVE IInv'
<1>0. PICK f \in Family : f = family[tok[r]] /\ f # None
  BY DEF Issue, IInv, TypeOK, Row
<1>1. PICK t \in Token : /\ t \notin Row
                         /\ family' = [family EXCEPT ![t] = f]
                         /\ parent' = [parent EXCEPT ![t] = tok[r]]
  BY <1>0 DEF Issue, Insert
<1>2. /\ UNCHANGED <<owner, used, revoked, settled>>
      /\ pc[r] = "issue" /\ tok[r] \in Row /\ tok[r] \in used
  BY DEF Issue, IInv, TypeOK, Flights, Row
<1>3. \A q \in Request : pc'[q] = "issue" => q # r /\ pc[q] = "issue" /\ tok'[q] = tok[q]
  BY DEF Issue, Return, IInv, TypeOK
<1>4. /\ Row' = Row \cup {t}
      /\ \A s \in Row : family'[s] = family[s] /\ parent'[s] = parent[s]
      /\ family'[t] = f /\ parent'[t] = tok[r]
  BY <1>0, <1>1, <1>2 DEF IInv, TypeOK, Row
<1>5. \A q \in Request : pc[q] = "issue" => tok[q] \in Row
  BY DEF IInv, TypeOK
<1>6. \A s \in Row : parent[s] # tok[r]
  BY <1>2 DEF IInv, Flights
<1>7. \A q \in Request : q # r /\ pc[q] = "issue" => family[tok[q]] # f
  BY <1>0, <1>2 DEF IInv, Flights
<1>8. Families'
  BY <1>0, <1>2, <1>4 DEF Families, IInv
<1>9. Lineage' /\ NoFork'
  BY <1>2, <1>4, <1>6 DEF Lineage, NoFork, IInv
<1>10. Flights'
  BY <1>2, <1>3, <1>4, <1>5, <1>7 DEF Flights, IInv
<1>11. OneUnspentToken'
  <2>1. Unspent \cap Rows({f}) = {}
    BY <1>0, <1>2 DEF OneUnspentToken, InFlight, IInv
  <2>2. Unspent' = Unspent \cup {t}
    BY <1>1, <1>2, <1>4 DEF Unspent, IInv, TypeOK
  <2>3. \A g \in Family : InFlight(g)' \subseteq InFlight(g)
    BY <1>3, <1>4, <1>5 DEF InFlight
  <2>4. InFlight(f)' = {}
    BY <1>3, <1>4, <1>5, <1>7 DEF InFlight
  <2>5. \A s, v \in Unspent' : family'[s] = family'[v] => s = v
    BY <1>4, <2>1, <2>2 DEF OneUnspentToken, IInv, TypeOK, Unspent, Rows, Row
  <2>6. ASSUME NEW g \in Family, InFlight(g)' # {} PROVE (Unspent \cap Rows({g}))' = {}
    <3>1. g # f /\ InFlight(g) # {}
      BY <2>3, <2>4, <2>6
    <3>2. Unspent \cap Rows({g}) = {}
      BY <3>1 DEF OneUnspentToken, IInv
    <3> QED
      BY <1>4, <2>2, <3>1, <3>2 DEF Rows, Unspent
  <2> QED
    BY <2>5, <2>6 DEF OneUnspentToken
<1>12. SettledMeansDead'
  <2>1. f \notin settled
    BY <1>0, <1>2 DEF SettledMeansDead, InFlight, IInv
  <2>2. \A g \in Family : InFlight(g)' \subseteq InFlight(g)
    BY <1>3, <1>4, <1>5 DEF InFlight
  <2> QED
    BY <1>2, <1>4, <2>1, <2>2 DEF SettledMeansDead, Rows, IInv, TypeOK
<1> QED
  BY <1>8, <1>9, <1>10, <1>11, <1>12 DEF IInv

\* A step that leaves the rows alone and puts nothing in flight.
LEMMA QuietStep ==
    ASSUME IInv, TypeOK',
           UNCHANGED <<family, owner, used, revoked, parent, settled>>,
           \A q \in Request : pc'[q] = "issue" => pc[q] = "issue" /\ tok'[q] = tok[q]
    PROVE  IInv'
<1>1. Families' /\ Lineage' /\ NoFork'
  BY DEF Families, Lineage, NoFork, Row, IInv
<1>2. Flights'
  BY DEF Flights, Row, IInv
<1>3. OneUnspentToken'
  BY DEF OneUnspentToken, Unspent, Rows, Row, InFlight, IInv
<1>4. SettledMeansDead'
  BY DEF SettledMeansDead, Rows, Row, InFlight, IInv
<1> QED
  BY <1>1, <1>2, <1>3, <1>4 DEF IInv

LEMMA Inductive == IInv /\ [Next]_vars => IInv'
<1> SUFFICES ASSUME IInv, [Next]_vars PROVE IInv'
  OBVIOUS
<1> TypeOK'
  BY TypeStep DEF IInv
<1>1. ASSUME NEW u \in User, IssuePair(u) PROVE IInv'
  BY <1>1, IssuePairStep
<1>2. ASSUME NEW r \in Request, NEW t \in Token, Present(r, t) PROVE IInv'
  BY <1>2, PresentStep
<1>3. ASSUME NEW r \in Request, Claim(r) PROVE IInv'
  BY <1>3, ClaimStep
<1>4. ASSUME NEW r \in Request, Burn(r) PROVE IInv'
  <2>1. tok[r] \in Row /\ family[tok[r]] \in Family /\ owner[family[tok[r]]] # None
    BY <1>4 DEF Burn, IInv, TypeOK, Families, Row
  <2>2. Revoke({family[tok[r]]}) /\ UNCHANGED <<family, owner, used, parent>>
    BY <1>4 DEF Burn
  <2>3. \A q \in Request : pc'[q] = "issue" => pc[q] = "issue" /\ tok'[q] = tok[q]
    BY <1>4 DEF Burn, Return, IInv, TypeOK
  <2> QED
    BY <2>1, <2>2, <2>3, RevokeStep
<1>5. ASSUME NEW r \in Request, Issue(r) PROVE IInv'
  BY <1>5, IssueStep
<1>6. ASSUME NEW r \in Request, Abort(r) PROVE IInv'
  <2>1. /\ UNCHANGED <<family, owner, used, revoked, parent, settled>>
        /\ \A q \in Request : pc'[q] = "issue" => pc[q] = "issue" /\ tok'[q] = tok[q]
    BY <1>6 DEF Abort, Return, history, IInv, TypeOK
  <2> QED
    BY <2>1, QuietStep
<1>7. ASSUME NEW f \in Family, RevokeFamily(f) PROVE IInv'
  <2>1. {f} \in SUBSET Family /\ Revoke({f}) /\ owner[f] # None
    BY <1>7 DEF RevokeFamily
  <2>2. UNCHANGED <<family, owner, used, parent, pc, tok>>
    BY <1>7 DEF RevokeFamily
  <2> QED
    BY <2>1, <2>2, RevokeStep
<1>8. ASSUME NEW u \in User, RevokeAllForUser(u) PROVE IInv'
  <2> DEFINE F == {f \in Family : owner[f] = u}
  <2>1. F \in SUBSET Family /\ Revoke(F) /\ \A f \in F : owner[f] # None
    BY <1>8, JwtRefreshAssumption DEF RevokeAllForUser
  <2>2. UNCHANGED <<family, owner, used, parent, pc, tok>>
    BY <1>8 DEF RevokeAllForUser
  <2> HIDE DEF F
  <2> QED
    BY <2>1, <2>2, RevokeStep
<1>9. ASSUME NEW t \in Token, Expire(t) PROVE IInv'
  <2>1. UNCHANGED <<family, owner, used, revoked, parent, settled, pc, tok>>
    BY <1>9 DEF Expire, history
  <2> QED
    BY <2>1, QuietStep
<1>10. CASE UNCHANGED vars
  <2>1. UNCHANGED <<family, owner, used, revoked, parent, settled, pc, tok>>
    BY <1>10 DEF vars
  <2> QED
    BY <2>1, QuietStep
<1> QED
  BY <1>1, <1>2, <1>3, <1>4, <1>5, <1>6, <1>7, <1>8, <1>9, <1>10 DEF Next

LEMMA Invariant == Spec => []IInv
BY Initially, Inductive, PTL DEF Spec

-----------------------------------------------------------------------------
\* Variables keep their types, for any number of requests and tokens.
THEOREM TypeCorrect == Spec => []TypeOK
<1>1. IInv => TypeOK
  BY DEF IInv
<1> QED
  BY <1>1, Invariant, PTL

\* A refresh token has at most one successor, whatever presents it at once.
THEOREM NoTokenForks == Spec => []NoFork
<1>1. IInv => NoFork
  BY DEF IInv
<1> QED
  BY <1>1, Invariant, PTL

\* A family never has two tokens to go on with, rotations in flight included.
THEOREM OneWayOn == Spec => []OneUnspentToken
<1>1. IInv => OneUnspentToken
  BY DEF IInv
<1> QED
  BY <1>1, Invariant, PTL

\* A family revoked with no rotation in flight never comes back.
THEOREM RevocationHolds == Spec => []SettledMeansDead
<1>1. IInv => SettledMeansDead
  BY DEF IInv
<1> QED
  BY <1>1, Invariant, PTL
-----------------------------------------------------------------------------
\* The refinement: what RefreshChains sees, and which of its steps each
\* statement of the code is.
Started == {f \in Family : owner[f] # None}
LiveOf == [f \in Family |-> Unspent \cap Rows({f})]
Rotating == {f \in Family : InFlight(f) # {}}

LEMMA ChainsInitially == Init => Chains!Init
<1> SUFFICES ASSUME Init PROVE Chains!Init
  OBVIOUS
<1>1. Row = {} /\ Started = {} /\ Rotating = {}
  BY DEF Init, Row, Started, Rotating, InFlight
<1>2. LiveOf = [f \in Family |-> {}]
  BY <1>1 DEF LiveOf, Rows, Unspent
<1> QED
  BY <1>1, <1>2 DEF Chains!Init, Started, LiveOf, Rotating

\* A step that changes no row and moves no rotation is none of RefreshChains.
LEMMA ChainsStutter ==
    ASSUME UNCHANGED <<family, owner, used, revoked>>,
           \A q \in Request : /\ pc'[q] = "issue" <=> pc[q] = "issue"
                              /\ pc[q] = "issue" => tok'[q] = tok[q]
    PROVE  UNCHANGED Chains!vars
<1>1. Started' = Started /\ Row' = Row
  BY DEF Started, Row
<1>2. LiveOf' = LiveOf
  BY <1>1 DEF LiveOf, Unspent, Rows
<1>3. \A f \in Family : InFlight(f)' = InFlight(f)
  BY DEF InFlight
<1>4. Rotating' = Rotating
  BY <1>3 DEF Rotating
<1> QED
  BY <1>1, <1>2, <1>4 DEF Chains!vars, Started, LiveOf, Rotating

\* A step of no rotation: revocations of families that were started.
LEMMA RevokeRevokes ==
    ASSUME NEW F \in SUBSET Family, Revoke(F), \A f \in F : owner[f] # None,
           UNCHANGED <<family, owner, used>>,
           \A q \in Request : /\ pc'[q] = "issue" <=> pc[q] = "issue"
                              /\ pc[q] = "issue" => tok'[q] = tok[q]
    PROVE  Chains!Next
<1>1. Started' = Started /\ Row' = Row /\ F \in SUBSET Started
  BY DEF Started, Row
<1>2. \A f \in Family : InFlight(f)' = InFlight(f)
  BY DEF InFlight
<1>3. Rotating' = Rotating
  BY <1>2 DEF Rotating
<1>4. ASSUME NEW f \in Family
      PROVE  (Unspent \cap Rows({f}))' = IF f \in F THEN {} ELSE Unspent \cap Rows({f})
  BY <1>1 DEF Revoke, Unspent, Rows, Row
<1>5. LiveOf' = [f \in Family |-> IF f \in F THEN {} ELSE LiveOf[f]]
  BY <1>4 DEF LiveOf
<1>6. Chains!Revoke(F)
  BY <1>1, <1>3, <1>5 DEF Chains!Revoke, Started, LiveOf, Rotating
<1> QED
  BY <1>1, <1>6 DEF Chains!Next, Started

\* A sign-in: the family was not started and now has the one new row.
LEMMA IssuePairSignsIn ==
    ASSUME IInv, NEW u \in User, IssuePair(u) PROVE Chains!Next
<1>1. PICK f \in Family, t \in Token :
        /\ owner[f] = None /\ owner' = [owner EXCEPT ![f] = u]
        /\ t \notin Row
        /\ family' = [family EXCEPT ![t] = f]
  BY DEF IssuePair, Insert
<1>2. /\ UNCHANGED <<used, revoked, pc, tok>>
      /\ Row' = Row \cup {t}
      /\ \A s \in Row : family'[s] = family[s] /\ family[s] # f
      /\ family'[t] = f
      /\ t \notin used \cup revoked
  BY <1>1, JwtRefreshAssumption DEF IssuePair, IInv, TypeOK, Row, Families
<1>3. f \notin Started /\ Started' = Started \cup {f}
  BY <1>1, JwtRefreshAssumption DEF Started, IInv, TypeOK
<1>4. \A g \in Family : InFlight(g)' = InFlight(g)
  BY <1>2 DEF InFlight, IInv, TypeOK
<1>5. Rotating' = Rotating
  BY <1>4 DEF Rotating
<1>6. ASSUME NEW g \in Family
      PROVE  (Unspent \cap Rows({g}))' = IF g = f THEN {t} ELSE Unspent \cap Rows({g})
  BY <1>2 DEF Unspent, Rows
<1>7. LiveOf' = [LiveOf EXCEPT ![f] = {t}]
  BY <1>6 DEF LiveOf
<1>8. Chains!SignIn(f)
  BY <1>1, <1>2, <1>3, <1>5, <1>7 DEF Chains!SignIn, Chains!HandOut, Started, LiveOf, Rotating
<1> QED
  BY <1>8 DEF Chains!Next

\* The UPDATE that wins spends the one token its family has; the one that
\* loses is no step.
LEMMA ClaimSpends ==
    ASSUME IInv, IInv', NEW r \in Request, Claim(r) PROVE [Chains!Next]_Chains!vars
<1>1. /\ UNCHANGED <<family, owner, revoked, tok>>
      /\ pc[r] = "claim" /\ tok[r] \in Row
      /\ \A q \in Request : q # r => pc'[q] = pc[q]
  BY DEF Claim, IInv, TypeOK
<1>2. CASE ClaimWins(tok[r])
  <2>1. used' = used \cup {tok[r]} /\ tok[r] \in Unspent /\ tok[r] \in Token
    BY <1>1, <1>2 DEF Claim, ClaimWins, Unspent, Row
  <2>2. pc'[r] = "issue"
    BY <1>1, <1>2 DEF Claim, IInv, TypeOK
  <2>3. PICK f \in Family : f = family[tok[r]]
    BY <1>1 DEF IInv, TypeOK, Row
  <2>4. InFlight(f) = {} /\ r \in InFlight(f)'
    BY <1>1, <2>1, <2>2, <2>3 DEF OneUnspentToken, Rows, InFlight, IInv
  <2>5. \A g \in Family : g # f => InFlight(g)' = InFlight(g)
    BY <1>1, <2>3 DEF InFlight
  <2>6. f \notin Rotating /\ Rotating' = Rotating \cup {f}
    BY <2>4, <2>5 DEF Rotating
  <2>7. Unspent \cap Rows({f}) = {tok[r]}
    BY <1>1, <2>1, <2>3 DEF OneUnspentToken, Rows, IInv
  <2>8. ASSUME NEW g \in Family
        PROVE  (Unspent \cap Rows({g}))' = IF g = f THEN {} ELSE Unspent \cap Rows({g})
    BY <1>1, <2>1, <2>3, <2>7 DEF Unspent, Rows, Row
  <2>9. LiveOf[f] = {tok[r]} /\ LiveOf' = [LiveOf EXCEPT ![f] = {}]
    BY <2>7, <2>8 DEF LiveOf
  <2>10. Started' = Started /\ Row' = Row
    BY <1>1 DEF Started, Row
  <2>11. Chains!Spend(f)
    BY <2>1, <2>6, <2>9, <2>10 DEF Chains!Spend, Started, LiveOf, Rotating
  <2> QED
    BY <2>11 DEF Chains!Next
<1>3. CASE ~ClaimWins(tok[r])
  <2>1. UNCHANGED used /\ pc'[r] = "burn"
    BY <1>1, <1>3 DEF Claim, IInv, TypeOK
  <2> QED
    BY <1>1, <2>1, ChainsStutter
<1> QED
  BY <1>2, <1>3

\* The INSERT of the successor ends the family's one rotation.
LEMMA IssueSucceeds ==
    ASSUME IInv, NEW r \in Request, Issue(r) PROVE Chains!Next
<1>0. PICK f \in Family : f = family[tok[r]] /\ f # None
  BY DEF Issue, IInv, TypeOK, Row
<1>1. PICK t \in Token : t \notin Row /\ family' = [family EXCEPT ![t] = f]
  BY <1>0 DEF Issue, Insert
<1>2. /\ UNCHANGED <<owner, used, revoked>>
      /\ pc[r] = "issue" /\ tok[r] \in Row
      /\ t \notin used \cup revoked
  BY <1>1 DEF Issue, IInv, TypeOK
<1>3. \A q \in Request : /\ pc'[q] = "issue" <=> q # r /\ pc[q] = "issue"
                         /\ q # r => tok'[q] = tok[q]
  BY DEF Issue, Return, IInv, TypeOK
<1>4. /\ Row' = Row \cup {t}
      /\ \A s \in Row : family'[s] = family[s]
      /\ family'[t] = f
  BY <1>0, <1>1, <1>2 DEF IInv, TypeOK, Row
<1>5. \A q \in Request : pc[q] = "issue" => tok[q] \in Row
  BY DEF IInv, TypeOK
<1>6. \A q \in Request : q # r /\ pc[q] = "issue" => family[tok[q]] # f
  BY <1>0, <1>2 DEF IInv, Flights
<1>7. r \in InFlight(f) /\ InFlight(f)' = {}
  BY <1>0, <1>2, <1>3, <1>4, <1>5, <1>6 DEF InFlight
<1>8. \A g \in Family : g # f => InFlight(g)' = InFlight(g)
  BY <1>0, <1>3, <1>4, <1>5 DEF InFlight
<1>9. f \in Rotating /\ Rotating' = Rotating \ {f}
  BY <1>7, <1>8 DEF Rotating
<1>10. Unspent \cap Rows({f}) = {}
  BY <1>7 DEF OneUnspentToken, IInv
<1>11. ASSUME NEW g \in Family
       PROVE  (Unspent \cap Rows({g}))' = IF g = f THEN {t} ELSE Unspent \cap Rows({g})
  BY <1>1, <1>2, <1>4, <1>10 DEF Unspent, Rows
<1>12. LiveOf' = [LiveOf EXCEPT ![f] = {t}]
  BY <1>11 DEF LiveOf
<1>13. Started' = Started
  BY <1>2 DEF Started
<1>14. Chains!Succeed(f)
  BY <1>1, <1>4, <1>9, <1>12, <1>13 DEF Chains!Succeed, Chains!HandOut, Started, LiveOf, Rotating
<1> QED
  BY <1>14 DEF Chains!Next

\* A call that ends early gives up the rotation it had under way, if any.
LEMMA AbortGivesUp ==
    ASSUME IInv, NEW r \in Request, Abort(r) PROVE [Chains!Next]_Chains!vars
<1>1. /\ UNCHANGED <<family, owner, used, revoked>>
      /\ \A q \in Request : /\ pc'[q] = "issue" <=> q # r /\ pc[q] = "issue"
                            /\ q # r => tok'[q] = tok[q]
  BY DEF Abort, Return, IInv, TypeOK
<1>2. CASE pc[r] = "issue"
  <2>1. PICK f \in Family : f = family[tok[r]]
    BY <1>2 DEF IInv, TypeOK, Row
  <2>2. \A q \in Request : q # r /\ pc[q] = "issue" => family[tok[q]] # f
    BY <1>2, <2>1 DEF IInv, Flights
  <2>3. r \in InFlight(f) /\ InFlight(f)' = {}
    BY <1>1, <1>2, <2>1, <2>2 DEF InFlight
  <2>4. \A g \in Family : g # f => InFlight(g)' = InFlight(g)
    BY <1>1, <2>1 DEF InFlight
  <2>5. f \in Rotating /\ Rotating' = Rotating \ {f}
    BY <2>3, <2>4 DEF Rotating
  <2>6. Started' = Started /\ Row' = Row
    BY <1>1 DEF Started, Row
  <2>7. LiveOf' = LiveOf
    BY <1>1, <2>6 DEF LiveOf, Unspent, Rows
  <2>8. Chains!GiveUp(f)
    BY <2>5, <2>6, <2>7 DEF Chains!GiveUp, Started, LiveOf, Rotating
  <2> QED
    BY <2>8 DEF Chains!Next
<1>3. CASE pc[r] # "issue"
  BY <1>1, <1>3, ChainsStutter
<1> QED
  BY <1>2, <1>3

LEMMA ChainsStep == IInv /\ IInv' /\ [Next]_vars => [Chains!Next]_Chains!vars
<1> SUFFICES ASSUME IInv, IInv', [Next]_vars PROVE [Chains!Next]_Chains!vars
  OBVIOUS
<1>1. ASSUME NEW u \in User, IssuePair(u) PROVE Chains!Next
  BY <1>1, IssuePairSignsIn
<1>2. ASSUME NEW r \in Request, NEW t \in Token, Present(r, t) PROVE UNCHANGED Chains!vars
  <2>1. /\ UNCHANGED <<family, owner, used, revoked>>
        /\ \A q \in Request : /\ pc'[q] = "issue" <=> pc[q] = "issue"
                              /\ pc[q] = "issue" => tok'[q] = tok[q]
    BY <1>2 DEF Present, IInv, TypeOK
  <2> QED
    BY <2>1, ChainsStutter
<1>3. ASSUME NEW r \in Request, Claim(r) PROVE [Chains!Next]_Chains!vars
  BY <1>3, ClaimSpends
<1>4. ASSUME NEW r \in Request, Burn(r) PROVE Chains!Next
  <2>1. tok[r] \in Row /\ family[tok[r]] \in Family /\ owner[family[tok[r]]] # None
    BY <1>4 DEF Burn, IInv, TypeOK, Families, Row
  <2>2. Revoke({family[tok[r]]}) /\ UNCHANGED <<family, owner, used>>
    BY <1>4 DEF Burn
  <2>3. \A q \in Request : /\ pc'[q] = "issue" <=> pc[q] = "issue"
                           /\ pc[q] = "issue" => tok'[q] = tok[q]
    BY <1>4 DEF Burn, Return, IInv, TypeOK
  <2> QED
    BY <2>1, <2>2, <2>3, RevokeRevokes
<1>5. ASSUME NEW r \in Request, Issue(r) PROVE Chains!Next
  BY <1>5, IssueSucceeds
<1>6. ASSUME NEW r \in Request, Abort(r) PROVE [Chains!Next]_Chains!vars
  BY <1>6, AbortGivesUp
<1>7. ASSUME NEW f \in Family, RevokeFamily(f) PROVE Chains!Next
  <2>1. {f} \in SUBSET Family /\ Revoke({f}) /\ owner[f] # None
    BY <1>7 DEF RevokeFamily
  <2>2. UNCHANGED <<family, owner, used, pc, tok>>
    BY <1>7 DEF RevokeFamily
  <2> QED
    BY <2>1, <2>2, RevokeRevokes
<1>8. ASSUME NEW u \in User, RevokeAllForUser(u) PROVE Chains!Next
  <2> DEFINE F == {f \in Family : owner[f] = u}
  <2>1. F \in SUBSET Family /\ Revoke(F) /\ \A f \in F : owner[f] # None
    BY <1>8, JwtRefreshAssumption DEF RevokeAllForUser
  <2>2. UNCHANGED <<family, owner, used, pc, tok>>
    BY <1>8 DEF RevokeAllForUser
  <2> HIDE DEF F
  <2> QED
    BY <2>1, <2>2, RevokeRevokes
<1>9. ASSUME NEW t \in Token, Expire(t) PROVE UNCHANGED Chains!vars
  <2>1. UNCHANGED <<family, owner, used, revoked, pc, tok>>
    BY <1>9 DEF Expire
  <2> QED
    BY <2>1, ChainsStutter
<1>10. CASE UNCHANGED vars
  <2>1. UNCHANGED <<family, owner, used, revoked, pc, tok>>
    BY <1>10 DEF vars
  <2> QED
    BY <2>1, ChainsStutter
<1> QED
  BY <1>1, <1>2, <1>3, <1>4, <1>5, <1>6, <1>7, <1>8, <1>9, <1>10 DEF Next

\* Refresh implements RefreshChains: whatever refreshes and revocations run
\* between each other's statements, and wherever a call ends, a family goes
\* from token to token one at a time.
THEOREM ChainsOfTokens == Spec => ImplementsChains
<1>1. Init => Chains!Init
  BY ChainsInitially
<1>2. IInv /\ IInv' /\ [Next]_vars => [Chains!Next]_Chains!vars
  BY ChainsStep
<1> QED
  BY <1>1, <1>2, Invariant, PTL DEF Spec, ImplementsChains, Chains!Spec
=============================================================================
