--------------------------- MODULE AuthServices_proofs ---------------------------
(***************************************************************************)
(* Proofs about the services of pyxle-auth, each by itself, for any number *)
(* of concurrent calls and any of the constants; the last section carries  *)
(* them over to AuthServices, whose behaviours are of one of the services. *)
(***************************************************************************)
EXTENDS AuthServices, FiniteSetTheorems, TLAPS

-----------------------------------------------------------------------------
(* ApiTokens: creates count and insert under the lock of the owner's row. *)

\* One create at a time is between the lock of a user's row and its COMMIT.
ApiLock == \A q, r \in Request : (/\ apiPc[q] \in {"count", "insert"}
                                  /\ apiPc[r] \in {"count", "insert"}
                                  /\ apiWho[q] = apiWho[r]) => q = r

\* The count that let a create go on to its INSERT still holds.
ApiCounted == \A r \in Request : apiPc[r] = "insert" => Cardinality(Api!Live(apiWho[r])) < Cap

ApiInv ==
    /\ Api!TypeOK
    /\ \A u \in Person : IsFiniteSet(Api!Live(u))
    /\ ApiLock /\ ApiCounted /\ CapHolds

\* ApiTokens counts with the library's Cardinality.
LEMMA ApiCounts == \A S : Api!Cardinality(S) = Cardinality(S)
BY DEF Api!Cardinality, Cardinality

LEMMA ApiInitially == Api!Init => ApiInv
<1> SUFFICES ASSUME Api!Init PROVE ApiInv
  OBVIOUS
<1>1. Api!TypeOK
  BY AuthServicesAssumption DEF Api!Init, Api!TypeOK, Api!Row
<1>2. \A u \in Person : Api!Live(u) = {}
  BY DEF Api!Init, Api!Live, Api!Row
<1>3. \A u \in Person : IsFiniteSet(Api!Live(u)) /\ Cardinality(Api!Live(u)) = 0
  BY <1>2, FS_EmptySet
<1>4. \A r \in Request : apiPc[r] = "idle"
  BY DEF Api!Init
<1>5. CapHolds
  BY <1>3, ApiCounts, AuthServicesAssumption DEF CapHolds, Api!CapHolds
<1> QED
  BY <1>1, <1>3, <1>4, <1>5 DEF ApiInv, ApiLock, ApiCounted

\* Types are kept.
LEMMA ApiTypeStep == Api!TypeOK /\ [Api!Next]_Api!vars => Api!TypeOK'
<1> SUFFICES ASSUME Api!TypeOK, [Api!Next]_Api!vars PROVE Api!TypeOK'
  OBVIOUS
<1> USE AuthServicesAssumption DEF Api!TypeOK, Api!Row, Api!table, Api!calls
<1>1. ASSUME NEW r \in Request, NEW u \in Person, Api!Create(r, u) PROVE Api!TypeOK'
  BY <1>1 DEF Api!Create
<1>2. ASSUME NEW r \in Request, Api!LockOwner(r) PROVE Api!TypeOK'
  BY <1>2 DEF Api!LockOwner
<1>3. ASSUME NEW r \in Request, Api!CountLive(r) PROVE Api!TypeOK'
  BY <1>3 DEF Api!CountLive, Api!Return
<1>4. ASSUME NEW r \in Request, Api!InsertToken(r) PROVE Api!TypeOK'
  BY <1>4 DEF Api!InsertToken, Api!Return
<1>5. ASSUME NEW r \in Request, Api!Touch(r) PROVE Api!TypeOK'
  BY <1>5 DEF Api!Touch, Api!Return
<1>6. ASSUME NEW r \in Request, Api!Abort(r) PROVE Api!TypeOK'
  BY <1>6 DEF Api!Abort, Api!Return
<1>7. ASSUME NEW r \in Request, NEW t \in Token, NEW S \in SUBSET Scope, Api!Resolve(r, t, S)
      PROVE  Api!TypeOK'
  BY <1>7 DEF Api!Resolve, Api!Usable
<1>8. ASSUME NEW u \in Person, Api!RevokeAll(u) PROVE Api!TypeOK'
  BY <1>8 DEF Api!RevokeAll, Api!Revocable
<1>9. ASSUME NEW u \in Person, NEW t \in Token, Api!Revoke(u, t) PROVE Api!TypeOK'
  BY <1>9 DEF Api!Revoke, Api!Revocable
<1>10. ASSUME NEW t \in Token, Api!Expire(t) PROVE Api!TypeOK'
  BY <1>10 DEF Api!Expire
<1>11. CASE Api!Minute
  BY <1>11 DEF Api!Minute
<1>12. CASE UNCHANGED Api!vars
  BY <1>12 DEF Api!vars
<1> QED
  BY <1>1, <1>2, <1>3, <1>4, <1>5, <1>6, <1>7, <1>8, <1>9, <1>10, <1>11, <1>12
  DEF Api!Next, Api!Statement

\* Only an INSERT adds to the live tokens of a user.
LEMMA ApiShrinks ==
    ASSUME ApiInv, Api!TypeOK', UNCHANGED apiOwner, apiRevoked \subseteq apiRevoked',
           apiExpired \subseteq apiExpired', NEW u \in Person
    PROVE  /\ IsFiniteSet(Api!Live(u)') /\ Cardinality(Api!Live(u)') \in Nat
           /\ Cardinality(Api!Live(u)') <= Cardinality(Api!Live(u))
           /\ Cardinality(Api!Live(u)) \in Nat
<1>1. Api!Live(u)' \subseteq Api!Live(u)
  BY DEF Api!Live, Api!Row
<1>2. IsFiniteSet(Api!Live(u))
  BY DEF ApiInv
<1> QED
  BY <1>1, <1>2, FS_Subset, FS_CardinalityType

\* A step that inserts nothing, and lets nobody else into the lock of a row.
LEMMA ApiKeeps ==
    ASSUME ApiInv, Api!TypeOK', UNCHANGED apiOwner, apiRevoked \subseteq apiRevoked',
           apiExpired \subseteq apiExpired',
           \A r \in Request : apiPc'[r] \in {"count", "insert"} =>
               /\ apiPc[r] \in {"count", "insert"} /\ apiWho'[r] = apiWho[r]
               /\ apiPc'[r] = "insert" => \/ apiPc[r] = "insert"
                                          \/ Cardinality(Api!Live(apiWho[r])) < Cap
    PROVE  ApiInv'
<1>1. \A u \in Person : /\ IsFiniteSet(Api!Live(u)') /\ Cardinality(Api!Live(u)') \in Nat
                        /\ Cardinality(Api!Live(u)') <= Cardinality(Api!Live(u))
                        /\ Cardinality(Api!Live(u)) \in Nat
  BY ApiShrinks
<1>2. CapHolds'
  BY <1>1, ApiCounts, AuthServicesAssumption DEF ApiInv, CapHolds, Api!CapHolds
<1>3. ApiCounted'
  <2> SUFFICES ASSUME NEW r \in Request, apiPc'[r] = "insert"
               PROVE  Cardinality(Api!Live(apiWho[r]))' < Cap
    BY DEF ApiCounted
  <2>1. PICK u \in Person : u = apiWho[r] /\ u = apiWho'[r]
    BY DEF ApiInv, Api!TypeOK
  <2>2. Cardinality(Api!Live(u)) < Cap
    BY <2>1 DEF ApiInv, ApiCounted
  <2>3. Cardinality(Api!Live(u)') < Cap
    BY <1>1, <2>2, AuthServicesAssumption
  <2> QED
    BY <2>1, <2>3
<1>4. ApiLock'
  BY DEF ApiInv, ApiLock
<1> QED
  BY <1>1, <1>2, <1>3, <1>4 DEF ApiInv

LEMMA ApiStep == ApiInv /\ [Api!Next]_Api!vars => ApiInv'
<1> SUFFICES ASSUME ApiInv, Api!TypeOK', [Api!Next]_Api!vars PROVE ApiInv'
  BY ApiTypeStep DEF ApiInv
<1>1. Api!TypeOK
  BY DEF ApiInv
<1> USE DEF Api!table, Api!calls
<1>2. ASSUME NEW r \in Request, NEW u \in Person, Api!Create(r, u) PROVE ApiInv'
  BY <1>1, <1>2, ApiKeeps DEF Api!Create, Api!TypeOK
<1>3. ASSUME NEW r \in Request, Api!LockOwner(r) PROVE ApiInv'
  <2>1. /\ UNCHANGED <<apiOwner, apiRevoked, apiExpired, apiWho>>
        /\ \A q \in Request \ {r} : apiPc'[q] = apiPc[q]
        /\ apiPc'[r] = "count"
    BY <1>1, <1>3 DEF Api!LockOwner, Api!TypeOK
  <2>2. \A u \in Person : /\ IsFiniteSet(Api!Live(u)) /\ Api!Live(u)' = Api!Live(u)
    BY <2>1 DEF ApiInv, Api!Live, Api!Row
  <2>3. \A q \in Request : apiPc[q] \in {"count", "insert"} => apiWho[q] # apiWho[r]
    BY <1>3 DEF Api!LockOwner, Api!LockFree, Api!Holding
  <2>4. ApiLock'
    BY <2>1, <2>3 DEF ApiInv, ApiLock
  <2>5. ApiCounted'
    <3> SUFFICES ASSUME NEW q \in Request, apiPc'[q] = "insert"
                 PROVE  Cardinality(Api!Live(apiWho[q]))' < Cap
      BY DEF ApiCounted
    <3>1. PICK u \in Person : u = apiWho[q] /\ u = apiWho'[q] /\ apiPc[q] = "insert"
      BY <1>1, <2>1 DEF Api!TypeOK
    <3> QED
      BY <2>2, <3>1 DEF ApiInv, ApiCounted
  <2>6. CapHolds'
    BY <2>2 DEF ApiInv, CapHolds, Api!CapHolds
  <2> QED
    BY <2>2, <2>4, <2>5, <2>6 DEF ApiInv
<1>4. ASSUME NEW r \in Request, Api!CountLive(r) PROVE ApiInv'
  <2>1. IsFiniteSet(Api!Live(apiWho[r])) /\ Cardinality(Api!Live(apiWho[r])) \in Nat
    BY <1>1, <1>4, FS_CardinalityType DEF ApiInv, Api!CountLive, Api!TypeOK
  <2> QED
    BY <1>1, <1>4, <2>1, ApiCounts, ApiKeeps, AuthServicesAssumption
    DEF Api!CountLive, Api!Return, Api!TypeOK
<1>5. ASSUME NEW r \in Request, Api!InsertToken(r) PROVE ApiInv'
  <2>1. PICK u \in Person : u = apiWho[r] /\ apiPc[r] = "insert"
    BY <1>1, <1>5 DEF Api!InsertToken, Api!TypeOK
  <2>2. PICK t \in Token \ Api!Row : apiOwner' = [apiOwner EXCEPT ![t] = u]
    BY <1>5, <2>1 DEF Api!InsertToken
  <2>3. /\ UNCHANGED <<apiRevoked, apiExpired>> /\ apiPc'[r] = "idle"
        /\ \A q \in Request \ {r} : apiPc'[q] = apiPc[q] /\ apiWho'[q] = apiWho[q]
    BY <1>1, <1>5 DEF Api!InsertToken, Api!Return, Api!TypeOK
  <2>4. Api!Live(u)' = Api!Live(u) \cup {t} /\ t \notin Api!Live(u)
    BY <1>1, <2>2, <2>3, AuthServicesAssumption DEF Api!Live, Api!Row, Api!TypeOK
  <2>5. \A v \in Person \ {u} : Api!Live(v)' = Api!Live(v)
    BY <1>1, <2>2, <2>3, AuthServicesAssumption DEF Api!Live, Api!Row, Api!TypeOK
  <2>6. /\ IsFiniteSet(Api!Live(u)) /\ Cardinality(Api!Live(u)) < Cap
        /\ Cardinality(Api!Live(u)) \in Nat
    BY <2>1, FS_CardinalityType DEF ApiInv, ApiCounted
  <2>7. IsFiniteSet(Api!Live(u)') /\ Cardinality(Api!Live(u)') <= Cap
    <3>1. /\ IsFiniteSet(Api!Live(u) \cup {t})
          /\ Cardinality(Api!Live(u) \cup {t}) = Cardinality(Api!Live(u)) + 1
      BY <2>4, <2>6, FS_AddElement, Zenon
    <3> QED
      BY <2>4, <2>6, <3>1, AuthServicesAssumption
  <2>8. CapHolds'
    BY <2>5, <2>7, ApiCounts DEF ApiInv, CapHolds, Api!CapHolds
  <2>9. ApiCounted'
    <3> SUFFICES ASSUME NEW q \in Request, apiPc'[q] = "insert"
                 PROVE  Cardinality(Api!Live(apiWho[q]))' < Cap
      BY DEF ApiCounted
    <3>1. PICK v \in Person : /\ v = apiWho[q] /\ v = apiWho'[q]
                              /\ q # r /\ apiPc[q] = "insert"
      BY <1>1, <2>3 DEF Api!TypeOK
    <3>2. v # u
      BY <2>1, <3>1 DEF ApiInv, ApiLock
    <3> QED
      BY <2>5, <3>1, <3>2 DEF ApiInv, ApiCounted
  <2>10. ApiLock'
    BY <2>3 DEF ApiInv, ApiLock
  <2>11. \A v \in Person : IsFiniteSet(Api!Live(v)')
    BY <2>5, <2>7 DEF ApiInv
  <2> QED
    BY <2>8, <2>9, <2>10, <2>11 DEF ApiInv
<1>6. ASSUME NEW r \in Request, Api!Touch(r) \/ Api!Abort(r) PROVE ApiInv'
  BY <1>1, <1>6, ApiKeeps DEF Api!Touch, Api!Abort, Api!Return, Api!TypeOK
<1>7. ASSUME NEW r \in Request, NEW t \in Token, NEW S \in SUBSET Scope, Api!Resolve(r, t, S)
      PROVE  ApiInv'
  BY <1>1, <1>7, ApiKeeps DEF Api!Resolve, Api!TypeOK
<1>8. ASSUME \/ \E u \in Person : Api!RevokeAll(u) \/ \E t \in Token : Api!Revoke(u, t)
             \/ \E t \in Token : Api!Expire(t)
             \/ Api!Minute \/ UNCHANGED Api!vars
      PROVE  ApiInv'
  BY <1>1, <1>8, ApiKeeps DEF Api!RevokeAll, Api!Revoke, Api!Expire, Api!Minute, Api!vars
<1> QED
  BY <1>2, <1>3, <1>4, <1>5, <1>6, <1>7, <1>8 DEF Api!Next, Api!Statement

\* The abstract allowance counts with the library's Cardinality, too.
LEMMA AllowanceCounts == \A S : Api!Allowance!Cardinality(S) = Cardinality(S)
BY DEF Api!Allowance!Cardinality, Cardinality

\* A token is live for the allowance when it is for the table.
LEMMA AllowanceLive == \A u \in Person : Api!Allowance!Live(u) = Api!Live(u)
BY AuthServicesAssumption DEF Api!Allowance!Live, Api!Allowance!Issued, Api!Live, Api!Row

\* Every step of the service is a grant within the cap, a withdrawal or nothing to
\* the allowance.
LEMMA AllowanceStep ==
    ASSUME ApiInv, [Api!Next]_Api!vars
    PROVE  [Api!Allowance!Next]_(Api!Allowance!vars)
<1>1. Api!TypeOK
  BY DEF ApiInv
<1> USE DEF Api!table, Api!calls
<1>2. ASSUME NEW r \in Request, Api!InsertToken(r) PROVE Api!Allowance!Next
  <2>1. PICK u \in Person : u = apiWho[r] /\ apiPc[r] = "insert"
    BY <1>1, <1>2 DEF Api!InsertToken, Api!TypeOK
  <2>2. PICK t \in Token \ Api!Row, S \in (SUBSET Scope) \ {{}} :
            /\ apiOwner' = [apiOwner EXCEPT ![t] = u]
            /\ scopes' = [scopes EXCEPT ![t] = S]
    BY <1>2, <2>1 DEF Api!InsertToken
  <2>3. UNCHANGED <<apiRevoked, apiExpired>>
    BY <1>2 DEF Api!InsertToken
  <2>4. Api!Allowance!Cardinality(Api!Allowance!Live(u)) < Cap
    BY <2>1, AllowanceCounts, AllowanceLive DEF ApiInv, ApiCounted
  <2>5. Api!Allowance!Grant(u, t, S)
    BY <2>2, <2>3, <2>4 DEF Api!Allowance!Grant, Api!Row
  <2> QED
    BY <2>5 DEF Api!Allowance!Next
<1>3. ASSUME UNCHANGED <<apiOwner, scopes>>, NEW u \in Person, NEW some,
             some \subseteq {t \in Token : apiOwner[t] = u},
             apiRevoked' \cup apiExpired' = (apiRevoked \cup apiExpired) \cup some
      PROVE  Api!Allowance!Next
  BY <1>3 DEF Api!Allowance!Next, Api!Allowance!Withdraw, Api!Allowance!Issued
<1>4. ASSUME NEW u \in Person, Api!RevokeAll(u) \/ \E t \in Token : Api!Revoke(u, t)
      PROVE  Api!Allowance!Next
  <2>1. PICK some : /\ some \subseteq {t \in Token : apiOwner[t] = u}
                    /\ apiRevoked' = apiRevoked \cup some
    <3>1. CASE Api!RevokeAll(u)
      <4>1. {t \in Token : Api!Revocable(u, t)} \subseteq {t \in Token : apiOwner[t] = u}
        BY DEF Api!Revocable
      <4> QED
        BY <3>1, <4>1 DEF Api!RevokeAll
    <3>2. CASE \E t \in Token : Api!Revoke(u, t)
      <4>1. PICK t \in Token : Api!Revoke(u, t)
        BY <3>2
      <4>2. {t} \subseteq {k \in Token : apiOwner[k] = u} /\ apiRevoked' = apiRevoked \cup {t}
        BY <4>1 DEF Api!Revoke, Api!Revocable
      <4> QED
        BY <4>2
    <3> QED
      BY <1>4, <3>1, <3>2
  <2>2. UNCHANGED <<apiOwner, scopes, apiExpired>>
    BY <1>4 DEF Api!RevokeAll, Api!Revoke
  <2>3. apiRevoked' \cup apiExpired' = (apiRevoked \cup apiExpired) \cup some
    BY <2>1, <2>2
  <2> QED
    BY <1>3, <2>1, <2>2, <2>3
<1>5. ASSUME NEW t \in Token, Api!Expire(t) PROVE Api!Allowance!Next
  <2>1. UNCHANGED <<apiOwner, scopes, apiRevoked>> /\ apiExpired' = apiExpired \cup {t}
    BY <1>5 DEF Api!Expire
  <2>2. PICK u \in Person : apiOwner[t] = u
    BY <1>1, <1>5 DEF Api!Expire, Api!Row, Api!TypeOK
  <2> DEFINE some == {t}
  <2>3. /\ some \subseteq {k \in Token : apiOwner[k] = u}
        /\ apiRevoked' \cup apiExpired' = (apiRevoked \cup apiExpired) \cup some
    BY <2>1, <2>2
  <2> HIDE DEF some
  <2> QED
    BY <1>3, <2>1, <2>3
<1>6. ASSUME NEW r \in Request,
             \/ Api!LockOwner(r) \/ Api!CountLive(r) \/ Api!Touch(r) \/ Api!Abort(r)
             \/ \E u \in Person : Api!Create(r, u)
             \/ \E t \in Token, S \in SUBSET Scope : Api!Resolve(r, t, S)
      PROVE  UNCHANGED <<apiOwner, scopes, apiRevoked, apiExpired>>
  BY <1>6 DEF Api!LockOwner, Api!CountLive, Api!Touch, Api!Abort, Api!Create, Api!Resolve
<1>7. CASE Api!Minute \/ UNCHANGED Api!vars
  BY <1>7 DEF Api!Minute, Api!vars, Api!Allowance!vars
<1> QED
  BY <1>2, <1>4, <1>5, <1>6, <1>7 DEF Api!Next, Api!Statement, Api!Allowance!vars

LEMMA AllowanceInitially == Api!Init => Api!Allowance!Init
BY DEF Api!Init, Api!Allowance!Init

-----------------------------------------------------------------------------
(* Roles: a deletion that no grant of the role runs beside deletes every    *)
(* grant of it.                                                             *)

\* Such a deletion holds, in what its first DELETE matched, every grant that
\* there is; once it has committed there is none, and none under way.
RoleInv ==
    /\ Role!TypeOK
    /\ \A r \in quiet : /\ rolePc[r] = "delete" /\ Role!Granting(name[r]) = {}
                        /\ Role!Holders(name[r]) \subseteq batch[r]
    /\ \A n \in cleared : Role!Granting(n) = {}
    /\ DeletedRoleIsEmpty

LEMMA RoleInitially == Role!Init => RoleInv
BY AuthServicesAssumption
DEF Role!Init, RoleInv, Role!TypeOK, DeletedRoleIsEmpty, Role!DeletedRoleIsEmpty

\* Types are kept.
LEMMA RoleTypeStep == Role!TypeOK /\ [Role!Next]_Role!vars => Role!TypeOK'
<1> SUFFICES ASSUME Role!TypeOK, [Role!Next]_Role!vars PROVE Role!TypeOK'
  OBVIOUS
<1> USE AuthServicesAssumption DEF Role!TypeOK, Role!locals, Role!Call, Role!Return, Role!MayBegin
<1>1. ASSUME NEW r \in Request, Role!InsertRole(r) PROVE Role!TypeOK'
  BY <1>1 DEF Role!InsertRole
<1>2. ASSUME NEW r \in Request, Role!Settle(r) PROVE Role!TypeOK'
  BY <1>2 DEF Role!Settle
<1>3. ASSUME NEW r \in Request, Role!DeleteRole(r) PROVE Role!TypeOK'
  BY <1>3 DEF Role!DeleteRole
<1>4. ASSUME NEW r \in Request, Role!InsertGrant(r) PROVE Role!TypeOK'
  BY <1>4 DEF Role!InsertGrant
<1>5. ASSUME NEW r \in Request, Role!Abort(r) PROVE Role!TypeOK'
  BY <1>5 DEF Role!Abort
<1>6. ASSUME NEW r \in Request, NEW n \in RoleName, Role!DeleteGrants(r, n) PROVE Role!TypeOK'
  BY <1>6 DEF Role!DeleteGrants, Role!Cascaded, Role!Holders
<1>7. ASSUME NEW r \in Request, NEW n \in RoleName, NEW u \in User, Role!GrantRole(r, u, n)
      PROVE  Role!TypeOK'
  BY <1>7 DEF Role!GrantRole
<1>8. ASSUME NEW r \in Request, NEW n \in RoleName, NEW P \in SUBSET Permission, Role!Redefine(r, n, P)
      PROVE  Role!TypeOK'
  BY <1>8 DEF Role!Redefine
<1>9. ASSUME NEW r \in Request, NEW n \in RoleName, NEW P \in SUBSET Permission, Role!Define(r, n, P)
      PROVE  Role!TypeOK'
  BY <1>9 DEF Role!Define
<1>10. ASSUME NEW u \in User, NEW n \in RoleName, Role!RevokeRole(u, n) PROVE Role!TypeOK'
  BY <1>10 DEF Role!RevokeRole
<1>11. CASE UNCHANGED Role!vars
  BY <1>11 DEF Role!vars
<1> QED
  BY <1>1, <1>2, <1>3, <1>4, <1>5, <1>6, <1>7, <1>8, <1>9, <1>10, <1>11 DEF Role!Next

LEMMA RoleStep == RoleInv /\ [Role!Next]_Role!vars => RoleInv'
<1> SUFFICES ASSUME RoleInv, Role!TypeOK, Role!TypeOK', [Role!Next]_Role!vars PROVE RoleInv'
  BY RoleTypeStep DEF RoleInv
<1> USE DEF RoleInv, Role!TypeOK, Role!locals, Role!Call, Role!Return, Role!MayBegin, Role!Holders,
            Role!Granting, DeletedRoleIsEmpty, Role!DeletedRoleIsEmpty
<1>1. ASSUME NEW r \in Request, Role!InsertRole(r) PROVE RoleInv'
  BY <1>1 DEF Role!InsertRole
<1>2. ASSUME NEW r \in Request, Role!Settle(r) PROVE RoleInv'
  BY <1>2 DEF Role!Settle
<1>3. ASSUME NEW r \in Request, Role!DeleteRole(r) PROVE RoleInv'
  BY <1>3 DEF Role!DeleteRole
<1>4. ASSUME NEW r \in Request, Role!InsertGrant(r) PROVE RoleInv'
  BY <1>4 DEF Role!InsertGrant
<1>5. ASSUME NEW r \in Request, Role!Abort(r) PROVE RoleInv'
  BY <1>5 DEF Role!Abort
<1>6. ASSUME NEW r \in Request, NEW n \in RoleName, Role!DeleteGrants(r, n) PROVE RoleInv'
  BY <1>6 DEF Role!DeleteGrants, Role!Cascaded
<1>7. ASSUME NEW r \in Request, NEW n \in RoleName, NEW u \in User, Role!GrantRole(r, u, n)
      PROVE  RoleInv'
  BY <1>7 DEF Role!GrantRole, Role!Deleting
<1>8. ASSUME NEW r \in Request, NEW n \in RoleName, NEW P \in SUBSET Permission, Role!Redefine(r, n, P)
      PROVE  RoleInv'
  BY <1>8 DEF Role!Redefine
<1>9. ASSUME NEW r \in Request, NEW n \in RoleName, NEW P \in SUBSET Permission, Role!Define(r, n, P)
      PROVE  RoleInv'
  BY <1>9 DEF Role!Define
<1>10. ASSUME NEW u \in User, NEW n \in RoleName, Role!RevokeRole(u, n) PROVE RoleInv'
  BY <1>10 DEF Role!RevokeRole
<1>11. CASE UNCHANGED Role!vars
  BY <1>11 DEF Role!vars
<1> QED
  BY <1>1, <1>2, <1>3, <1>4, <1>5, <1>6, <1>7, <1>8, <1>9, <1>10, <1>11 DEF Role!Next

\* Where transactions exclude each other, a call between its two statements finds
\* what its first one saw: the role is still there, still missing, or still has no
\* grant that its deletion does not take along.
SerialRoleInv == Serial =>
    /\ Role!NoOrphanGrant /\ Role!DefineTakesEffect
    /\ \A q, r \in Role!Open : q = r
    /\ \A r \in Request :
         /\ rolePc[r] # "settle"
         /\ rolePc[r] = "define" => perms[name[r]] = None
         /\ rolePc[r] = "grant" => perms[name[r]] # None
         /\ rolePc[r] = "delete" => Role!Holders(name[r]) \subseteq batch[r]

LEMMA SerialRoleInitially == Role!Init => SerialRoleInv
BY DEF Role!Init, SerialRoleInv, Role!Open, Role!NoOrphanGrant, Role!DefineTakesEffect

LEMMA SerialRoleStep ==
    Role!TypeOK /\ Role!TypeOK' /\ SerialRoleInv /\ [Role!Next]_Role!vars => SerialRoleInv'
<1> SUFFICES ASSUME Serial, Role!TypeOK, Role!TypeOK', SerialRoleInv, [Role!Next]_Role!vars
             PROVE  SerialRoleInv'
  BY DEF SerialRoleInv
<1> USE AuthServicesAssumption
    DEF SerialRoleInv, Role!TypeOK, Role!locals, Role!Call, Role!Return, Role!MayBegin,
        Role!Holders, Role!Open, Role!NoOrphanGrant, Role!DefineTakesEffect
<1>1. ASSUME NEW r \in Request, Role!InsertRole(r) PROVE SerialRoleInv'
  BY <1>1 DEF Role!InsertRole
<1>2. ASSUME NEW r \in Request, Role!Settle(r) PROVE SerialRoleInv'
  BY <1>2 DEF Role!Settle
<1>3. ASSUME NEW r \in Request, Role!DeleteRole(r) PROVE SerialRoleInv'
  BY <1>3 DEF Role!DeleteRole
<1>4. ASSUME NEW r \in Request, Role!InsertGrant(r) PROVE SerialRoleInv'
  BY <1>4 DEF Role!InsertGrant
<1>5. ASSUME NEW r \in Request, Role!Abort(r) PROVE SerialRoleInv'
  BY <1>5 DEF Role!Abort
<1>6. ASSUME NEW r \in Request, NEW n \in RoleName, Role!DeleteGrants(r, n) PROVE SerialRoleInv'
  BY <1>6 DEF Role!DeleteGrants, Role!Cascaded
<1>7. ASSUME NEW r \in Request, NEW n \in RoleName, NEW u \in User, Role!GrantRole(r, u, n)
       PROVE  SerialRoleInv'
  BY <1>7 DEF Role!GrantRole, Role!Defined
<1>8. ASSUME NEW r \in Request, NEW n \in RoleName, NEW P \in SUBSET Permission, Role!Redefine(r, n, P)
       PROVE  SerialRoleInv'
  BY <1>8 DEF Role!Redefine
<1>9. ASSUME NEW r \in Request, NEW n \in RoleName, NEW P \in SUBSET Permission, Role!Define(r, n, P)
       PROVE  SerialRoleInv'
  BY <1>9 DEF Role!Define
<1>10. ASSUME NEW u \in User, NEW n \in RoleName, Role!RevokeRole(u, n) PROVE SerialRoleInv'
  BY <1>10 DEF Role!RevokeRole
<1>11. CASE UNCHANGED Role!vars
  BY <1>11 DEF Role!vars
<1> QED
  BY <1>1, <1>2, <1>3, <1>4, <1>5, <1>6, <1>7, <1>8, <1>9, <1>10, <1>11 DEF Role!Next

-----------------------------------------------------------------------------
(* OAuthSignIn: what a callback acts on is what the flow, the provider and  *)
(* the tables said before, however many statements ago.                     *)

\* Variables have their types, and what was redeemed at the provider was
\* somebody's.
OAuthTyped ==
    /\ OAuth!TypeOK
    /\ \A n \in Nonce : flow[n] \in {"code", "spent"} => subject[n] # None
    /\ \A r \in Request : oauthPc[r] = "exchange" => flow[nonce[r]] \in {"code", "spent"}

\* A nonce is in use by one browser: whoever holds it in a cookie, or brings it
\* to a callback, started the flow.
OAuthOwn ==
    /\ \A b \in Browser : cookie[b] # None => flow[cookie[b]] # "unused" /\ starter[cookie[b]] = b
    /\ \A r \in Request : oauthPc[r] # "idle" => flow[nonce[r]] # "unused"
    /\ OwnFlowOnly

\* An account keeps the address it was made with, and nothing refers to one that
\* was not made.
OAuthHomes ==
    /\ \A u \in Person : /\ mail[u] \in Email => home[u] = mail[u]
                         /\ mail[u] = None <=> home[u] = None
    /\ \A i \in Identity : link[i] # None => mail[link[i]] # None
    /\ \A r \in Request : /\ user[r] # None => mail[user[r]] # None
                          /\ oauthPc[r] \in {"match", "create"} => address[r] \in Email

\* The callback acts for an identity and an address the provider has verified for
\* it, from the lookup of the account to its session.
OAuthReaches ==
    /\ \A i \in Identity : link[i] # None => <<i, home[link[i]]>> \in vouches
    /\ \A r \in Request :
         /\ vouched[r] => address[r] \in Email /\ <<oauthWho[r], address[r]>> \in vouches
         /\ oauthPc[r] \in {"match", "create"} => vouched[r]
         /\ oauthPc[r] \in {"load", "unlink", "link", "link_stamp", "stamp", "session"} =>
              <<oauthWho[r], home[user[r]]>> \in vouches

\* Only a link to an account that was deleted is dropped.
OAuthLinked ==
    /\ \A r \in Request : oauthPc[r] = "unlink" => mail[user[r]] = Gone
    /\ (\A u \in Person : mail[u] # Gone) =>
         \A r \in Request : oauthPc[r] \in {"load", "stamp", "session"} => link[oauthWho[r]] # None

OAuthInv == OAuthTyped /\ OAuthOwn /\ OAuthHomes /\ OAuthReaches /\ OAuthLinked

LEMMA OAuthInitially == OAuth!Init => OAuthInv
BY AuthServicesAssumption
DEF OAuth!Init, OAuthInv, OAuthTyped, OAuth!TypeOK, OAuthOwn, OwnFlowOnly, OAuth!OwnFlowOnly,
    OAuthHomes, OAuthReaches, OAuthLinked

\* Types are kept.
LEMMA OAuthTypedStep == OAuthTyped /\ [OAuth!Next]_OAuth!vars => OAuthTyped'
<1> SUFFICES ASSUME OAuthTyped, [OAuth!Next]_OAuth!vars PROVE OAuthTyped'
  OBVIOUS
<1> USE AuthServicesAssumption DEF OAuthTyped, OAuth!TypeOK, OAuth!table, OAuth!locals, OAuth!history
<1>1. ASSUME NEW b \in Browser, OAuth!Start(b) PROVE OAuthTyped'
  BY <1>1 DEF OAuth!Start
<1>2. ASSUME NEW b \in Browser, OAuth!ExpireCookie(b) PROVE OAuthTyped'
  BY <1>2 DEF OAuth!ExpireCookie, OAuth!ClearCookie
<1>3. ASSUME NEW b \in Browser, NEW n \in Nonce, OAuth!RejectCallback(b, n) PROVE OAuthTyped'
  BY <1>3 DEF OAuth!RejectCallback, OAuth!ClearCookie
<1>4. ASSUME NEW n \in Nonce, NEW i \in Identity, OAuth!Consent(n, i) PROVE OAuthTyped'
  BY <1>4 DEF OAuth!Consent
<1>5. ASSUME NEW r \in Request, NEW b \in Browser, NEW n \in Nonce, OAuth!Callback(r, b, n)
      PROVE  OAuthTyped'
  BY <1>5 DEF OAuth!Callback, OAuth!Matches
<1>6. ASSUME NEW r \in Request, OAuth!Exchange(r) PROVE OAuthTyped'
  BY <1>6 DEF OAuth!Exchange
<1>7. ASSUME NEW r \in Request, OAuth!ExchangeFails(r) PROVE OAuthTyped'
  BY <1>7 DEF OAuth!ExchangeFails, OAuth!Fail, OAuth!ClearCookie, OAuth!Return
<1>8. ASSUME NEW r \in Request, OAuth!FindLink(r) PROVE OAuthTyped'
  <2>1. CASE link[oauthWho[r]] # None
    BY <1>8, <2>1 DEF OAuth!FindLink, OAuth!Goto
  <2>2. CASE link[oauthWho[r]] = None /\ OAuth!MayMatch(r)
    BY <1>8, <2>2 DEF OAuth!FindLink, OAuth!GoMatch, OAuth!MayMatch, OAuth!Goto
  <2>3. CASE link[oauthWho[r]] = None /\ ~OAuth!MayMatch(r)
    <3>1. at[r] \in Browser
      BY <1>8 DEF OAuth!FindLink
    <3>2. OAuth!Fail(r) /\ UNCHANGED <<flow, subject, mail, verified, link, starter, home, vouches, severed>>
      BY <1>8, <2>3 DEF OAuth!FindLink, OAuth!GoMatch
    <3> QED
      BY <3>1, <3>2 DEF OAuth!Fail, OAuth!ClearCookie, OAuth!Return
  <2> QED
    BY <2>1, <2>2, <2>3
<1>9. ASSUME NEW r \in Request, OAuth!LoadUser(r) PROVE OAuthTyped'
  BY <1>9 DEF OAuth!LoadUser, OAuth!Goto, OAuth!Exists
<1>10. ASSUME NEW r \in Request, OAuth!Unlink(r) PROVE OAuthTyped'
  <2>1. CASE OAuth!MayMatch(r)
    BY <1>10, <2>1 DEF OAuth!Unlink, OAuth!GoMatch, OAuth!MayMatch, OAuth!Goto
  <2>2. CASE ~OAuth!MayMatch(r)
    <3>1. at[r] \in Browser /\ oauthWho[r] \in Identity
      BY <1>10 DEF OAuth!Unlink
    <3>2. /\ OAuth!Fail(r) /\ UNCHANGED <<flow, subject, mail, verified, starter, home, vouches>>
          /\ link' = [link EXCEPT ![oauthWho[r]] = None]
          /\ severed' \in {severed, severed \cup {oauthWho[r]}}
      BY <1>10, <2>2 DEF OAuth!Unlink, OAuth!GoMatch
    <3> QED
      BY <3>1, <3>2 DEF OAuth!Fail, OAuth!ClearCookie, OAuth!Return
  <2> QED
    BY <2>1, <2>2
<1>11. ASSUME NEW r \in Request, OAuth!MatchAddress(r) PROVE OAuthTyped'
  BY <1>11 DEF OAuth!MatchAddress, OAuth!Goto
<1>12. ASSUME NEW r \in Request, OAuth!CreateUser(r) PROVE OAuthTyped'
  <2>1. CASE OAuth!Return(r) /\ UNCHANGED <<mail, verified, home>>
    BY <1>12, <2>1 DEF OAuth!CreateUser, OAuth!Return
  <2>2. ASSUME NEW u \in Person, mail[u] = None, mail' = [mail EXCEPT ![u] = address[r]],
               verified' = verified \cup {u}, home' = [home EXCEPT ![u] = address[r]],
               user' = [user EXCEPT ![r] = u], OAuth!Goto(r, "link")
        PROVE  OAuthTyped'
    <3>1. /\ oauthPc' = [oauthPc EXCEPT ![r] = "link"] /\ oauthPc[r] = "create"
          /\ UNCHANGED <<cookie, flow, subject, link, starter, vouches, severed,
                         at, nonce, oauthWho, address, vouched>>
      BY <1>12, <2>2 DEF OAuth!CreateUser, OAuth!Goto
    <3>2. /\ mail' \in [Person -> Email \cup {None, Gone}] /\ verified' \subseteq Person
          /\ home' \in [Person -> Email \cup {None}] /\ user' \in [Request -> Person \cup {None}]
      BY <2>2
    <3>3. \A q \in Request : user[q] # None => user'[q] # None
      BY <2>2
    <3> QED
      BY <2>2, <3>1, <3>2, <3>3
  <2> QED
    BY <1>12, <2>1, <2>2 DEF OAuth!CreateUser
<1>13. ASSUME NEW r \in Request, OAuth!Link(r) PROVE OAuthTyped'
  BY <1>13 DEF OAuth!Link, OAuth!Linkable, OAuth!Exists, OAuth!Goto
<1>14. ASSUME NEW r \in Request, OAuth!Stamp(r) PROVE OAuthTyped'
  BY <1>14 DEF OAuth!Stamp, OAuth!Exists, OAuth!Goto
<1>15. ASSUME NEW r \in Request, OAuth!OpenSession(r) PROVE OAuthTyped'
  BY <1>15 DEF OAuth!OpenSession, OAuth!Exists, OAuth!ClearCookie, OAuth!Return
<1>16. ASSUME NEW r \in Request, OAuth!Abort(r) PROVE OAuthTyped'
  BY <1>16 DEF OAuth!Abort, OAuth!Return
<1>17. ASSUME NEW u \in Person, OAuth!DeleteAccount(u) PROVE OAuthTyped'
  BY <1>17 DEF OAuth!DeleteAccount, OAuth!Exists
<1>18. ASSUME NEW u \in Person, NEW e \in Email, OAuth!SignUp(u, e) PROVE OAuthTyped'
  BY <1>18 DEF OAuth!SignUp
<1>19. CASE UNCHANGED OAuth!vars
  BY <1>19 DEF OAuth!vars
<1> QED
  BY <1>1, <1>2, <1>3, <1>4, <1>5, <1>6, <1>7, <1>8, <1>9, <1>10, <1>11, <1>12, <1>13, <1>14,
     <1>15, <1>16, <1>17, <1>18, <1>19
  DEF OAuth!Next

\* Whoever starts a flow draws a nonce nobody has.
LEMMA OAuthOwnStep == OAuthTyped /\ OAuthTyped' /\ OAuthOwn /\ [OAuth!Next]_OAuth!vars => OAuthOwn'
<1> SUFFICES ASSUME OAuthTyped, OAuthTyped', OAuthOwn, [OAuth!Next]_OAuth!vars PROVE OAuthOwn'
  OBVIOUS
<1> USE AuthServicesAssumption DEF OAuthTyped, OAuth!TypeOK, OAuth!table, OAuth!locals, OAuth!history,
                                   OAuthOwn, OwnFlowOnly, OAuth!OwnFlowOnly
<1>1. ASSUME NEW b \in Browser, OAuth!Start(b) PROVE OAuthOwn'
  BY <1>1 DEF OAuth!Start
<1>2. ASSUME NEW b \in Browser, OAuth!ExpireCookie(b) PROVE OAuthOwn'
  BY <1>2 DEF OAuth!ExpireCookie, OAuth!ClearCookie
<1>3. ASSUME NEW b \in Browser, NEW n \in Nonce, OAuth!RejectCallback(b, n) PROVE OAuthOwn'
  BY <1>3 DEF OAuth!RejectCallback, OAuth!ClearCookie
<1>4. ASSUME NEW n \in Nonce, NEW i \in Identity, OAuth!Consent(n, i) PROVE OAuthOwn'
  BY <1>4 DEF OAuth!Consent
<1>5. ASSUME NEW r \in Request, NEW b \in Browser, NEW n \in Nonce, OAuth!Callback(r, b, n)
      PROVE  OAuthOwn'
  BY <1>5 DEF OAuth!Callback, OAuth!Matches
<1>6. ASSUME NEW r \in Request, OAuth!Exchange(r) PROVE OAuthOwn'
  BY <1>6 DEF OAuth!Exchange
<1>7. ASSUME NEW r \in Request, OAuth!ExchangeFails(r) PROVE OAuthOwn'
  BY <1>7 DEF OAuth!ExchangeFails, OAuth!Fail, OAuth!ClearCookie, OAuth!Return
<1>8. ASSUME NEW r \in Request, OAuth!FindLink(r) PROVE OAuthOwn'
  BY <1>8 DEF OAuth!FindLink, OAuth!GoMatch, OAuth!MayMatch, OAuth!Goto, OAuth!Fail, OAuth!ClearCookie,
          OAuth!Return
<1>9. ASSUME NEW r \in Request, OAuth!LoadUser(r) PROVE OAuthOwn'
  BY <1>9 DEF OAuth!LoadUser, OAuth!Goto, OAuth!Exists
<1>10. ASSUME NEW r \in Request, OAuth!Unlink(r) PROVE OAuthOwn'
  BY <1>10, SMTT(30) DEF OAuth!Unlink, OAuth!GoMatch, OAuth!MayMatch, OAuth!Goto, OAuth!Fail, OAuth!ClearCookie,
          OAuth!Return
<1>11. ASSUME NEW r \in Request, OAuth!MatchAddress(r) PROVE OAuthOwn'
  BY <1>11 DEF OAuth!MatchAddress, OAuth!Goto
<1>12. ASSUME NEW r \in Request, OAuth!CreateUser(r) PROVE OAuthOwn'
  BY <1>12 DEF OAuth!CreateUser, OAuth!Goto, OAuth!Return
<1>13. ASSUME NEW r \in Request, OAuth!Link(r) PROVE OAuthOwn'
  BY <1>13 DEF OAuth!Link, OAuth!Linkable, OAuth!Exists, OAuth!Goto
<1>14. ASSUME NEW r \in Request, OAuth!Stamp(r) PROVE OAuthOwn'
  BY <1>14 DEF OAuth!Stamp, OAuth!Exists, OAuth!Goto
<1>15. ASSUME NEW r \in Request, OAuth!OpenSession(r) PROVE OAuthOwn'
  BY <1>15 DEF OAuth!OpenSession, OAuth!Exists, OAuth!ClearCookie, OAuth!Return
<1>16. ASSUME NEW r \in Request, OAuth!Abort(r) PROVE OAuthOwn'
  BY <1>16 DEF OAuth!Abort, OAuth!Return
<1>17. ASSUME NEW u \in Person, OAuth!DeleteAccount(u) PROVE OAuthOwn'
  BY <1>17 DEF OAuth!DeleteAccount, OAuth!Exists
<1>18. ASSUME NEW u \in Person, NEW e \in Email, OAuth!SignUp(u, e) PROVE OAuthOwn'
  BY <1>18 DEF OAuth!SignUp
<1>19. CASE UNCHANGED OAuth!vars
  BY <1>19 DEF OAuth!vars
<1> QED
  BY <1>1, <1>2, <1>3, <1>4, <1>5, <1>6, <1>7, <1>8, <1>9, <1>10, <1>11, <1>12, <1>13, <1>14,
     <1>15, <1>16, <1>17, <1>18, <1>19
  DEF OAuth!Next

LEMMA OAuthHomesStep == OAuthTyped /\ OAuthTyped' /\ OAuthHomes /\ [OAuth!Next]_OAuth!vars => OAuthHomes'
<1> SUFFICES ASSUME OAuthTyped, OAuthTyped', OAuthHomes, [OAuth!Next]_OAuth!vars PROVE OAuthHomes'
  OBVIOUS
<1> USE AuthServicesAssumption DEF OAuthTyped, OAuth!TypeOK, OAuth!table, OAuth!locals, OAuth!history,
                                   OAuthHomes
<1>1. ASSUME NEW b \in Browser, OAuth!Start(b) PROVE OAuthHomes'
  BY <1>1 DEF OAuth!Start
<1>2. ASSUME NEW b \in Browser, OAuth!ExpireCookie(b) PROVE OAuthHomes'
  BY <1>2 DEF OAuth!ExpireCookie, OAuth!ClearCookie
<1>3. ASSUME NEW b \in Browser, NEW n \in Nonce, OAuth!RejectCallback(b, n) PROVE OAuthHomes'
  BY <1>3 DEF OAuth!RejectCallback, OAuth!ClearCookie
<1>4. ASSUME NEW n \in Nonce, NEW i \in Identity, OAuth!Consent(n, i) PROVE OAuthHomes'
  BY <1>4 DEF OAuth!Consent
<1>5. ASSUME NEW r \in Request, NEW b \in Browser, NEW n \in Nonce, OAuth!Callback(r, b, n)
      PROVE  OAuthHomes'
  BY <1>5 DEF OAuth!Callback, OAuth!Matches
<1>6. ASSUME NEW r \in Request, OAuth!Exchange(r) PROVE OAuthHomes'
  BY <1>6 DEF OAuth!Exchange
<1>7. ASSUME NEW r \in Request, OAuth!ExchangeFails(r) PROVE OAuthHomes'
  BY <1>7 DEF OAuth!ExchangeFails, OAuth!Fail, OAuth!ClearCookie, OAuth!Return
<1>8. ASSUME NEW r \in Request, OAuth!FindLink(r) PROVE OAuthHomes'
  BY <1>8 DEF OAuth!FindLink, OAuth!GoMatch, OAuth!MayMatch, OAuth!Goto, OAuth!Fail, OAuth!ClearCookie,
          OAuth!Return
<1>9. ASSUME NEW r \in Request, OAuth!LoadUser(r) PROVE OAuthHomes'
  BY <1>9 DEF OAuth!LoadUser, OAuth!Goto, OAuth!Exists
<1>10. ASSUME NEW r \in Request, OAuth!Unlink(r) PROVE OAuthHomes'
  BY <1>10 DEF OAuth!Unlink, OAuth!GoMatch, OAuth!MayMatch, OAuth!Goto, OAuth!Fail, OAuth!ClearCookie,
          OAuth!Return
<1>11. ASSUME NEW r \in Request, OAuth!MatchAddress(r) PROVE OAuthHomes'
  BY <1>11 DEF OAuth!MatchAddress, OAuth!Goto
<1>12. ASSUME NEW r \in Request, OAuth!CreateUser(r) PROVE OAuthHomes'
  BY <1>12 DEF OAuth!CreateUser, OAuth!Goto, OAuth!Return
<1>13. ASSUME NEW r \in Request, OAuth!Link(r) PROVE OAuthHomes'
  BY <1>13 DEF OAuth!Link, OAuth!Linkable, OAuth!Exists, OAuth!Goto
<1>14. ASSUME NEW r \in Request, OAuth!Stamp(r) PROVE OAuthHomes'
  BY <1>14 DEF OAuth!Stamp, OAuth!Exists, OAuth!Goto
<1>15. ASSUME NEW r \in Request, OAuth!OpenSession(r) PROVE OAuthHomes'
  BY <1>15 DEF OAuth!OpenSession, OAuth!Exists, OAuth!ClearCookie, OAuth!Return
<1>16. ASSUME NEW r \in Request, OAuth!Abort(r) PROVE OAuthHomes'
  BY <1>16 DEF OAuth!Abort, OAuth!Return
<1>17. ASSUME NEW u \in Person, OAuth!DeleteAccount(u) PROVE OAuthHomes'
  BY <1>17 DEF OAuth!DeleteAccount, OAuth!Exists
<1>18. ASSUME NEW u \in Person, NEW e \in Email, OAuth!SignUp(u, e) PROVE OAuthHomes'
  BY <1>18 DEF OAuth!SignUp
<1>19. CASE UNCHANGED OAuth!vars
  BY <1>19 DEF OAuth!vars
<1> QED
  BY <1>1, <1>2, <1>3, <1>4, <1>5, <1>6, <1>7, <1>8, <1>9, <1>10, <1>11, <1>12, <1>13, <1>14,
     <1>15, <1>16, <1>17, <1>18, <1>19
  DEF OAuth!Next

LEMMA OAuthReachesStep ==
    /\ OAuthTyped /\ OAuthTyped' /\ OAuthHomes /\ OAuthHomes' /\ OAuthReaches
    /\ [OAuth!Next]_OAuth!vars
    => OAuthReaches'
<1> SUFFICES ASSUME OAuthTyped, OAuthTyped', OAuthHomes, OAuthHomes', OAuthReaches,
                    [OAuth!Next]_OAuth!vars
             PROVE  OAuthReaches'
  OBVIOUS
<1> USE AuthServicesAssumption DEF OAuthTyped, OAuth!TypeOK, OAuth!table, OAuth!locals, OAuth!history,
                                   OAuthHomes, OAuthReaches
<1>1. ASSUME NEW b \in Browser, OAuth!Start(b) PROVE OAuthReaches'
  BY <1>1 DEF OAuth!Start
<1>2. ASSUME NEW b \in Browser, OAuth!ExpireCookie(b) PROVE OAuthReaches'
  BY <1>2 DEF OAuth!ExpireCookie, OAuth!ClearCookie
<1>3. ASSUME NEW b \in Browser, NEW n \in Nonce, OAuth!RejectCallback(b, n) PROVE OAuthReaches'
  BY <1>3 DEF OAuth!RejectCallback, OAuth!ClearCookie
<1>4. ASSUME NEW n \in Nonce, NEW i \in Identity, OAuth!Consent(n, i) PROVE OAuthReaches'
  BY <1>4 DEF OAuth!Consent
<1>5. ASSUME NEW r \in Request, NEW b \in Browser, NEW n \in Nonce, OAuth!Callback(r, b, n)
      PROVE  OAuthReaches'
  BY <1>5 DEF OAuth!Callback, OAuth!Matches
<1>6. ASSUME NEW r \in Request, OAuth!Exchange(r) PROVE OAuthReaches'
  BY <1>6 DEF OAuth!Exchange
<1>7. ASSUME NEW r \in Request, OAuth!ExchangeFails(r) PROVE OAuthReaches'
  BY <1>7 DEF OAuth!ExchangeFails, OAuth!Fail, OAuth!ClearCookie, OAuth!Return
<1>8. ASSUME NEW r \in Request, OAuth!FindLink(r) PROVE OAuthReaches'
  <2>1. CASE link[oauthWho[r]] # None
    <3>1. <<oauthWho[r], home[link[oauthWho[r]]]>> \in vouches
      BY <1>8, <2>1 DEF OAuth!FindLink
    <3>2. /\ oauthPc' = [oauthPc EXCEPT ![r] = "load"]
          /\ user' = [user EXCEPT ![r] = link[oauthWho[r]]]
          /\ UNCHANGED <<oauthWho, home, vouches, link, address, vouched>>
      BY <1>8, <2>1 DEF OAuth!FindLink, OAuth!Goto
    <3> QED
      BY <3>1, <3>2
  <2>2. CASE link[oauthWho[r]] = None /\ OAuth!MayMatch(r)
    BY <1>8, <2>2 DEF OAuth!FindLink, OAuth!GoMatch, OAuth!MayMatch, OAuth!Goto
  <2>3. CASE link[oauthWho[r]] = None /\ ~OAuth!MayMatch(r)
    BY <1>8, <2>3, SMTT(30) DEF OAuth!FindLink, OAuth!GoMatch, OAuth!MayMatch, OAuth!Fail, OAuth!ClearCookie,
                      OAuth!Return
  <2> QED
    BY <2>1, <2>2, <2>3
<1>9. ASSUME NEW r \in Request, OAuth!LoadUser(r) PROVE OAuthReaches'
  BY <1>9 DEF OAuth!LoadUser, OAuth!Goto, OAuth!Exists
<1>10. ASSUME NEW r \in Request, OAuth!Unlink(r) PROVE OAuthReaches'
  BY <1>10 DEF OAuth!Unlink, OAuth!GoMatch, OAuth!MayMatch, OAuth!Goto, OAuth!Fail, OAuth!ClearCookie,
          OAuth!Return
<1>11. ASSUME NEW r \in Request, OAuth!MatchAddress(r) PROVE OAuthReaches'
  <2>1. CASE (\A u \in Person : mail[u] # address[r]) /\ UNCHANGED user
    BY <1>11, <2>1 DEF OAuth!MatchAddress, OAuth!Goto
  <2>2. ASSUME NEW u \in Person, mail[u] = address[r], user' = [user EXCEPT ![r] = u],
               OAuth!Goto(r, IF u \in verified THEN "link" ELSE "link_stamp")
        PROVE  OAuthReaches'
    BY <1>11, <2>2 DEF OAuth!MatchAddress, OAuth!Goto
  <2> QED
    BY <1>11, <2>1, <2>2 DEF OAuth!MatchAddress
<1>12. ASSUME NEW r \in Request, OAuth!CreateUser(r) PROVE OAuthReaches'
  <2>1. CASE OAuth!Return(r) /\ UNCHANGED <<mail, verified, home>>
    BY <1>12, <2>1 DEF OAuth!CreateUser, OAuth!Return
  <2>2. ASSUME NEW u \in Person, mail[u] = None, mail' = [mail EXCEPT ![u] = address[r]],
               verified' = verified \cup {u}, home' = [home EXCEPT ![u] = address[r]],
               user' = [user EXCEPT ![r] = u], OAuth!Goto(r, "link")
        PROVE  OAuthReaches'
    BY <1>12, <2>2 DEF OAuth!CreateUser, OAuth!Goto
  <2> QED
    BY <1>12, <2>1, <2>2, SMTT(30) DEF OAuth!CreateUser
<1>13. ASSUME NEW r \in Request, OAuth!Link(r) PROVE OAuthReaches'
  <2>1. oauthPc[r] \in {"link", "link_stamp"}
    BY <1>13 DEF OAuth!Link
  <2>2. oauthWho[r] \in Identity
    BY <2>1, SMTT(30)
  <2>3. <<oauthWho[r], home[user[r]]>> \in vouches
    BY <2>1, ZenonT(40)
  <2>4. /\ link' \in {link, [link EXCEPT ![oauthWho[r]] = user[r]]}
        /\ oauthPc' = [oauthPc EXCEPT ![r] = IF @ = "link" THEN "session" ELSE "stamp"]
        /\ UNCHANGED <<oauthWho, home, vouches, user, address, vouched>>
    BY <1>13, SMTT(30) DEF OAuth!Link, OAuth!Goto
  <2>5. \A i \in Identity : link'[i] # None => <<i, home'[link'[i]]>> \in vouches'
    <3>1. CASE link' = link
      BY <2>4, <3>1
    <3>2. CASE link' = [link EXCEPT ![oauthWho[r]] = user[r]]
      <4> SUFFICES ASSUME NEW i \in Identity, link'[i] # None
                   PROVE  <<i, home[link'[i]]>> \in vouches
        BY <2>4
      <4>1. CASE i = oauthWho[r]
        BY <2>3, <3>2, <4>1
      <4>2. CASE i # oauthWho[r]
        BY <3>2, <4>2
      <4> QED
        BY <4>1, <4>2
    <3> QED
      BY <2>4, <3>1, <3>2
  <2> QED
    BY <2>1, <2>3, <2>4, <2>5
<1>14. ASSUME NEW r \in Request, OAuth!Stamp(r) PROVE OAuthReaches'
  BY <1>14 DEF OAuth!Stamp, OAuth!Exists, OAuth!Goto
<1>15. ASSUME NEW r \in Request, OAuth!OpenSession(r) PROVE OAuthReaches'
  BY <1>15 DEF OAuth!OpenSession, OAuth!Exists, OAuth!ClearCookie, OAuth!Return
<1>16. ASSUME NEW r \in Request, OAuth!Abort(r) PROVE OAuthReaches'
  BY <1>16 DEF OAuth!Abort, OAuth!Return
<1>17. ASSUME NEW u \in Person, OAuth!DeleteAccount(u) PROVE OAuthReaches'
  BY <1>17 DEF OAuth!DeleteAccount, OAuth!Exists
<1>18. ASSUME NEW u \in Person, NEW e \in Email, OAuth!SignUp(u, e) PROVE OAuthReaches'
  BY <1>18 DEF OAuth!SignUp
<1>19. CASE UNCHANGED OAuth!vars
  BY <1>19 DEF OAuth!vars
<1> QED
  BY <1>1, <1>2, <1>3, <1>4, <1>5, <1>6, <1>7, <1>8, <1>9, <1>10, <1>11, <1>12, <1>13, <1>14,
     <1>15, <1>16, <1>17, <1>18, <1>19
  DEF OAuth!Next

LEMMA OAuthLinkedStep ==
    OAuthTyped /\ OAuthTyped' /\ OAuthHomes /\ OAuthLinked /\ [OAuth!Next]_OAuth!vars => OAuthLinked'
<1> SUFFICES ASSUME OAuthTyped, OAuthTyped', OAuthHomes, OAuthLinked, [OAuth!Next]_OAuth!vars
             PROVE  OAuthLinked'
  OBVIOUS
<1> USE AuthServicesAssumption DEF OAuthTyped, OAuth!TypeOK, OAuth!table, OAuth!locals, OAuth!history,
                                   OAuthHomes, OAuthLinked
<1>1. ASSUME NEW b \in Browser, OAuth!Start(b) PROVE OAuthLinked'
  BY <1>1 DEF OAuth!Start
<1>2. ASSUME NEW b \in Browser, OAuth!ExpireCookie(b) PROVE OAuthLinked'
  BY <1>2 DEF OAuth!ExpireCookie, OAuth!ClearCookie
<1>3. ASSUME NEW b \in Browser, NEW n \in Nonce, OAuth!RejectCallback(b, n) PROVE OAuthLinked'
  BY <1>3 DEF OAuth!RejectCallback, OAuth!ClearCookie
<1>4. ASSUME NEW n \in Nonce, NEW i \in Identity, OAuth!Consent(n, i) PROVE OAuthLinked'
  BY <1>4 DEF OAuth!Consent
<1>5. ASSUME NEW r \in Request, NEW b \in Browser, NEW n \in Nonce, OAuth!Callback(r, b, n)
      PROVE  OAuthLinked'
  BY <1>5 DEF OAuth!Callback, OAuth!Matches
<1>6. ASSUME NEW r \in Request, OAuth!Exchange(r) PROVE OAuthLinked'
  BY <1>6 DEF OAuth!Exchange
<1>7. ASSUME NEW r \in Request, OAuth!ExchangeFails(r) PROVE OAuthLinked'
  BY <1>7 DEF OAuth!ExchangeFails, OAuth!Fail, OAuth!ClearCookie, OAuth!Return
<1>8. ASSUME NEW r \in Request, OAuth!FindLink(r) PROVE OAuthLinked'
  BY <1>8 DEF OAuth!FindLink, OAuth!GoMatch, OAuth!MayMatch, OAuth!Goto, OAuth!Fail, OAuth!ClearCookie,
          OAuth!Return
<1>9. ASSUME NEW r \in Request, OAuth!LoadUser(r) PROVE OAuthLinked'
  BY <1>9 DEF OAuth!LoadUser, OAuth!Goto, OAuth!Exists
<1>10. ASSUME NEW r \in Request, OAuth!Unlink(r) PROVE OAuthLinked'
  BY <1>10 DEF OAuth!Unlink, OAuth!GoMatch, OAuth!MayMatch, OAuth!Goto, OAuth!Fail, OAuth!ClearCookie,
          OAuth!Return
<1>11. ASSUME NEW r \in Request, OAuth!MatchAddress(r) PROVE OAuthLinked'
  BY <1>11 DEF OAuth!MatchAddress, OAuth!Goto
<1>12. ASSUME NEW r \in Request, OAuth!CreateUser(r) PROVE OAuthLinked'
  BY <1>12 DEF OAuth!CreateUser, OAuth!Goto, OAuth!Return
<1>13. ASSUME NEW r \in Request, OAuth!Link(r) PROVE OAuthLinked'
  BY <1>13 DEF OAuth!Link, OAuth!Linkable, OAuth!Exists, OAuth!Goto
<1>14. ASSUME NEW r \in Request, OAuth!Stamp(r) PROVE OAuthLinked'
  BY <1>14 DEF OAuth!Stamp, OAuth!Exists, OAuth!Goto
<1>15. ASSUME NEW r \in Request, OAuth!OpenSession(r) PROVE OAuthLinked'
  BY <1>15 DEF OAuth!OpenSession, OAuth!Exists, OAuth!ClearCookie, OAuth!Return
<1>16. ASSUME NEW r \in Request, OAuth!Abort(r) PROVE OAuthLinked'
  BY <1>16 DEF OAuth!Abort, OAuth!Return
<1>17. ASSUME NEW u \in Person, OAuth!DeleteAccount(u) PROVE OAuthLinked'
  BY <1>17 DEF OAuth!DeleteAccount, OAuth!Exists
<1>18. ASSUME NEW u \in Person, NEW e \in Email, OAuth!SignUp(u, e) PROVE OAuthLinked'
  BY <1>18 DEF OAuth!SignUp
<1>19. CASE UNCHANGED OAuth!vars
  BY <1>19 DEF OAuth!vars
<1> QED
  BY <1>1, <1>2, <1>3, <1>4, <1>5, <1>6, <1>7, <1>8, <1>9, <1>10, <1>11, <1>12, <1>13, <1>14,
     <1>15, <1>16, <1>17, <1>18, <1>19
  DEF OAuth!Next

LEMMA OAuthStep == OAuthInv /\ [OAuth!Next]_OAuth!vars => OAuthInv'
BY OAuthTypedStep, OAuthOwnStep, OAuthHomesStep, OAuthReachesStep, OAuthLinkedStep DEF OAuthInv

-----------------------------------------------------------------------------
(* RateLimiter: every attempt a bucket allows is in its count.              *)

RateInv ==
    /\ count \in [Rate!Key -> Nat] /\ granted \in [Rate!Key -> Nat]
    /\ NoOvershoot

LEMMA RateInitially == Rate!Init => RateInv
BY AuthServicesAssumption DEF Rate!Init, RateInv, NoOvershoot, Rate!NoOvershoot

\* What an attempt does to its row keeps the account of the row.
LEMMA RateConclude ==
    ASSUME RateInv, NEW r \in Request, NEW n \in Nat \ {0}, Rate!Conclude(r, n),
           Rate!KeyOf(r) \in Rate!Key => count[Rate!KeyOf(r)] = n - 1
    PROVE  RateInv'
<1> DEFINE k == Rate!KeyOf(r)
<1>1. /\ count' = [count EXCEPT ![k] = n]
      /\ granted' = [granted EXCEPT ![k] = IF n <= Limit THEN @ + 1 ELSE @]
  BY DEF Rate!Conclude, Rate!Allowed
<1> HIDE DEF k
<1>2. count' \in [Rate!Key -> Nat]
  BY <1>1 DEF RateInv
<1>3. granted' \in [Rate!Key -> Nat]
  <2>1. granted \in [Rate!Key -> Nat]
    BY DEF RateInv
  <2>2. k \in Rate!Key => (IF n <= Limit THEN granted[k] + 1 ELSE granted[k]) \in Nat
    BY <2>1
  <2> QED
    BY <1>1, <2>1, <2>2
<1>4. NoOvershoot'
  <2> SUFFICES ASSUME NEW j \in Rate!Key
               PROVE  granted'[j] = IF count'[j] <= Limit THEN count'[j] ELSE Limit
    BY DEF NoOvershoot, Rate!NoOvershoot
  <2>1. granted[j] = IF count[j] <= Limit THEN count[j] ELSE Limit
    BY DEF RateInv, NoOvershoot, Rate!NoOvershoot
  <2>2. CASE j = k
    BY <1>1, <2>1, <2>2, AuthServicesAssumption DEF RateInv, k
  <2>3. CASE j # k
    BY <1>1, <2>1, <2>3 DEF RateInv
  <2> QED
    BY <2>2, <2>3
<1> QED
  BY <1>2, <1>3, <1>4 DEF RateInv

LEMMA RateStep == RateInv /\ [Rate!Next]_Rate!vars => RateInv'
<1> SUFFICES ASSUME RateInv, [Rate!Next]_Rate!vars PROVE RateInv'
  OBVIOUS
<1> USE DEF Rate!locals
<1>1. ASSUME NEW r \in Request, Rate!Increment(r) PROVE RateInv'
  BY <1>1, RateConclude DEF Rate!Increment, RateInv
<1>2. ASSUME NEW r \in Request, Rate!InsertRow(r) PROVE RateInv'
  BY <1>2, RateConclude DEF Rate!InsertRow, Rate!RowFree
<1>3. ASSUME NEW K \in SUBSET Rate!Key, Rate!Drop(K) PROVE RateInv'
  <2>1. count' \in [Rate!Key -> Nat] /\ granted' \in [Rate!Key -> Nat]
    BY <1>3 DEF RateInv, Rate!Drop
  <2>2. NoOvershoot'
    BY <1>3, AuthServicesAssumption DEF RateInv, NoOvershoot, Rate!NoOvershoot, Rate!Drop
  <2> QED
    BY <2>1, <2>2 DEF RateInv
<1>4. ASSUME NEW r \in Request, Rate!ResetAddress(r) \/ Rate!ResetAccount(r) PROVE RateInv'
  BY <1>3, <1>4 DEF Rate!ResetAddress, Rate!ResetAccount, Rate!Matched
<1>5. CASE Rate!SweepExpired
  BY <1>3, <1>5 DEF Rate!SweepExpired
<1>6. ASSUME UNCHANGED <<count, granted>> PROVE RateInv'
  BY <1>6 DEF RateInv, NoOvershoot, Rate!NoOvershoot
<1>7. ASSUME NEW r \in Request, NEW op \in Calls, NEW ip \in Address, NEW id \in Identifier,
             Rate!Begin(r, op, ip, id)
      PROVE  RateInv'
  BY <1>6, <1>7 DEF Rate!Begin
<1>8. ASSUME NEW r \in Request,
             Rate!MissRow(r) \/ Rate!LoseInsert(r) \/ Rate!WrongPassword(r) \/ Rate!Abort(r)
      PROVE  RateInv'
  BY <1>6, <1>8 DEF Rate!MissRow, Rate!LoseInsert, Rate!WrongPassword, Rate!Abort
<1>9. CASE Rate!NextWindow \/ UNCHANGED Rate!vars
  BY <1>6, <1>9 DEF Rate!NextWindow, Rate!vars
<1> QED
  BY <1>1, <1>2, <1>4, <1>5, <1>7, <1>8, <1>9 DEF Rate!Next

\* Every operation charges at least one bucket, of those that make up the keys.
LEMMA RateBuckets ==
    ASSUME NEW op \in Calls, NEW ip \in Address, NEW id \in Identifier
    PROVE  Rate!Buckets(op, ip, id) \in Seq(Rate!Bucket) \ {<<>>}
<1> DEFINE B == Rate!Buckets(op, ip, id)
           S == {B[n] : n \in DOMAIN B}
<1>1. S \subseteq Rate!Bucket
  <2> DEFINE X == {{Rate!Buckets(o, i, a)[n] : n \in DOMAIN Rate!Buckets(o, i, a)} :
                     o \in Calls, i \in Address, a \in Identifier}
  <2>1. S \in X
    OBVIOUS
  <2>2. Rate!Bucket = UNION X
    BY DEF Rate!Bucket
  <2> HIDE DEF S, X
  <2> QED
    BY <2>1, <2>2
<1>2. PICK x, y : B = <<x>> \/ B = <<x, y>>
  BY CallsAssumption DEF Rate!Operation, Rate!Buckets
<1>3. SUFFICES B \in Seq(Rate!Bucket) /\ B # <<>>
  OBVIOUS
<1> HIDE DEF B
<1>4. CASE B = <<x>>
  BY <1>1, <1>4
<1>5. CASE B = <<x, y>>
  BY <1>1, <1>5
<1> QED
  BY <1>2, <1>4, <1>5

LEMMA RateTypedInitially == Rate!Init => Rate!TypeOK
BY AuthServicesAssumption DEF Rate!Init, Rate!TypeOK, Rate!Key, Rate!Charging

\* RateLimiter counts with the library's Cardinality.
LEMMA RateCounts == \A S : Rate!Cardinality(S) = Cardinality(S)
BY DEF Rate!Cardinality, Cardinality

LEMMA UnchargedFinite == \A ip : IsFiniteSet(Rate!Uncharged(ip))
BY FS_Subset, AuthServicesAssumption DEF Rate!Uncharged

\* A call that ends leaves no bucket behind.
LEMMA RateReturnTyped ==
    ASSUME Rate!TypeOK, NEW r \in Request, Rate!Return(r), UNCHANGED <<now, begun>>,
           count' \in [Rate!Key -> Nat], granted' \in [Rate!Key -> Nat], failed' \subseteq Request
    PROVE  Rate!TypeOK'
BY AuthServicesAssumption DEF Rate!TypeOK, Rate!Return

\* A DELETE leaves rows with counts.
LEMMA RateDropTyped ==
    ASSUME Rate!TypeOK, NEW K, Rate!Drop(K)
    PROVE  count' \in [Rate!Key -> Nat] /\ granted' \in [Rate!Key -> Nat]
BY DEF Rate!TypeOK, Rate!Drop

\* A call that charges goes on with a bucket, or ends.
LEMMA RateConcludeTyped ==
    ASSUME Rate!TypeOK, NEW r \in Request, plan[r] # <<>>, NEW n \in Nat, Rate!Conclude(r, n),
           UNCHANGED <<now, begun, failed>>
    PROVE  Rate!TypeOK'
<1> DEFINE rest == Tail(plan[r])
<1>1. plan[r] \in Seq(Rate!Bucket) /\ Head(plan[r]) \in Rate!Bucket /\ rest \in Seq(Rate!Bucket)
  BY DEF Rate!TypeOK
<1>2. count' \in [Rate!Key -> Nat] /\ granted' \in [Rate!Key -> Nat]
  <2>1. count' \in [Rate!Key -> Nat]
    BY DEF Rate!TypeOK, Rate!Conclude
  <2>2. \A k \in Rate!Key : granted[k] + 1 \in Nat
    BY DEF Rate!TypeOK
  <2>3. granted' \in [Rate!Key -> Nat]
    BY <2>2 DEF Rate!TypeOK, Rate!Conclude
  <2> QED
    BY <2>1, <2>3
<1>3. 0 \in 0 .. LastWindow
  BY AuthServicesAssumption
<1>4. UNCHANGED <<now, begun, failed>>
  OBVIOUS
<1>5. CASE Rate!Return(r)
  BY <1>2, <1>3, <1>4, <1>5, AuthServicesAssumption DEF Rate!TypeOK, Rate!Return
<1>6. CASE rest # <<>> /\ Rate!Charge(r, rest) /\ UNCHANGED <<from, right>>
  BY <1>1, <1>2, <1>3, <1>4, <1>6 DEF Rate!TypeOK, Rate!Charge, Rate!Charging
<1>7. CASE /\ ratePc' = [ratePc EXCEPT ![r] = "verify"] /\ start' = [start EXCEPT ![r] = 0]
            /\ UNCHANGED <<plan, from, right>>
  BY <1>2, <1>3, <1>4, <1>7 DEF Rate!TypeOK
<1> QED
  BY <1>5, <1>6, <1>7 DEF Rate!Conclude

LEMMA RateTypedStep == Rate!TypeOK /\ [Rate!Next]_Rate!vars => Rate!TypeOK'
<1> SUFFICES ASSUME Rate!TypeOK, [Rate!Next]_Rate!vars PROVE Rate!TypeOK'
  OBVIOUS
<1> USE AuthServicesAssumption DEF Rate!locals
<1>1. ASSUME NEW r \in Request, NEW op \in Calls, NEW ip \in Address, NEW id \in Identifier,
             Rate!Begin(r, op, ip, id)
      PROVE  Rate!TypeOK'
  <2>1. Rate!Buckets(op, ip, id) \in Seq(Rate!Bucket) \ {<<>>}
    BY RateBuckets
  <2>2. /\ right' \in [Request -> BOOLEAN] /\ from' \in [Request -> Address \cup {<<>>}]
        /\ begun' \in [Address -> Nat]
    <3>1. PICK correct \in BOOLEAN :
            /\ right' = [right EXCEPT ![r] = correct]
            /\ from' = [from EXCEPT ![r] = IF correct THEN ip ELSE <<>>]
      BY <1>1 DEF Rate!Begin
    <3>2. right' \in [Request -> BOOLEAN]
      BY <3>1 DEF Rate!TypeOK
    <3>3. from' \in [Request -> Address \cup {<<>>}]
      BY <3>1 DEF Rate!TypeOK
    <3>4. begun' = begun \/ begun' = [begun EXCEPT ![ip] = @ + 1]
      BY <1>1 DEF Rate!Begin
    <3> QED
      BY <3>2, <3>3, <3>4 DEF Rate!TypeOK
  <2> QED
    BY <1>1, <2>1, <2>2 DEF Rate!Begin, Rate!Charge, Rate!TypeOK, Rate!Charging
<1>2. ASSUME NEW r \in Request, Rate!Increment(r) \/ Rate!InsertRow(r) PROVE Rate!TypeOK'
  <2>1. plan[r] # <<>>
    BY <1>2 DEF Rate!Increment, Rate!InsertRow, Rate!TypeOK
  <2>2. CASE Rate!InsertRow(r)
    BY <2>1, <2>2, RateConcludeTyped DEF Rate!InsertRow
  <2>3. CASE Rate!Increment(r)
    <3>1. count[Rate!KeyOf(r)] + 1 \in Nat
      BY <2>3 DEF Rate!Increment
    <3> QED
      BY <2>1, <2>3, <3>1, RateConcludeTyped DEF Rate!Increment
  <2> QED
    BY <1>2, <2>2, <2>3
<1>3. ASSUME NEW r \in Request, Rate!MissRow(r) PROVE Rate!TypeOK'
  BY <1>3 DEF Rate!MissRow, Rate!TypeOK, Rate!Charging
<1>4. ASSUME NEW r \in Request, Rate!LoseInsert(r) PROVE Rate!TypeOK'
  <2>1. CASE ratePc[r] = "insert"
    BY <1>4, <2>1 DEF Rate!LoseInsert, Rate!TypeOK, Rate!Charging
  <2>2. CASE ratePc[r] # "insert"
    <3>1. Rate!Return(r) /\ UNCHANGED <<now, begun, count, granted>> /\ failed' = failed \cup {r}
      BY <1>4, <2>2 DEF Rate!LoseInsert
    <3> QED
      BY <3>1, RateReturnTyped DEF Rate!TypeOK
  <2> QED
    BY <2>1, <2>2
<1>5. ASSUME NEW r \in Request, Rate!WrongPassword(r) \/ Rate!Abort(r) PROVE Rate!TypeOK'
  BY <1>5, RateReturnTyped DEF Rate!WrongPassword, Rate!Abort, Rate!TypeOK
<1>6. ASSUME NEW r \in Request, Rate!ResetAddress(r) PROVE Rate!TypeOK'
  <2>1. Rate!Cardinality(Rate!Uncharged(from[r])) \in Nat
    BY RateCounts, UnchargedFinite, FS_CardinalityType
  <2>2. begun' \in [Address -> Nat]
    BY <1>6, <2>1 DEF Rate!ResetAddress, Rate!TypeOK
  <2> QED
    BY <1>6, <2>2, RateDropTyped DEF Rate!ResetAddress, Rate!TypeOK
<1>7. ASSUME NEW r \in Request, Rate!ResetAccount(r) PROVE Rate!TypeOK'
  BY <1>7, RateDropTyped, RateReturnTyped DEF Rate!ResetAccount, Rate!TypeOK
<1>8. CASE Rate!SweepExpired \/ Rate!NextWindow
  <2>1. CASE Rate!SweepExpired
    BY <2>1, RateDropTyped DEF Rate!SweepExpired, Rate!TypeOK
  <2>2. CASE Rate!NextWindow
    BY <2>2 DEF Rate!NextWindow, Rate!TypeOK
  <2> QED
    BY <1>8, <2>1, <2>2
<1>9. CASE UNCHANGED Rate!vars
  BY <1>9 DEF Rate!vars, Rate!TypeOK
<1> QED
  BY <1>1, <1>2, <1>3, <1>4, <1>5, <1>6, <1>7, <1>8, <1>9 DEF Rate!Next

\* The buckets of addresses are those a sign-in charges.
LEMMA AddressKey ==
    ASSUME NEW k \in Rate!Key, k[1][1] = "auth:sign-in:ip"
    PROVE  k[1][2] \in Address /\ k[1] = <<"auth:sign-in:ip", k[1][2]>> /\ k = <<k[1], k[2]>>
<1>1. k[1] \in Rate!Bucket /\ k = <<k[1], k[2]>>
  BY DEF Rate!Key
<1>2. PICK op \in Calls, ip \in Address, id \in Identifier :
        \E n \in DOMAIN Rate!Buckets(op, ip, id) : k[1] = Rate!Buckets(op, ip, id)[n]
  BY <1>1 DEF Rate!Bucket
<1>3. k[1] = <<"auth:sign-in:ip", ip>>
  BY <1>2, CallsAssumption DEF Rate!Buckets, Rate!Operation
<1> QED
  BY <1>1, <1>3

\* Sign-ins: each row of an address, and those that have still to charge that address,
\* are among the sign-ins begun from there since it was last reset.
RateBegun ==
    \A k \in Rate!Key : k[1][1] = "auth:sign-in:ip" =>
        count[k] + Cardinality(Rate!Uncharged(k[1][2])) <= begun[k[1][2]]

\* A call charges an address first, and at most one bucket after it.
PlanOf(r) ==
    plan[r] # <<>> /\ Tail(plan[r]) # <<>> =>
        Head(Tail(plan[r]))[1] # "auth:sign-in:ip" /\ Tail(Tail(plan[r])) = <<>>

\* A sign-in that knows the password knows its address until it has reset that.
RightOf(r) ==
    right[r] /\ ratePc[r] # "reset" =>
        /\ from[r] \in Address
        /\ \/ /\ Head(plan[r]) = <<"auth:sign-in:ip", from[r]>>
              /\ Tail(plan[r]) # <<>> /\ Head(Tail(plan[r]))[1] = "auth:sign-in:email"
           \/ Head(plan[r])[1] = "auth:sign-in:email" /\ Tail(plan[r]) = <<>>

RateCalls == \A r \in Request : PlanOf(r) /\ RightOf(r)

RateHeard == RateBegun /\ RateCalls

LEMMA RateHeardInitially == Rate!Init => RateHeard
<1> SUFFICES ASSUME Rate!Init PROVE RateHeard
  OBVIOUS
<1>1. \A ip : Rate!Uncharged(ip) = {}
  BY DEF Rate!Init, Rate!Uncharged
<1>2. \A k \in Rate!Key : k[1][1] = "auth:sign-in:ip" => k[1][2] \in Address
  BY AddressKey
<1>3. Cardinality({}) = 0
  BY FS_EmptySet
<1>4. ASSUME NEW k \in Rate!Key, k[1][1] = "auth:sign-in:ip"
      PROVE  count[k] + Cardinality(Rate!Uncharged(k[1][2])) <= begun[k[1][2]]
  <2>1. count[k] = 0 /\ begun[k[1][2]] = 0
    BY <1>2, <1>4 DEF Rate!Init
  <2>2. Cardinality(Rate!Uncharged(k[1][2])) = 0
    BY <1>1, <1>3
  <2> QED
    BY <2>1, <2>2
<1>5. RateBegun
  BY <1>4 DEF RateBegun
<1> QED
  BY <1>5 DEF Rate!Init, RateHeard, RateCalls, PlanOf, RightOf

\* The calls that do not move keep their part.
LEMMA RateCallsFrame ==
    ASSUME RateCalls, NEW r \in Request, PlanOf(r)', RightOf(r)',
           \A q \in Request \ {r} : /\ plan'[q] = plan[q] /\ right'[q] = right[q]
                                   /\ from'[q] = from[q] /\ ratePc'[q] = ratePc[q]
    PROVE  RateCalls'
<1> SUFFICES ASSUME NEW q \in Request, q # r PROVE PlanOf(q)' /\ RightOf(q)'
  BY DEF RateCalls
<1>1. PlanOf(q) /\ RightOf(q)
  BY DEF RateCalls
<1> QED
  BY <1>1 DEF PlanOf, RightOf

\* Rows that go, and sign-ins that charge an address no more, leave RateBegun true.
LEMMA RateBegunFrame ==
    ASSUME Rate!TypeOK, Rate!TypeOK', RateBegun, UNCHANGED begun,
           \A k \in Rate!Key : count'[k] <= count[k],
           \A q \in Request : plan'[q] # <<>> /\ Head(plan'[q])[1] = "auth:sign-in:ip" => plan'[q] = plan[q]
    PROVE  RateBegun'
<1> SUFFICES ASSUME NEW k \in Rate!Key, k[1][1] = "auth:sign-in:ip"
             PROVE  count'[k] + Cardinality(Rate!Uncharged(k[1][2]))' <= begun'[k[1][2]]
  BY DEF RateBegun
<1> DEFINE old == Rate!Uncharged(k[1][2])
           new == Rate!Uncharged(k[1][2])'
<1>1. new \subseteq old
  BY DEF Rate!Uncharged
<1>2. IsFiniteSet(old) /\ Cardinality(old) \in Nat
  BY UnchargedFinite, FS_CardinalityType
<1>3. Cardinality(new) <= Cardinality(old) /\ Cardinality(new) \in Nat
  BY <1>1, <1>2, FS_Subset, FS_CardinalityType
<1>4. k[1][2] \in Address
  BY AddressKey
<1>5. count[k] + Cardinality(old) <= begun[k[1][2]]
  BY DEF RateBegun
<1>6. count'[k] <= count[k] /\ count[k] \in Nat /\ count'[k] \in Nat /\ begun[k[1][2]] \in Nat
  BY <1>4 DEF Rate!TypeOK
<1>7. begun'[k[1][2]] = begun[k[1][2]]
  OBVIOUS
<1> HIDE DEF old, new
<1>8. count'[k] + Cardinality(new) <= begun'[k[1][2]]
  BY <1>2, <1>3, <1>5, <1>6, <1>7
<1> QED
  BY <1>8 DEF new

\* A call that ends.
LEMMA RateHeardReturn ==
    ASSUME Rate!TypeOK, Rate!TypeOK', RateHeard, NEW r \in Request, Rate!Return(r), UNCHANGED begun,
           \A k \in Rate!Key : count'[k] <= count[k]
    PROVE  RateHeard'
<1>1. /\ plan'[r] = <<>> /\ right'[r] = FALSE
      /\ \A q \in Request \ {r} : /\ plan'[q] = plan[q] /\ right'[q] = right[q]
                                  /\ from'[q] = from[q] /\ ratePc'[q] = ratePc[q]
  BY DEF Rate!Return, Rate!TypeOK
<1>2. RateBegun'
  BY <1>1, RateBegunFrame DEF RateHeard
<1>3. PlanOf(r)' /\ RightOf(r)'
  BY <1>1 DEF PlanOf, RightOf
<1>4. RateCalls'
  BY <1>1, <1>3, RateCallsFrame DEF RateHeard
<1> QED
  BY <1>2, <1>4 DEF RateHeard

\* A call that charges a bucket.
LEMMA RateHeardConclude ==
    ASSUME Rate!TypeOK, Rate!TypeOK', RateHeard, NEW r \in Request,
           plan[r] # <<>>, ratePc[r] \in Rate!Charging,
           Rate!Conclude(r, count[Rate!KeyOf(r)] + 1), UNCHANGED begun
    PROVE  RateHeard'
<1> DEFINE j == Rate!KeyOf(r)
           rest == Tail(plan[r])
<1>1. /\ plan[r] \in Seq(Rate!Bucket) /\ Head(plan[r]) \in Rate!Bucket /\ rest \in Seq(Rate!Bucket)
      /\ j \in Rate!Key /\ j[1] = Head(plan[r])
  BY DEF Rate!TypeOK, Rate!KeyOf, Rate!Key
<1>2. /\ count'[j] = count[j] + 1
      /\ \A k \in Rate!Key \ {j} : count'[k] = count[k]
  BY <1>1 DEF Rate!Conclude, Rate!TypeOK
<1>3. /\ \A q \in Request \ {r} : /\ plan'[q] = plan[q] /\ right'[q] = right[q]
                                  /\ from'[q] = from[q] /\ ratePc'[q] = ratePc[q]
      /\ \/ plan'[r] = <<>> /\ right'[r] = FALSE
         \/ /\ plan'[r] = rest /\ rest # <<>>
            /\ right'[r] = right[r] /\ from'[r] = from[r] /\ ratePc'[r] = "update"
         \/ /\ plan'[r] = plan[r] /\ Head(plan[r])[1] = "auth:sign-in:email" /\ rest = <<>>
            /\ right'[r] = right[r] /\ from'[r] = from[r] /\ ratePc'[r] = "verify"
  <2>1. CASE Rate!Return(r)
    BY <2>1 DEF Rate!Return, Rate!TypeOK
  <2>2. CASE rest # <<>> /\ Rate!Charge(r, rest) /\ UNCHANGED <<from, right>>
    BY <2>2 DEF Rate!Charge, Rate!TypeOK
  <2>3. CASE /\ rest = <<>> /\ Head(plan[r])[1] = "auth:sign-in:email"
             /\ ratePc' = [ratePc EXCEPT ![r] = "verify"] /\ UNCHANGED <<plan, from, right>>
    BY <2>3 DEF Rate!TypeOK
  <2> QED
    BY <2>1, <2>2, <2>3 DEF Rate!Conclude
<1>4. PlanOf(r) /\ RightOf(r) /\ ratePc[r] # "reset"
  BY DEF RateHeard, RateCalls, Rate!Charging
<1>5. PlanOf(r)' /\ RightOf(r)'
  BY <1>3, <1>4 DEF PlanOf, RightOf
<1>6. RateCalls'
  BY <1>3, <1>5, RateCallsFrame DEF RateHeard
<1>7. ASSUME NEW k \in Rate!Key, k[1][1] = "auth:sign-in:ip"
      PROVE  count'[k] + Cardinality(Rate!Uncharged(k[1][2]))' <= begun'[k[1][2]]
  <2> DEFINE old == Rate!Uncharged(k[1][2])
             new == Rate!Uncharged(k[1][2])'
  <2>1. /\ IsFiniteSet(old) /\ Cardinality(old) \in Nat
        /\ count[k] + Cardinality(old) <= begun[k[1][2]]
    BY <1>7, UnchargedFinite, FS_CardinalityType DEF RateHeard, RateBegun
  <2>2. new \subseteq old \ {r}
    <3>1. plan'[r] # <<>> => Head(plan'[r])[1] # "auth:sign-in:ip"
      <4>1. CASE plan'[r] = rest /\ rest # <<>>
        BY <1>4, <4>1 DEF PlanOf
      <4>2. CASE plan'[r] = plan[r] /\ Head(plan[r])[1] = "auth:sign-in:email"
        BY <4>2
      <4> QED
        BY <1>3, <4>1, <4>2
    <3>2. r \notin new
      BY <3>1 DEF Rate!Uncharged
    <3> QED
      BY <1>3, <3>2 DEF Rate!Uncharged
  <2>3. /\ k[1][2] \in Address /\ count[k] \in Nat /\ count'[k] \in Nat
        /\ begun[k[1][2]] \in Nat /\ begun'[k[1][2]] = begun[k[1][2]]
    BY <1>7, AddressKey DEF Rate!TypeOK
  <2>4. CASE k = j
    <3>1. r \in old
      BY <1>1, <1>7, <2>4, AddressKey DEF Rate!Uncharged
    <3> HIDE DEF old, new
    <3>2. IsFiniteSet(old \ {r}) /\ Cardinality(old \ {r}) = Cardinality(old) - 1
      BY <2>1, <3>1, FS_RemoveElement
    <3>3. Cardinality(new) <= Cardinality(old) - 1 /\ Cardinality(new) \in Nat
      BY <2>2, <3>2, FS_Subset, FS_CardinalityType
    <3> QED
      BY <1>2, <2>1, <2>3, <2>4, <3>3 DEF new
  <2>5. CASE k # j
    <3> HIDE DEF old, new
    <3>1. Cardinality(new) <= Cardinality(old) /\ Cardinality(new) \in Nat
      BY <2>1, <2>2, FS_Subset, FS_CardinalityType
    <3>2. count'[k] = count[k]
      BY <1>2, <2>5
    <3> QED
      BY <2>1, <2>3, <3>1, <3>2 DEF new
  <2> QED
    BY <2>4, <2>5
<1> QED
  BY <1>6, <1>7 DEF RateHeard, RateBegun

LEMMA RateHeardStep ==
    ASSUME Rate!TypeOK, Rate!TypeOK', RateHeard, [Rate!Next]_Rate!vars
    PROVE  RateHeard'
<1> USE DEF Rate!locals
<1>1. ASSUME NEW r \in Request, NEW op \in Calls, NEW ip \in Address, NEW id \in Identifier,
             Rate!Begin(r, op, ip, id)
      PROVE  RateHeard'
  <2> DEFINE B == Rate!Buckets(op, ip, id)
  <2>1. /\ plan[r] = <<>> /\ plan'[r] = B /\ ratePc'[r] = "update"
        /\ right'[r] => (op = "sign_in" /\ from'[r] = ip)
        /\ \A q \in Request \ {r} : /\ plan'[q] = plan[q] /\ right'[q] = right[q]
                                    /\ from'[q] = from[q] /\ ratePc'[q] = ratePc[q]
        /\ begun' = IF op = "sign_in" THEN [begun EXCEPT ![ip] = @ + 1] ELSE begun
        /\ count' = count
    <3>1. PICK correct \in (IF op = "sign_in" THEN BOOLEAN ELSE {FALSE}) :
            /\ right' = [right EXCEPT ![r] = correct]
            /\ from' = [from EXCEPT ![r] = IF correct THEN ip ELSE <<>>]
      BY <1>1 DEF Rate!Begin
    <3>2. /\ plan[r] = <<>> /\ plan'[r] = B /\ ratePc'[r] = "update"
          /\ \A q \in Request \ {r} : plan'[q] = plan[q] /\ ratePc'[q] = ratePc[q]
      BY <1>1 DEF Rate!Begin, Rate!Charge, Rate!TypeOK
    <3>3. /\ right'[r] => (op = "sign_in" /\ from'[r] = ip)
          /\ \A q \in Request \ {r} : right'[q] = right[q] /\ from'[q] = from[q]
      BY <3>1 DEF Rate!TypeOK
    <3>4. /\ begun' = IF op = "sign_in" THEN [begun EXCEPT ![ip] = @ + 1] ELSE begun
          /\ count' = count
      BY <1>1 DEF Rate!Begin
    <3> QED
      BY <3>2, <3>3, <3>4
  <2>2. /\ op = "sign_in" => B = <<<<"auth:sign-in:ip", ip>>, <<"auth:sign-in:email", id>>>>
        /\ op # "sign_in" => B # <<>> /\ Head(B)[1] # "auth:sign-in:ip"
        /\ Tail(B) # <<>> => Head(Tail(B))[1] # "auth:sign-in:ip" /\ Tail(Tail(B)) = <<>>
    BY CallsAssumption DEF Rate!Buckets, Rate!Operation
  <2> HIDE DEF B
  <2>3. RateCalls'
    <3>1. PlanOf(r)'
      BY <2>1, <2>2 DEF PlanOf
    <3>2. ASSUME right'[r] PROVE RightOf(r)'
      <4>1. plan'[r] = <<<<"auth:sign-in:ip", ip>>, <<"auth:sign-in:email", id>>>> /\ from'[r] = ip
        BY <2>1, <2>2, <3>2
      <4> QED
        BY <4>1 DEF RightOf
    <3>3. RightOf(r)'
      BY <3>2 DEF RightOf
    <3> QED
      BY <2>1, <3>1, <3>3, RateCallsFrame DEF RateHeard
  <2>4. CASE op # "sign_in"
    <3>1. \A k \in Rate!Key : count'[k] <= count[k]
      BY <2>1 DEF Rate!TypeOK
    <3>2. \A q \in Request :
             plan'[q] # <<>> /\ Head(plan'[q])[1] = "auth:sign-in:ip" => plan'[q] = plan[q]
      BY <2>1, <2>2, <2>4
    <3>3. RateBegun'
      BY <2>1, <2>4, <3>1, <3>2, RateBegunFrame DEF RateHeard
    <3> QED
      BY <2>3, <3>3 DEF RateHeard
  <2>5. CASE op = "sign_in"
    <3>1. ASSUME NEW k \in Rate!Key, k[1][1] = "auth:sign-in:ip"
          PROVE  count'[k] + Cardinality(Rate!Uncharged(k[1][2]))' <= begun'[k[1][2]]
      <4> DEFINE old == Rate!Uncharged(k[1][2])
                 new == Rate!Uncharged(k[1][2])'
      <4>1. /\ IsFiniteSet(old) /\ Cardinality(old) \in Nat
            /\ count[k] + Cardinality(old) <= begun[k[1][2]]
        BY <3>1, UnchargedFinite, FS_CardinalityType DEF RateHeard, RateBegun
      <4>2. /\ k[1][2] \in Address /\ count[k] \in Nat /\ count'[k] = count[k]
            /\ begun[k[1][2]] \in Nat
        BY <2>1, <3>1, AddressKey DEF Rate!TypeOK
      <4>3. CASE k[1][2] = ip
        <5>1. new = old \cup {r} /\ r \notin old
          BY <2>1, <2>2, <2>5, <4>3 DEF Rate!Uncharged
        <5>2. begun'[k[1][2]] = begun[k[1][2]] + 1
          BY <2>1, <2>5, <4>3 DEF Rate!TypeOK
        <5> HIDE DEF old, new
        <5>3. Cardinality(new) = Cardinality(old) + 1
          BY <4>1, <5>1, FS_AddElement
        <5> QED
          BY <4>1, <4>2, <5>2, <5>3 DEF new
      <4>4. CASE k[1][2] # ip
        <5>1. new = old
          BY <2>1, <2>2, <2>5, <4>4 DEF Rate!Uncharged
        <5>2. begun'[k[1][2]] = begun[k[1][2]]
          BY <2>1, <2>5, <4>2, <4>4 DEF Rate!TypeOK
        <5> HIDE DEF old, new
        <5> QED
          BY <4>1, <4>2, <5>1, <5>2 DEF new
      <4> QED
        BY <4>3, <4>4
    <3> QED
      BY <2>3, <3>1 DEF RateHeard, RateBegun
  <2> QED
    BY <2>4, <2>5
<1>2. ASSUME NEW r \in Request, Rate!Increment(r) \/ Rate!InsertRow(r) PROVE RateHeard'
  <2>1. plan[r] # <<>> /\ ratePc[r] \in Rate!Charging /\ UNCHANGED begun
    BY <1>2 DEF Rate!Increment, Rate!InsertRow, Rate!TypeOK, Rate!Charging
  <2>2. Rate!Conclude(r, count[Rate!KeyOf(r)] + 1)
    BY <1>2 DEF Rate!Increment, Rate!InsertRow, Rate!RowFree
  <2> QED
    BY <2>1, <2>2, RateHeardConclude
<1>3. ASSUME UNCHANGED <<begun, plan, right>>, NEW r \in Request, RightOf(r)',
             \A q \in Request \ {r} : from'[q] = from[q] /\ ratePc'[q] = ratePc[q],
             \A k \in Rate!Key : count'[k] <= count[k]
      PROVE  RateHeard'
  <2>1. PlanOf(r)'
    BY <1>3 DEF RateHeard, RateCalls, PlanOf
  <2>2. RateCalls'
    BY <1>3, <2>1, RateCallsFrame DEF RateHeard
  <2> QED
    BY <1>3, <2>2, RateBegunFrame DEF RateHeard
<1>4. \A k \in Rate!Key : count[k] <= count[k] /\ 0 <= count[k]
  BY DEF Rate!TypeOK
<1>5. ASSUME NEW r \in Request, Rate!MissRow(r) PROVE RateHeard'
  <2>1. RightOf(r)'
    BY <1>5 DEF Rate!MissRow, Rate!TypeOK, RateHeard, RateCalls, RightOf
  <2> QED
    BY <1>3, <1>4, <1>5, <2>1 DEF Rate!MissRow, Rate!TypeOK
<1>6. ASSUME NEW r \in Request, Rate!LoseInsert(r) PROVE RateHeard'
  <2>1. CASE Rate!Return(r)
    BY <1>4, <1>6, <2>1, RateHeardReturn DEF Rate!LoseInsert
  <2>2. CASE ratePc[r] = "insert"
    <3>1. RightOf(r)'
      BY <1>6, <2>2 DEF Rate!LoseInsert, Rate!TypeOK, RateHeard, RateCalls, RightOf
    <3> QED
      BY <1>3, <1>4, <1>6, <2>2, <3>1 DEF Rate!LoseInsert, Rate!TypeOK
  <2> QED
    BY <1>6, <2>1, <2>2 DEF Rate!LoseInsert
<1>7. ASSUME NEW r \in Request, Rate!WrongPassword(r) \/ Rate!Abort(r) PROVE RateHeard'
  BY <1>4, <1>7, RateHeardReturn DEF Rate!WrongPassword, Rate!Abort
<1>8. ASSUME NEW K, Rate!Drop(K)
      PROVE  \A k \in Rate!Key : count'[k] = IF k \in K THEN 0 ELSE count[k]
  BY <1>8 DEF Rate!Drop
<1>9. ASSUME NEW r \in Request, Rate!ResetAccount(r) PROVE RateHeard'
  BY <1>4, <1>8, <1>9, RateHeardReturn DEF Rate!ResetAccount
<1>10. ASSUME NEW r \in Request, Rate!ResetAddress(r) PROVE RateHeard'
  <2>1. /\ UNCHANGED <<plan, right>> /\ ratePc'[r] = "reset"
        /\ \A q \in Request \ {r} : from'[q] = from[q] /\ ratePc'[q] = ratePc[q]
    BY <1>10 DEF Rate!ResetAddress, Rate!TypeOK
  <2>2. from[r] \in Address
    BY <1>10 DEF Rate!ResetAddress, RateHeard, RateCalls, RightOf
  <2>3. RateCalls'
    <3>1. PlanOf(r)' /\ RightOf(r)'
      BY <2>1 DEF RateHeard, RateCalls, PlanOf, RightOf
    <3> QED
      BY <2>1, <3>1, RateCallsFrame DEF RateHeard
  <2>4. \A k \in Rate!Key :
          count'[k] = IF k \in Rate!Matched("auth:sign-in:ip", from[r]) THEN 0 ELSE count[k]
    BY <1>8, <1>10 DEF Rate!ResetAddress
  <2>5. ASSUME NEW k \in Rate!Key, k[1][1] = "auth:sign-in:ip"
        PROVE  count'[k] + Cardinality(Rate!Uncharged(k[1][2]))' <= begun'[k[1][2]]
    <3> DEFINE old == Rate!Uncharged(k[1][2])
    <3>1. Rate!Uncharged(k[1][2])' = old
      BY <2>1 DEF Rate!Uncharged
    <3>2. /\ Cardinality(old) \in Nat /\ count[k] + Cardinality(old) <= begun[k[1][2]]
      BY <2>5, UnchargedFinite, FS_CardinalityType DEF RateHeard, RateBegun
    <3>3. k[1][2] \in Address /\ count[k] \in Nat /\ begun[k[1][2]] \in Nat
      BY <2>5, AddressKey DEF Rate!TypeOK
    <3>4. CASE k[1][2] = from[r]
      <4>1. k \in Rate!Matched("auth:sign-in:ip", from[r])
        BY <2>2, <2>5, <3>4, AuthServicesAssumption DEF Rate!Matched
      <4>2. begun'[from[r]] = Cardinality(old)
        BY <1>10, <2>2, <3>4, RateCounts DEF Rate!ResetAddress, Rate!TypeOK
      <4>3. count'[k] = 0
        BY <2>4, <4>1
      <4> HIDE DEF old
      <4> QED
        BY <3>1, <3>2, <3>4, <4>2, <4>3
    <3>5. CASE k[1][2] # from[r]
      <4>1. begun'[k[1][2]] = begun[k[1][2]]
        BY <1>10, <3>3, <3>5 DEF Rate!ResetAddress, Rate!TypeOK
      <4>2. count'[k] = 0 \/ count'[k] = count[k]
        BY <2>4
      <4> HIDE DEF old
      <4> QED
        BY <3>1, <3>2, <3>3, <4>1, <4>2
    <3> QED
      BY <3>4, <3>5
  <2> QED
    BY <2>3, <2>5 DEF RateHeard, RateBegun
<1>11. ASSUME UNCHANGED <<begun, plan, right, from, ratePc>>, \A k \in Rate!Key : count'[k] <= count[k]
       PROVE  RateHeard'
  <2>1. RateBegun'
    BY <1>11, RateBegunFrame DEF RateHeard
  <2>2. RateCalls'
    BY <1>11 DEF RateHeard, RateCalls, PlanOf, RightOf
  <2> QED
    BY <2>1, <2>2 DEF RateHeard
<1>12. CASE Rate!SweepExpired
  BY <1>4, <1>8, <1>11, <1>12 DEF Rate!SweepExpired
<1>13. CASE Rate!NextWindow \/ UNCHANGED Rate!vars
  BY <1>4, <1>11, <1>13 DEF Rate!NextWindow, Rate!vars
<1> QED
  BY <1>1, <1>2, <1>5, <1>6, <1>7, <1>9, <1>10, <1>12, <1>13 DEF Rate!Next

\* A call raises over a right password only when the sign-ins from its address are
\* more than the limit.
LEMMA RateHears ==
    ASSUME Rate!TypeOK, RateHeard, [Rate!Next]_Rate!vars, NEW r \in Request, Rate!TurnedAway(r)
    PROVE  begun[from[r]] > Limit
<1> USE DEF Rate!locals
<1>1. right[r] /\ ratePc[r] \in Rate!Charging /\ ratePc'[r] = "idle" /\ count' # count
  BY DEF Rate!TurnedAway
<1>2. ratePc[r] \notin {"idle", "verify", "reset"} /\ plan[r] # <<>>
  BY <1>1 DEF Rate!Charging, Rate!TypeOK
<1>3. Rate!Increment(r) \/ Rate!InsertRow(r)
  <2>1. ASSUME NEW q \in Request, q # r,
               \/ Rate!Increment(q) \/ Rate!InsertRow(q)
               \/ Rate!ResetAddress(q) \/ Rate!ResetAccount(q)
        PROVE  ratePc'[r] = ratePc[r]
    BY <2>1 DEF Rate!Increment, Rate!InsertRow, Rate!ResetAddress, Rate!ResetAccount,
                Rate!Conclude, Rate!Return, Rate!Charge, Rate!TypeOK
  <2>2. ~Rate!ResetAddress(r) /\ ~Rate!ResetAccount(r)
    BY <1>2 DEF Rate!ResetAddress, Rate!ResetAccount
  <2>3. CASE Rate!SweepExpired \/ Rate!NextWindow \/ UNCHANGED Rate!vars
    BY <1>1, <1>2, <2>3 DEF Rate!SweepExpired, Rate!NextWindow, Rate!vars
  <2>4. ASSUME NEW q \in Request,
               \/ \E op \in Calls, ip \in Address, id \in Identifier : Rate!Begin(q, op, ip, id)
               \/ Rate!MissRow(q) \/ Rate!LoseInsert(q) \/ Rate!WrongPassword(q) \/ Rate!Abort(q)
        PROVE  FALSE
    BY <1>1, <2>4 DEF Rate!Begin, Rate!MissRow, Rate!LoseInsert, Rate!WrongPassword, Rate!Abort
  <2> QED
    BY <1>1, <1>2, <2>1, <2>2, <2>3, <2>4 DEF Rate!Next
<1>4. Rate!Conclude(r, count[Rate!KeyOf(r)] + 1)
  BY <1>3 DEF Rate!Increment, Rate!InsertRow, Rate!RowFree
<1> DEFINE j == Rate!KeyOf(r)
           U == Rate!Uncharged(from[r])
<1>5. /\ Head(plan[r]) = <<"auth:sign-in:ip", from[r]>> /\ from[r] \in Address
      /\ ~(count[j] + 1 <= Limit)
  <2>1. RightOf(r)
    BY DEF RateHeard, RateCalls
  <2>2. CASE Head(plan[r])[1] = "auth:sign-in:email" /\ Tail(plan[r]) = <<>>
    <3>1. ratePc' = [ratePc EXCEPT ![r] = "verify"]
      BY <1>4, <2>2 DEF Rate!Conclude, Rate!Raises
    <3> QED
      BY <1>1, <3>1 DEF Rate!TypeOK
  <2>3. CASE /\ Head(plan[r]) = <<"auth:sign-in:ip", from[r]>>
             /\ Tail(plan[r]) # <<>>
    <3>1. CASE count[j] + 1 <= Limit
      <4>1. Rate!Charge(r, Tail(plan[r]))
        BY <1>4, <2>3, <3>1 DEF Rate!Conclude, Rate!Allowed
      <4> QED
        BY <1>1, <4>1 DEF Rate!Charge, Rate!TypeOK
    <3> QED
      BY <1>1, <1>2, <2>1, <2>3, <3>1 DEF RightOf
  <2> QED
    BY <1>1, <1>2, <2>1, <2>2, <2>3 DEF RightOf
<1>6. j \in Rate!Key /\ j[1] = <<"auth:sign-in:ip", from[r]>>
  BY <1>2, <1>5 DEF Rate!TypeOK, Rate!KeyOf, Rate!Key
<1>7. count[j] + Cardinality(U) <= begun[from[r]] /\ count[j] \in Nat /\ begun[from[r]] \in Nat
  <2> HIDE DEF j
  <2>1. j[1][1] = "auth:sign-in:ip" /\ j[1][2] = from[r]
    BY <1>6
  <2>2. count[j] + Cardinality(Rate!Uncharged(j[1][2])) <= begun[j[1][2]]
    BY <1>6, <2>1 DEF RateHeard, RateBegun
  <2>3. count[j] \in Nat /\ begun[from[r]] \in Nat
    BY <1>5, <1>6 DEF Rate!TypeOK
  <2> QED
    BY <2>1, <2>2, <2>3
<1>8. r \in U /\ IsFiniteSet(U)
  BY <1>2, <1>5, UnchargedFinite DEF Rate!Uncharged
<1> HIDE DEF j, U
<1>9. Cardinality(U) \in Nat /\ Cardinality(U) >= 1
  <2>1. Cardinality(U) \in Nat /\ Cardinality(U) # 0
    BY <1>8, FS_CardinalityType, FS_EmptySet
  <2> QED
    BY <2>1
<1> QED
  BY <1>5, <1>7, <1>9, AuthServicesAssumption

-----------------------------------------------------------------------------
(* Startup: a database only gains tables and indexes, whoever starts beside *)
(* whom and wherever a start stopped.                                       *)

Database == [present : SUBSET Table, index : SUBSET Table, rows : [Table -> SUBSET User]]
Late == {"ensure", "index", "create_index", "ready"}
Labels == Late \cup {"off", "configure", "app_migrations", "orm", "migrate", "failed", "down"}

\* Variables have their types; a worker at an index is at a table it wants.
StartupTyped ==
    /\ TypeOK
    /\ pc \in [Worker -> Labels] /\ registered = [w \in Worker |-> registered[w]]
    /\ \A w \in Worker :
         /\ pc[w] \in {"index", "create_index"} =>
              step[w] <= Len(Plan) /\ Wanted(step[w]) /\ Plan[step[w]] \in Table
         /\ pc[w] = "ready" => step[w] > Len(Plan)

\* A migration that is recorded is in the database; a worker has passed over only
\* those that are recorded, and registers a service when all of them are.
StartupApplied ==
    /\ \A id \in applied : MigrationTables(id) \subseteq db.present
    /\ \A w \in Worker :
         /\ pc[w] \in {"configure", "app_migrations", "orm", "migrate"} =>
              \A id \in Migrations : id < step[w] => id \in applied
         /\ pc[w] \in Late => Migrations \subseteq applied
         /\ registered[w] \cap {"auth", "oauth", "jwt"} # {} => Migrations \subseteq applied

\* The indexes of the tables a worker has ensured are there.
StartupIndexed ==
    \A w \in Worker :
        /\ pc[w] \in Late => \A i \in 1 .. Len(Plan) :
             i < step[w] /\ Wanted(i) /\ Plan[i] \in Table => Plan[i] \in db.index
        /\ pc[w] = "create_index" /\ ~missing[w] => Plan[step[w]] \in db.index

StartupInv == StartupTyped /\ StartupApplied /\ StartupIndexed /\ AccountsSurvive

LEMMA PlanLength == Len(Plan) = 8 /\ \A i \in 1 .. 8 : Plan[i] \in Table => Plan[i] \notin {"users", "usernames"}
BY DEF Plan, Table

\* What a migration does to a database.
LEMMA MigrationGrows ==
    ASSUME NEW d \in Database, NEW id \in Migrations
    PROVE  /\ Migrated(d, id) \in Database
           /\ d.present \subseteq Migrated(d, id).present
           /\ MigrationTables(id) \subseteq Migrated(d, id).present
           /\ d.index \ {"users", "usernames"} \subseteq Migrated(d, id).index
           /\ \A t \in {"users", "sessions"} : Migrated(d, id).rows[t] = d.rows[t]
<1>1. CASE ~(id = 4 /\ dialect = "sqlite")
  <2>1. MigrationTables(id) \subseteq Table /\ MigrationIndexes(id) \subseteq Table
    BY DEF MigrationTables, MigrationIndexes, Migrations, Table
  <2>2. Migrated(d, id) = [d EXCEPT !.present = @ \cup MigrationTables(id), !.index = @ \cup MigrationIndexes(id)]
    BY <1>1 DEF Migrated, Index, Create, Database
  <2> QED
    BY <2>1, <2>2 DEF Database
<1>2. CASE id = 4 /\ dialect = "sqlite"
  <2> DEFINE e == Drop(Drop(d, "sessions"), "users")
             f == Index(Create(e, {"users", "usernames", "sessions"}), {"sessions"})
  <2>1. /\ e \in Database
        /\ e.present = d.present \ {"sessions", "users", "usernames"}
        /\ e.index = d.index \ {"sessions", "users", "usernames"}
    BY DEF Database, Drop, Table, Children
  <2>2. /\ f \in Database
        /\ f.present = e.present \cup {"users", "usernames", "sessions"}
        /\ f.index = e.index \cup {"sessions"}
    BY <2>1 DEF Database, Create, Index, Table
  <2> HIDE DEF e, f
  <2>3. Rebuild(d) = [f EXCEPT !.rows["users"] = d.rows["users"], !.rows["sessions"] = d.rows["sessions"]]
    BY DEF Rebuild, Stashed, e, f
  <2>4. /\ Rebuild(d) \in Database
        /\ Rebuild(d).present = f.present /\ Rebuild(d).index = f.index
        /\ \A t \in {"users", "sessions"} : Rebuild(d).rows[t] = d.rows[t]
    <3> DEFINE g == [[f.rows EXCEPT !["users"] = d.rows["users"]] EXCEPT !["sessions"] = d.rows["sessions"]]
    <3>1. /\ g \in [Table -> SUBSET User]
          /\ g["users"] = d.rows["users"] /\ g["sessions"] = d.rows["sessions"]
      BY <2>2 DEF Database, Table
    <3> HIDE DEF g
    <3>2. Rebuild(d) = [present |-> f.present, index |-> f.index, rows |-> g]
      BY <2>2, <2>3 DEF Database, g
    <3> QED
      BY <2>2, <3>1, <3>2 DEF Database
  <2>5. Migrated(d, id) = Rebuild(d) /\ MigrationTables(id) = {"usernames"}
    BY <1>2 DEF Migrated, MigrationTables, MigrationIndexes
  <2> QED
    BY <2>1, <2>2, <2>4, <2>5
<1> QED
  BY <1>1, <1>2

LEMMA StartupInitially == Init => StartupInv
<1> SUFFICES ASSUME Init PROVE StartupInv
  OBVIOUS
<1>1. /\ db \in Database /\ applied \subseteq Migrations
      /\ \A id \in applied : MigrationTables(id) \subseteq db.present
  <2>1. PICK o \in DOMAIN Origins, people \in SUBSET User :
          /\ db = [Origins[o].db EXCEPT !.rows =
                     [t \in Table |-> IF t \in Origins[o].db.present THEN people ELSE {}]]
          /\ applied = Origins[o].applied
    BY DEF Init
  <2>2. o \in {"new", "release", "ensured"}
    BY DEF Origins
  <2>3. /\ Origins[o].db \in Database /\ Origins[o].applied \in {{}, {1, 2, 3}}
        /\ Origins[o].applied # {} => Origins[o].db.present = Table \ {"usernames"}
    <3>1. Empty \in Database
      BY DEF Empty, Database
    <3>2. CASE o = "new"
      BY <3>1, <3>2 DEF Origins
    <3>3. CASE o = "release"
      BY <3>1, <3>3 DEF Origins, Database, Table, Children
    <3>4. CASE o = "ensured"
      BY <3>1, <3>4 DEF Origins, Database, Table, Children
    <3> QED
      BY <2>2, <3>2, <3>3, <3>4
  <2>4. db \in Database /\ db.present = Origins[o].db.present
    BY <2>1, <2>3 DEF Database
  <2> QED
    BY <2>1, <2>3, <2>4 DEF MigrationTables, MigrationIndexes, Table, Migrations
<1>2. StartupTyped
  BY <1>1, PlanLength, StartupAssumption
  DEF Init, StartupTyped, TypeOK, Database, Labels, Late
<1> QED
  BY <1>1, <1>2
  DEF Init, StartupInv, StartupApplied, StartupIndexed, AccountsSurvive, Migrations, Late

LEMMA StartupTypedStep == StartupTyped /\ [Next]_vars => StartupTyped'
<1> SUFFICES ASSUME StartupTyped, [Next]_vars PROVE StartupTyped'
  OBVIOUS
<1> USE PlanLength DEF StartupTyped, TypeOK, Labels, Late, setting, database, tally, worker, Wanted
<1>1. ASSUME NEW w \in Worker, Start(w) PROVE StartupTyped'
  <2>1. TypeOK'
    BY <1>1 DEF Start, Goto
  <2>2. pc' \in [Worker -> Labels] /\ registered' = [v \in Worker |-> registered'[v]]
    BY <1>1 DEF Start, Goto
  <2> QED
    BY <1>1, <2>1, <2>2 DEF Start, Goto
<1>2. ASSUME NEW w \in Worker, Configure(w) PROVE StartupTyped'
  BY <1>2 DEF Configure, Goto
<1>3. ASSUME NEW w \in Worker, AppMigrations(w) PROVE StartupTyped'
  BY <1>3 DEF AppMigrations, Goto
<1>4. ASSUME NEW w \in Worker, StartOrm(w) PROVE StartupTyped'
  BY <1>4 DEF StartOrm, Goto
<1>5. ASSUME NEW w \in Worker, Migrate(w) PROVE StartupTyped'
  BY <1>5, MigrationGrows DEF Migrate, Pending, Recorded, Trip, Advance, Goto, Migrations, Database
<1>6. ASSUME NEW w \in Worker, MigrationsDone(w) PROVE StartupTyped'
  BY <1>6 DEF MigrationsDone, Goto, Migrations
<1>7. ASSUME NEW w \in Worker, EnsureTable(w) PROVE StartupTyped'
  <2>1. TypeOK'
    <3>1. db' \in Database
      BY <1>7 DEF EnsureTable, Ensured, Create, Database, Table
    <3> QED
      BY <1>7, <3>1 DEF EnsureTable, Database
  <2>2. pc' \in [Worker -> Labels] /\ registered' = [v \in Worker |-> registered'[v]]
    BY <1>7 DEF EnsureTable, Goto, Ensured, Create
  <2> QED
    BY <1>7, <2>1, <2>2 DEF EnsureTable, Goto, Ensured, Create
<1>8. ASSUME NEW w \in Worker, EnsureIndex(w) PROVE StartupTyped'
  <2>1. TypeOK'
    <3>1. db' \in Database
      BY <1>8 DEF EnsureIndex, Index, Database
    <3>2. step' \in [Worker -> 1 .. Len(Plan) + 1]
      BY <1>8 DEF EnsureIndex, Advance
    <3> QED
      BY <1>8, <3>1, <3>2 DEF EnsureIndex, Database
  <2>2. pc' \in [Worker -> Labels] /\ registered' = [v \in Worker |-> registered'[v]]
    BY <1>8 DEF EnsureIndex, Goto, Advance, Index
  <2> QED
    BY <1>8, <2>1, <2>2 DEF EnsureIndex, Goto, Advance, Index
<1>9. ASSUME NEW w \in Worker, CreateIndex(w) PROVE StartupTyped'
  BY <1>9 DEF CreateIndex, Goto, Advance, Trip, Index
<1>10. ASSUME NEW w \in Worker, Register(w) PROVE StartupTyped'
  <2>1. TypeOK'
    BY <1>10 DEF Register, Advance
  <2>2. pc' \in [Worker -> Labels] /\ registered' = [v \in Worker |-> registered'[v]]
    BY <1>10 DEF Register, Advance
  <2> QED
    BY <1>10, <2>1, <2>2 DEF Register, Advance
<1>11. ASSUME NEW w \in Worker, Ready(w) PROVE StartupTyped'
  BY <1>11 DEF Ready, Goto
<1>12. ASSUME NEW w \in Worker, Fault(w) PROVE StartupTyped'
  BY <1>12 DEF Fault, Goto
<1>13. ASSUME NEW w \in Worker, Shutdown(w) PROVE StartupTyped'
  BY <1>13 DEF Shutdown, Goto
<1>14. ASSUME NEW w \in Worker, NEW u \in User, SignUp(w, u) PROVE StartupTyped'
  BY <1>14 DEF SignUp
<1>15. CASE UNCHANGED vars
  BY <1>15 DEF vars
<1> QED
  BY <1>1, <1>2, <1>3, <1>4, <1>5, <1>6, <1>7, <1>8, <1>9, <1>10, <1>11, <1>12, <1>13, <1>14, <1>15
  DEF Next, StartStep

LEMMA StartupAppliedStep == StartupTyped /\ StartupApplied /\ [Next]_vars => StartupApplied'
<1> SUFFICES ASSUME StartupTyped, StartupApplied, [Next]_vars PROVE StartupApplied'
  OBVIOUS
<1> USE PlanLength DEF StartupTyped, TypeOK, Labels, Late, setting, database, tally, worker, StartupApplied
<1>1. ASSUME NEW w \in Worker, Start(w) PROVE StartupApplied'
  BY <1>1 DEF Start, Goto, Migrations
<1>2. ASSUME NEW w \in Worker, Configure(w) PROVE StartupApplied'
  BY <1>2 DEF Configure, Goto
<1>3. ASSUME NEW w \in Worker, AppMigrations(w) PROVE StartupApplied'
  BY <1>3 DEF AppMigrations, Goto
<1>4. ASSUME NEW w \in Worker, StartOrm(w) PROVE StartupApplied'
  BY <1>4 DEF StartOrm, Goto
<1>5. ASSUME NEW w \in Worker, Migrate(w) PROVE StartupApplied'
  BY <1>5, MigrationGrows DEF Migrate, Pending, Recorded, Trip, Advance, Goto, Migrations, Database
<1>6. ASSUME NEW w \in Worker, MigrationsDone(w) PROVE StartupApplied'
  BY <1>6 DEF MigrationsDone, Goto, Migrations
<1>7. ASSUME NEW w \in Worker, EnsureTable(w) PROVE StartupApplied'
  BY <1>7 DEF EnsureTable, Goto, Ensured, Create
<1>8. ASSUME NEW w \in Worker, EnsureIndex(w) PROVE StartupApplied'
  BY <1>8 DEF EnsureIndex, Goto, Advance, Index
<1>9. ASSUME NEW w \in Worker, CreateIndex(w) PROVE StartupApplied'
  BY <1>9 DEF CreateIndex, Goto, Advance, Trip, Index
<1>10. ASSUME NEW w \in Worker, Register(w) PROVE StartupApplied'
  BY <1>10 DEF Register, Advance
<1>11. ASSUME NEW w \in Worker, Ready(w) PROVE StartupApplied'
  BY <1>11 DEF Ready, Goto
<1>12. ASSUME NEW w \in Worker, Fault(w) PROVE StartupApplied'
  BY <1>12 DEF Fault, Goto
<1>13. ASSUME NEW w \in Worker, Shutdown(w) PROVE StartupApplied'
  BY <1>13 DEF Shutdown, Goto
<1>14. ASSUME NEW w \in Worker, NEW u \in User, SignUp(w, u) PROVE StartupApplied'
  BY <1>14 DEF SignUp
<1>15. CASE UNCHANGED vars
  BY <1>15 DEF vars
<1> QED
  BY <1>1, <1>2, <1>3, <1>4, <1>5, <1>6, <1>7, <1>8, <1>9, <1>10, <1>11, <1>12, <1>13, <1>14, <1>15
  DEF Next, StartStep
LEMMA StartupIndexedStep ==
    StartupTyped /\ StartupTyped' /\ StartupIndexed /\ [Next]_vars => StartupIndexed'
<1> SUFFICES ASSUME StartupTyped, StartupTyped', StartupIndexed, [Next]_vars PROVE StartupIndexed'
  OBVIOUS
<1> USE PlanLength DEF StartupTyped, TypeOK, Late, setting, database, tally, worker, Wanted, StartupIndexed
<1>1. ASSUME NEW w \in Worker, Start(w) PROVE StartupIndexed'
  BY <1>1 DEF Start, Goto
<1>2. ASSUME NEW w \in Worker, Configure(w) PROVE StartupIndexed'
  BY <1>2 DEF Configure, Goto
<1>3. ASSUME NEW w \in Worker, AppMigrations(w) PROVE StartupIndexed'
  BY <1>3 DEF AppMigrations, Goto
<1>4. ASSUME NEW w \in Worker, StartOrm(w) PROVE StartupIndexed'
  BY <1>4 DEF StartOrm, Goto
<1>5. ASSUME NEW w \in Worker, Migrate(w) PROVE StartupIndexed'
  BY <1>5, MigrationGrows DEF Migrate, Trip, Advance, Goto, Migrations, Database
<1>6. ASSUME NEW w \in Worker, MigrationsDone(w) PROVE StartupIndexed'
  BY <1>6 DEF MigrationsDone, Goto, Migrations
<1>7. ASSUME NEW w \in Worker, EnsureTable(w) PROVE StartupIndexed'
  BY <1>7 DEF EnsureTable, Goto, Ensured, Create
<1>8. ASSUME NEW w \in Worker, EnsureIndex(w) PROVE StartupIndexed'
  BY <1>8 DEF EnsureIndex, Goto, Advance, Index
<1>9. ASSUME NEW w \in Worker, CreateIndex(w) PROVE StartupIndexed'
  BY <1>9 DEF CreateIndex, Goto, Advance, Trip, Index
<1>10. ASSUME NEW w \in Worker, Register(w) PROVE StartupIndexed'
  BY <1>10 DEF Register, Advance
<1>11. ASSUME NEW w \in Worker, Ready(w) PROVE StartupIndexed'
  BY <1>11 DEF Ready, Goto
<1>12. ASSUME NEW w \in Worker, Fault(w) PROVE StartupIndexed'
  BY <1>12 DEF Fault, Goto
<1>13. ASSUME NEW w \in Worker, Shutdown(w) PROVE StartupIndexed'
  BY <1>13 DEF Shutdown, Goto
<1>14. ASSUME NEW w \in Worker, NEW u \in User, SignUp(w, u) PROVE StartupIndexed'
  BY <1>14 DEF SignUp
<1>15. CASE UNCHANGED vars
  BY <1>15 DEF vars
<1> QED
  BY <1>1, <1>2, <1>3, <1>4, <1>5, <1>6, <1>7, <1>8, <1>9, <1>10, <1>11, <1>12, <1>13, <1>14, <1>15
  DEF Next, StartStep

LEMMA AccountsSurviveStep == StartupTyped /\ AccountsSurvive /\ [Next]_vars => AccountsSurvive'
<1> SUFFICES ASSUME StartupTyped, AccountsSurvive, [Next]_vars PROVE AccountsSurvive'
  OBVIOUS
<1> USE DEF StartupTyped, TypeOK, setting, database, tally, worker, AccountsSurvive
<1>1. ASSUME NEW w \in Worker, Start(w) PROVE AccountsSurvive'
  BY <1>1 DEF Start, Goto
<1>2. ASSUME NEW w \in Worker, Configure(w) PROVE AccountsSurvive'
  BY <1>2 DEF Configure, Goto
<1>3. ASSUME NEW w \in Worker, AppMigrations(w) PROVE AccountsSurvive'
  BY <1>3 DEF AppMigrations, Goto
<1>4. ASSUME NEW w \in Worker, StartOrm(w) PROVE AccountsSurvive'
  BY <1>4 DEF StartOrm, Goto
<1>5. ASSUME NEW w \in Worker, Migrate(w) PROVE AccountsSurvive'
  <2>1. kept' = kept /\ (db' = db \/ \E id \in Migrations : db' = Migrated(db, id))
    BY <1>5 DEF Migrate, Trip
  <2>2. db \in Database
    BY DEF Database
  <2> QED
    BY <2>1, <2>2, MigrationGrows
<1>6. ASSUME NEW w \in Worker, MigrationsDone(w) PROVE AccountsSurvive'
  BY <1>6 DEF MigrationsDone, Goto, Migrations
<1>7. ASSUME NEW w \in Worker, EnsureTable(w) PROVE AccountsSurvive'
  BY <1>7 DEF EnsureTable, Goto, Ensured, Create
<1>8. ASSUME NEW w \in Worker, EnsureIndex(w) PROVE AccountsSurvive'
  BY <1>8, ZenonT(40) DEF EnsureIndex, Goto, Advance, Index
<1>9. ASSUME NEW w \in Worker, CreateIndex(w) PROVE AccountsSurvive'
  BY <1>9, SMTT(30) DEF CreateIndex, Goto, Advance, Trip, Index
<1>10. ASSUME NEW w \in Worker, Register(w) PROVE AccountsSurvive'
  BY <1>10 DEF Register, Advance
<1>11. ASSUME NEW w \in Worker, Ready(w) PROVE AccountsSurvive'
  BY <1>11 DEF Ready, Goto
<1>12. ASSUME NEW w \in Worker, Fault(w) PROVE AccountsSurvive'
  BY <1>12 DEF Fault, Goto
<1>13. ASSUME NEW w \in Worker, Shutdown(w) PROVE AccountsSurvive'
  BY <1>13 DEF Shutdown, Goto
<1>14. ASSUME NEW w \in Worker, NEW u \in User, SignUp(w, u) PROVE AccountsSurvive'
  <2>1. \A t \in {"users", "sessions"} :
          /\ db'.rows[t] = db.rows[t] \cup {u} /\ kept'[t] = kept[t] \cup {u}
    <3>1. PICK tables \in SUBSET Table :
            /\ db' = [db EXCEPT !.rows = [t \in Table |->
                 IF t \in {"users", "sessions"} \cup tables THEN db.rows[t] \cup {u} ELSE db.rows[t]]]
            /\ kept' = [t \in Table |->
                 IF t \in {"users", "sessions"} \cup tables THEN kept[t] \cup {u} ELSE kept[t]]
      BY <1>14 DEF SignUp
    <3> QED
      BY <3>1 DEF Table
  <2> QED
    BY <2>1
<1>15. CASE UNCHANGED vars
  BY <1>15 DEF vars
<1> QED
  BY <1>1, <1>2, <1>3, <1>4, <1>5, <1>6, <1>7, <1>8, <1>9, <1>10, <1>11, <1>12, <1>13, <1>14, <1>15
  DEF Next, StartStep

LEMMA StartupStep == StartupInv /\ [Next]_vars => StartupInv'
BY StartupTypedStep, StartupAppliedStep, StartupIndexedStep, AccountsSurviveStep DEF StartupInv

\* A complete schema is what the four migrations make.
LEMMA StartupServes == StartupInv => ServedMeansSchema
<1> SUFFICES ASSUME StartupInv, Migrations \subseteq applied
             PROVE  Table \subseteq db.present
  BY DEF StartupInv, StartupApplied, ServedMeansSchema, Table
<1>1. \A id \in {1, 2, 3, 4} : MigrationTables(id) \subseteq db.present
  BY DEF StartupInv, StartupApplied, Migrations
<1>2. Table = MigrationTables(1) \cup MigrationTables(2) \cup MigrationTables(3) \cup MigrationTables(4)
  BY DEF Table, MigrationTables, MigrationIndexes
<1> QED
  BY <1>1, <1>2

\* Once a worker serves nothing is pending, and every statement finds what it asks for.
LEMMA StartupRepeats ==
    ASSUME StartupInv, [Next]_vars, NEW v \in Worker, pc[v] = "ready", kept' = kept
    PROVE  db' = db
<1>1. /\ Migrations \subseteq applied /\ Table \subseteq db.present
      /\ \A i \in 1 .. Len(Plan) : Wanted(i) /\ Plan[i] \in Table => Plan[i] \in db.index
  <2>1. Migrations \subseteq applied
    BY DEF StartupInv, StartupApplied, Late
  <2>2. \A id \in {1, 2, 3, 4} : MigrationTables(id) \subseteq db.present
    BY <2>1 DEF StartupInv, StartupApplied, Migrations
  <2>3. Table = MigrationTables(1) \cup MigrationTables(2) \cup MigrationTables(3) \cup MigrationTables(4)
    BY DEF Table, MigrationTables, MigrationIndexes
  <2> QED
    BY <2>1, <2>2, <2>3, PlanLength DEF StartupInv, StartupTyped, StartupIndexed, TypeOK, Late
<1>2. db \in Database /\ StartupTyped
  BY DEF StartupInv, StartupTyped, TypeOK, Database
<1>3. ASSUME NEW w \in Worker, Migrate(w) PROVE db' = db
  BY <1>1, <1>3 DEF Migrate, Pending, Trip, database
<1>4. ASSUME NEW w \in Worker, EnsureTable(w) PROVE db' = db
  BY <1>1, <1>2, <1>4 DEF EnsureTable, Ensured, Create, Database, Table
<1>5. ASSUME NEW w \in Worker, EnsureIndex(w) PROVE db' = db
  <2>1. Plan[step[w]] \in db.index
    BY <1>1, <1>2, <1>5, PlanLength DEF EnsureIndex, StartupTyped, TypeOK
  <2>2. db' = db \/ db' = [db EXCEPT !.index = @ \cup {Plan[step[w]]}]
    BY <1>5 DEF EnsureIndex, Index
  <2> QED
    BY <1>2, <2>1, <2>2 DEF Database
<1>6. ASSUME NEW w \in Worker, CreateIndex(w) PROVE db' = db
  <2>1. Plan[step[w]] \in db.index
    BY <1>1, <1>2, <1>6, PlanLength DEF CreateIndex, StartupTyped, TypeOK
  <2> QED
    BY <1>6, <2>1 DEF CreateIndex, Trip, database
<1>7. ASSUME NEW w \in Worker, NEW u \in User, SignUp(w, u) PROVE FALSE
  <2>1. u \in kept'["users"] /\ u \notin db.rows["users"]
    BY <1>2, <1>7 DEF SignUp, StartupTyped, TypeOK, Table
  <2> QED
    BY <2>1 DEF StartupInv, AccountsSurvive
<1>8. ASSUME NEW w \in Worker,
             \/ Start(w) \/ Configure(w) \/ AppMigrations(w) \/ StartOrm(w) \/ MigrationsDone(w)
             \/ Register(w) \/ Ready(w) \/ Fault(w) \/ Shutdown(w)
      PROVE  db' = db
  BY <1>8 DEF Start, Configure, AppMigrations, StartOrm, MigrationsDone, Register, Ready, Fault, Shutdown, database
<1> QED
  BY <1>3, <1>4, <1>5, <1>6, <1>7, <1>8 DEF Next, StartStep, vars

-----------------------------------------------------------------------------
(* The theorems: what holds of each service by itself, and of the           *)
(* specification that is of one of them.                                    *)

LEMMA RateTypedAlways == Rate!Spec => []Rate!TypeOK
BY RateTypedInitially, RateTypedStep, PTL DEF Rate!Spec

LEMMA RateAlways == Rate!Spec => []RateInv
BY RateInitially, RateStep, PTL DEF Rate!Spec

LEMMA ApiAlways == Api!Spec => []ApiInv
BY ApiInitially, ApiStep, PTL DEF Api!Spec

LEMMA RoleAlways == Role!Spec => []RoleInv
BY RoleInitially, RoleStep, PTL DEF Role!Spec

LEMMA OAuthAlways == OAuth!Spec => []OAuthInv
BY OAuthInitially, OAuthStep, PTL DEF OAuth!Spec

LEMMA StartupAlways == Spec => []StartupInv
BY StartupInitially, StartupStep, PTL DEF Spec

\* Every service runs by its own specification, or stands still.
LEMMA EachServiceRuns == ServicesSpec => Spec /\ Rate!Spec /\ Api!Spec /\ Role!Spec /\ OAuth!Spec
<1> DEFINE all == <<service, vars, rateVars, apiVars, roleVars, oauthVars>>
<1>1. ServicesInit => Init /\ Rate!Init /\ Api!Init /\ Role!Init /\ OAuth!Init
  BY DEF ServicesInit
<1>2. [ServicesNext]_all => [Next]_vars
  BY DEF ServicesNext
<1>3. [ServicesNext]_all => [Rate!Next]_Rate!vars
  BY DEF ServicesNext, rateVars, Rate!vars, Rate!locals
<1>4. [ServicesNext]_all => [Api!Next]_Api!vars
  BY DEF ServicesNext, apiVars, Api!vars, Api!table, Api!calls
<1>5. [ServicesNext]_all => [Role!Next]_Role!vars
  BY DEF ServicesNext, roleVars, Role!vars, Role!locals
<1>6. [ServicesNext]_all => [OAuth!Next]_OAuth!vars
  BY DEF ServicesNext, oauthVars, OAuth!vars, OAuth!table, OAuth!locals, OAuth!history
<1> QED
  BY <1>1, <1>2, <1>3, <1>4, <1>5, <1>6, PTL
  DEF ServicesSpec, Spec, Rate!Spec, Api!Spec, Role!Spec, OAuth!Spec

\* The variables have their types throughout: those of the buckets, the tokens, the
\* roles, the flows of OAuth and the starts (TypeOK of RateLimiter, ApiTokens, Roles,
\* OAuthSignIn and Startup).
THEOREM ServicesTyped ==
    ServicesSpec => [](Rate!TypeOK /\ Api!TypeOK /\ Role!TypeOK /\ OAuth!TypeOK /\ TypeOK)
<1>1. ApiInv /\ RoleInv /\ OAuthInv /\ StartupInv =>
        Api!TypeOK /\ Role!TypeOK /\ OAuth!TypeOK /\ TypeOK
  BY DEF ApiInv, RoleInv, OAuthInv, OAuthTyped, StartupInv, StartupTyped
<1> QED
  BY <1>1, RateTypedAlways, ApiAlways, RoleAlways, OAuthAlways, StartupAlways, EachServiceRuns, PTL

\* However many callers race for a bucket, its first row and its deletion, they get
\* no more attempts than its limit (check_and_increment).
THEOREM LimitHolds == ServicesSpec => []NoOvershoot
<1>1. RateInv => NoOvershoot
  BY DEF RateInv
<1> QED
  BY <1>1, RateAlways, EachServiceRuns, PTL

\* Whatever others guess, from wherever and in whatever window, a right password is
\* turned away only when more than the limit of sign-ins were begun from its own address
\* since a right one from there (verify_credentials, reset).
THEOREM OwnerAlwaysHeard == ServicesSpec => OwnerIsHeard
<1>1. Rate!Spec => []RateHeard
  BY RateTypedAlways, RateHeardInitially, RateHeardStep, PTL DEF Rate!Spec
<1>2. Rate!TypeOK /\ RateHeard /\ [Rate!Next]_Rate!vars =>
        [\A r \in Request : Rate!TurnedAway(r) => begun[from[r]] > Limit]_Rate!vars
  BY RateHears
<1>3. Rate!Spec => Rate!OwnerIsHeard
  BY <1>1, <1>2, RateTypedAlways, PTL DEF Rate!Spec, Rate!OwnerIsHeard
<1> QED
  BY <1>3, EachServiceRuns, PTL DEF OwnerIsHeard

\* However many creates race for one user, no more tokens are live than the cap
\* (create of api_tokens.py).
THEOREM CapIsNeverExceeded == ServicesSpec => []CapHolds
<1>1. ApiInv => CapHolds
  BY DEF ApiInv
<1> QED
  BY <1>1, ApiAlways, EachServiceRuns, PTL

\* However creates, revocations and expiries interleave, the tokens of a user are
\* granted one at a time, within the cap and for good scopes, and withdrawn for good:
\* the service implements TokenAllowance (api_tokens.py).
THEOREM AllowanceIsKept == ServicesSpec => ImplementsAllowance
<1>1. Api!Spec => Api!Allowance!Spec
  BY ApiInitially, ApiStep, AllowanceInitially, AllowanceStep, PTL
  DEF Api!Spec, Api!Allowance!Spec, Api!Allowance!vars
<1> QED
  BY <1>1, EachServiceRuns, PTL DEF ImplementsAllowance, Api!ImplementsAllowance

\* A role deleted while nobody was being granted it stays without a holder until it
\* is granted again, on any of the servers and whatever runs beside (delete_role).
THEOREM DeletionEmptiesRole == ServicesSpec => []DeletedRoleIsEmpty
<1>1. RoleInv => DeletedRoleIsEmpty
  BY DEF RoleInv
<1> QED
  BY <1>1, RoleAlways, EachServiceRuns, PTL

\* Where transactions exclude each other, as on SQLite, a delete_role beside a grant
\* leaves no grant without its role, and a define_role always writes: what the comments
\* of both promise, and what a delete in between breaks on PostgreSQL and MySQL.
THEOREM SerialRolesStayWhole ==
    ServicesSpec => [](Serial => Role!NoOrphanGrant /\ Role!DefineTakesEffect)
<1>1. RoleInv => Role!TypeOK
  BY DEF RoleInv
<1>2. Role!Spec => []SerialRoleInv
  BY <1>1, RoleAlways, SerialRoleInitially, SerialRoleStep, PTL DEF Role!Spec
<1>3. SerialRoleInv => (Serial => Role!NoOrphanGrant /\ Role!DefineTakesEffect)
  BY DEF SerialRoleInv
<1> QED
  BY <1>2, <1>3, EachServiceRuns, PTL

\* A browser is signed in only by a flow it started (_callback).
THEOREM FlowsAreOwn == ServicesSpec => []OwnFlowOnly
<1>1. OAuthInv => OwnFlowOnly
  BY DEF OAuthInv, OAuthOwn
<1> QED
  BY <1>1, OAuthAlways, EachServiceRuns, PTL

\* An identity is linked to, and opens, only accounts whose address the provider has
\* verified for it (_resolve_or_create_user).
THEOREM SignInIsVouched == ServicesSpec => []ReachesOnlyVouched
<1>1. OAuthInv => ReachesOnlyVouched
  BY DEF OAuthInv, OAuthReaches, ReachesOnlyVouched, OAuth!ReachesOnlyVouched
<1> QED
  BY <1>1, OAuthAlways, EachServiceRuns, PTL

\* While no account is deleted, a callback that reaches its session leaves the
\* identity linked, whatever an earlier one left undone (_link).
THEOREM SignInLinks == ServicesSpec => []SignInLeavesLink
<1>1. OAuthInv => SignInLeavesLink
  BY DEF OAuthInv, OAuthLinked, SignInLeavesLink, OAuth!SignInLeavesLink
<1> QED
  BY <1>1, OAuthAlways, EachServiceRuns, PTL

\* A worker registers a service only over a complete schema of it, whatever database
\* it found and whoever else was starting (_apply_schema).
THEOREM SchemaIsServed == Spec => []ServedMeansSchema
BY StartupServes, StartupAlways, PTL

\* No start, and no migration of one, loses an account or a session (0004).
THEOREM NoAccountIsLost == Spec => []AccountsSurvive
<1>1. StartupInv => AccountsSurvive
  BY DEF StartupInv
<1> QED
  BY <1>1, StartupAlways, PTL

\* Once a worker serves, the starts of others leave the database as it is.
THEOREM StartsAreNoOps == Spec => RepeatedStartsAreNoOps
<1>1. StartupInv /\ [Next]_vars =>
        [(\E w \in Worker : pc[w] = "ready") /\ kept' = kept => db' = db]_vars
  BY StartupRepeats
<1> QED
  BY <1>1, StartupAlways, PTL DEF Spec, RepeatedStartsAreNoOps

\* The three hold of the start in the specification of all services, too.
COROLLARY ServicesStart ==
    ServicesSpec => []ServedMeansSchema /\ []AccountsSurvive /\ RepeatedStartsAreNoOps
BY EachServiceRuns, SchemaIsServed, NoAccountIsLost, StartsAreNoOps, PTL
=============================================================================
