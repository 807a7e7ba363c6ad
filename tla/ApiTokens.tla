------------------------------- MODULE ApiTokens -------------------------------
(***************************************************************************)
(* pyxle_auth/api_tokens.py: personal access tokens.  create counts the    *)
(* user's live tokens and inserts one in a transaction that first takes    *)
(* the lock of the owner: the users row FOR UPDATE on PostgreSQL and       *)
(* MySQL, the whole database by BEGIN IMMEDIATE on SQLite.                 *)
(***************************************************************************)
EXTENDS Naturals, FiniteSets

CONSTANTS Request, User, Token,
          Scope,        \* what a token may be used for
          Cap,          \* max_tokens_per_user of every create
          None

VARIABLES owner,     \* the user_id of a token's row; None: no row
          scopes,    \* its scopes
          revoked,   \* rows whose revoked_at is set
          expired,   \* rows whose expires_at has passed
          touched,   \* rows whose last_used_at is of this minute
          pc,        \* each call: its next statement
          who,       \* a create: the user it is for
          tok,       \* a resolve: the row it has read
          need       \* the scope it requires

table == <<owner, scopes, revoked, expired, touched>>
calls == <<pc, who, tok, need>>
vars == <<table, calls>>

Row == {t \in Token : owner[t] # None}
\* WHERE user_id = ? AND revoked_at IS NULL AND (expires_at IS NULL OR expires_at > ?)
Live(u) == {t \in Row : owner[t] = u} \ (revoked \cup expired)
\* The creates that hold the lock of u's row.
Holding(u) == {r \in Request : who[r] = u /\ pc[r] \in {"count", "insert"}}

Init ==
    /\ owner = [t \in Token |-> None] /\ scopes = [t \in Token |-> {}]
    /\ revoked = {} /\ expired = {} /\ touched = {}
    /\ pc = [r \in Request |-> "idle"] /\ who = [r \in Request |-> None]
    /\ tok = [r \in Request |-> None] /\ need = [r \in Request |-> {}]

Return(r) ==
    /\ pc' = [pc EXCEPT ![r] = "idle"] /\ who' = [who EXCEPT ![r] = None]
    /\ tok' = [tok EXCEPT ![r] = None] /\ need' = [need EXCEPT ![r] = {}]
-----------------------------------------------------------------------------
\* create, with a valid name, scopes and lifetime; others raise at once.
Create(r, u) ==
    /\ pc[r] = "idle"
    /\ pc' = [pc EXCEPT ![r] = "lock"] /\ who' = [who EXCEPT ![r] = u]
    /\ UNCHANGED <<table, tok, need>>

\* Mutant: the owner's row is read without FOR UPDATE.
LockFree_Always(r) == TRUE
\* SELECT id FROM users WHERE id = ? FOR UPDATE waits for the holder.
LockFree(r) == Holding(who[r]) = {}

LockOwner(r) ==
    /\ pc[r] = "lock" /\ LockFree(r)
    /\ pc' = [pc EXCEPT ![r] = "count"]
    /\ UNCHANGED <<table, who, tok, need>>

\* The COUNT, a statement of its own; at the cap TokenLimitReached rolls back.
CountLive(r) ==
    /\ pc[r] = "count"
    /\ IF Cardinality(Live(who[r])) >= Cap
       THEN Return(r)
       ELSE pc' = [pc EXCEPT ![r] = "insert"] /\ UNCHANGED <<who, tok, need>>
    /\ UNCHANGED table

\* The INSERT and COMMIT.
InsertToken(r) ==
    /\ pc[r] = "insert"
    /\ \E t \in Token \ Row, S \in (SUBSET Scope) \ {{}} :
         /\ \A q \in Request : tok[q] # t
         /\ owner' = [owner EXCEPT ![t] = who[r]] /\ scopes' = [scopes EXCEPT ![t] = S]
    /\ Return(r)
    /\ UNCHANGED <<revoked, expired, touched>>
-----------------------------------------------------------------------------
\* active, and has_scope.
Usable(t, S) == t \in Row \ (revoked \cup expired) /\ S \subseteq scopes[t]

\* resolve: one SELECT; an unusable token gives None, whatever the reason.
Resolve(r, t, S) ==
    /\ pc[r] = "idle" /\ Usable(t, S)
    /\ IF t \in touched THEN UNCHANGED calls
       ELSE /\ pc' = [pc EXCEPT ![r] = "touch"] /\ tok' = [tok EXCEPT ![r] = t]
            /\ need' = [need EXCEPT ![r] = S]
            /\ UNCHANGED who
    /\ UNCHANGED table

\* _touch, at most once a minute; a row that is gone is not brought back.
Touch(r) ==
    /\ pc[r] = "touch"
    /\ touched' = touched \cup ({tok[r]} \cap Row)
    /\ Return(r)
    /\ UNCHANGED <<owner, scopes, revoked, expired>>

Minute ==
    /\ touched # {} /\ touched' = {}
    /\ UNCHANGED <<owner, scopes, revoked, expired, calls>>

\* revoke: WHERE id = ? AND user_id = ? AND revoked_at IS NULL
Revocable(u, t) == t \in Row \ revoked /\ owner[t] = u

Revoke(u, t) ==
    /\ Revocable(u, t)
    /\ revoked' = revoked \cup {t}
    /\ UNCHANGED <<owner, scopes, expired, touched, calls>>

RevokeAll(u) ==
    /\ \E t \in Token : Revocable(u, t)
    /\ revoked' = revoked \cup {t \in Token : Revocable(u, t)}
    /\ UNCHANGED <<owner, scopes, expired, touched, calls>>

\* Time passes a token's expires_at; not every token has one.
Expire(t) ==
    /\ t \in Row \ expired
    /\ expired' = expired \cup {t}
    /\ UNCHANGED <<owner, scopes, revoked, touched, calls>>

\* A statement fails, the call is cancelled or the process dies: its
\* transaction rolls back and its locks are released.
Abort(r) ==
    /\ pc[r] # "idle"
    /\ Return(r)
    /\ UNCHANGED table

Statement(r) == LockOwner(r) \/ CountLive(r) \/ InsertToken(r) \/ Touch(r)

Next ==
    \/ \E r \in Request : Statement(r) \/ Abort(r)
    \/ \E r \in Request, u \in User : Create(r, u)
    \/ \E r \in Request, t \in Token, S \in SUBSET Scope : Resolve(r, t, S)
    \/ \E u \in User : RevokeAll(u) \/ \E t \in Token : Revoke(u, t)
    \/ \E t \in Token : Expire(t)
    \/ Minute

Spec == Init /\ [][Next]_vars
-----------------------------------------------------------------------------
\* Variables have their types, and a resolve holds a token that has the scope
\* it requires.
TypeOK ==
    /\ owner \in [Token -> User \cup {None}] /\ scopes \in [Token -> SUBSET Scope]
    /\ revoked \subseteq Row /\ expired \subseteq Row /\ touched \subseteq Row
    /\ pc \in [Request -> {"idle", "lock", "count", "insert", "touch"}]
    /\ who \in [Request -> User \cup {None}] /\ tok \in [Request -> Token \cup {None}]
    /\ need \in [Request -> SUBSET Scope]
    /\ \A r \in Request : /\ pc[r] \in {"lock", "count", "insert"} => who[r] # None
                          /\ pc[r] = "touch" => tok[r] \in Row /\ need[r] \subseteq scopes[tok[r]]

\* Creates that race for one user never leave more live tokens than the cap
\* ("racing creates cannot exceed the cap", create).
CapHolds == \A u \in User : Cardinality(Live(u)) <= Cap

\* The table only ever changes as TokenAllowance says: a create that passed the
\* count still finds room when its INSERT commits, a dead token stays dead, no
\* token changes hands or scopes, and a revocation is "scoped by owner" (revoke).
Allowance == INSTANCE TokenAllowance WITH dead <- revoked \cup expired
ImplementsAllowance == Allowance!Spec
=============================================================================
