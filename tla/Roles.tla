--------------------------------- MODULE Roles ---------------------------------
(***************************************************************************)
(* pyxle_auth/rbac.py: roles, their permissions and who holds them.  A     *)
(* step is one statement of a transaction, with the COMMIT when it is the  *)
(* last.  With Serial transactions exclude each other (SQLite's BEGIN      *)
(* IMMEDIATE); without it they are those of PostgreSQL and MySQL: a        *)
(* statement acts on the rows it saw, kept in `batch' until the commit.    *)
(***************************************************************************)
CONSTANTS Request, User, Role, Permission, Serial, None

VARIABLES perms,     \* the permissions of a role's row; None: no row
          grants,    \* rows of user_roles: <<user, role>>
          pc,        \* each call: its next statement
          name, who, \* the role, and the user, it is about
          packed,    \* the permissions define_role writes
          batch,     \* the grants delete_role's first DELETE matched
          quiet,     \* history: deletions no grant of the role ran beside
          cleared,   \* history: roles deleted so, and not granted since
          lost       \* history: calls of define_role that wrote nothing

locals == <<pc, name, who, packed, batch>>
vars == <<perms, grants, locals, quiet, cleared, lost>>

Open == {r \in Request : pc[r] \in {"define", "grant", "delete"}}
MayBegin(r) == pc[r] = "idle" /\ (Serial => Open = {})
Granting(n) == {r \in Request : pc[r] = "grant" /\ name[r] = n}
Deleting(n) == {r \in Request : pc[r] = "delete" /\ name[r] = n}
Holders(n) == {g \in grants : g[2] = n}

Init ==
    /\ perms = [n \in Role |-> None] /\ grants = {}
    /\ pc = [r \in Request |-> "idle"] /\ name = [r \in Request |-> None]
    /\ who = [r \in Request |-> None] /\ packed = [r \in Request |-> {}]
    /\ batch = [r \in Request |-> {}]
    /\ quiet = {} /\ cleared = {} /\ lost = {}

Call(r, at, n) ==
    /\ MayBegin(r)
    /\ pc' = [pc EXCEPT ![r] = at] /\ name' = [name EXCEPT ![r] = n]

Return(r) ==
    /\ pc' = [pc EXCEPT ![r] = "idle"] /\ name' = [name EXCEPT ![r] = None]
    /\ who' = [who EXCEPT ![r] = None] /\ packed' = [packed EXCEPT ![r] = {}]
    /\ batch' = [batch EXCEPT ![r] = {}]
-----------------------------------------------------------------------------
\* define_role of a role that exists: the UPDATE replaces its permissions; a
\* delete_role that has locked nothing of the row yet does not block it.
Redefine(r, n, P) ==
    /\ MayBegin(r) /\ perms[n] # None
    /\ perms' = [perms EXCEPT ![n] = P]
    /\ UNCHANGED <<grants, locals, quiet, cleared, lost>>

\* define_role when the UPDATE reports no row: there is none, or MySQL, which
\* counts the rows that change, had nothing to change.
Define(r, n, P) ==
    /\ perms[n] = None \/ (~Serial /\ perms[n] = P)
    /\ Call(r, "define", n)
    /\ packed' = [packed EXCEPT ![r] = P]
    /\ UNCHANGED <<perms, grants, who, batch, quiet, cleared, lost>>

\* Its INSERT; a role that is there by now raises IntegrityError.
InsertRole(r) ==
    /\ pc[r] = "define"
    /\ IF perms[name[r]] = None
       THEN perms' = [perms EXCEPT ![name[r]] = packed[r]] /\ Return(r)
       ELSE pc' = [pc EXCEPT ![r] = "settle"] /\ UNCHANGED <<perms, name, who, packed, batch>>
    /\ UNCHANGED <<grants, quiet, cleared, lost>>

\* The handler of IntegrityError: a plain UPDATE, which may match no row.
Settle(r) ==
    /\ pc[r] = "settle" /\ (Serial => Open = {})
    /\ IF perms[name[r]] # None
       THEN perms' = [perms EXCEPT ![name[r]] = packed[r]] /\ UNCHANGED lost
       ELSE lost' = lost \cup {r} /\ UNCHANGED perms
    /\ Return(r)
    /\ UNCHANGED <<grants, quiet, cleared>>
-----------------------------------------------------------------------------
\* Mutant: the grants of a deleted role are left where they are.
Cascaded_None(n) == {}
\* DELETE FROM user_roles WHERE role_name = ?
Cascaded(n) == Holders(n)

\* delete_role, its first DELETE.
DeleteGrants(r, n) ==
    /\ Call(r, "delete", n)
    /\ batch' = [batch EXCEPT ![r] = Cascaded(n)]
    /\ quiet' = IF Granting(n) = {} THEN quiet \cup {r} ELSE quiet
    /\ UNCHANGED <<perms, grants, who, packed, cleared, lost>>

\* Its second DELETE and COMMIT.
DeleteRole(r) ==
    /\ pc[r] = "delete"
    /\ perms' = [perms EXCEPT ![name[r]] = None]
    /\ grants' = grants \ batch[r]
    /\ cleared' = IF r \in quiet THEN cleared \cup {name[r]} ELSE cleared
    /\ quiet' = quiet \ {r}
    /\ Return(r)
    /\ UNCHANGED lost

\* SELECT name FROM roles WHERE name = ?
Defined(n) == perms[n] # None

\* grant_role, its SELECT; an undefined role raises RoleNotFound.
GrantRole(r, u, n) ==
    /\ Defined(n)
    /\ Call(r, "grant", n)
    /\ who' = [who EXCEPT ![r] = u]
    /\ quiet' = quiet \ Deleting(n) /\ cleared' = cleared \ {n}
    /\ UNCHANGED <<perms, grants, packed, batch, lost>>

\* Its INSERT and COMMIT; a grant that exists is the end state asked for.
InsertGrant(r) ==
    /\ pc[r] = "grant"
    /\ grants' = grants \cup {<<who[r], name[r]>>}
    /\ Return(r)
    /\ UNCHANGED <<perms, quiet, cleared, lost>>

RevokeRole(u, n) ==
    /\ <<u, n>> \in grants /\ (Serial => Open = {})
    /\ grants' = grants \ {<<u, n>>}
    /\ UNCHANGED <<perms, locals, quiet, cleared, lost>>

\* A statement fails, the call is cancelled or the process dies.
Abort(r) ==
    /\ pc[r] # "idle"
    /\ Return(r)
    /\ quiet' = quiet \ {r}
    /\ UNCHANGED <<perms, grants, cleared, lost>>

Next ==
    \/ \E r \in Request :
         \/ InsertRole(r) \/ Settle(r) \/ DeleteRole(r) \/ InsertGrant(r) \/ Abort(r)
         \/ \E n \in Role :
              \/ DeleteGrants(r, n)
              \/ \E u \in User : GrantRole(r, u, n)
              \/ \E P \in SUBSET Permission : Redefine(r, n, P) \/ Define(r, n, P)
    \/ \E u \in User, n \in Role : RevokeRole(u, n)

Spec == Init /\ [][Next]_vars
-----------------------------------------------------------------------------
\* permissions_for: the join of the user's grants and the roles there are.
PermissionsFor(u) == UNION {perms[n] : n \in {m \in Role : <<u, m>> \in grants /\ perms[m] # None}}

\* Variables have their types; a grant in flight names its user.
TypeOK ==
    /\ perms \in [Role -> {None} \cup SUBSET Permission]
    /\ grants \subseteq User \X Role
    /\ pc \in [Request -> {"idle", "define", "settle", "delete", "grant"}]
    /\ name \in [Request -> Role \cup {None}] /\ who \in [Request -> User \cup {None}]
    /\ packed \in [Request -> SUBSET Permission] /\ batch \in [Request -> SUBSET (User \X Role)]
    /\ quiet \subseteq Request /\ cleared \subseteq Role /\ lost \subseteq Request
    /\ \A r \in Request : /\ pc[r] # "idle" => name[r] # None
                          /\ pc[r] = "grant" => who[r] # None

\* A role deleted while nobody was being granted it has no holder until it is
\* granted again: redefining it gives nobody its permissions (delete_role
\* "cascade[s] every grant").
DeletedRoleIsEmpty == \A n \in cleared : Holders(n) = {}

\* Stated, holds on SQLite and is broken on the servers by a grant in flight:
\* "a concurrent delete_role cannot leave an orphan grant behind" (grant_role).
NoOrphanGrant == \A g \in grants : perms[g[2]] # None

\* Stated, and broken by a delete between the two statements: "Either way the
\* role row exists now" (define_role).
DefineTakesEffect == lost = {}
=============================================================================
