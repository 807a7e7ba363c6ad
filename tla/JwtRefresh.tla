------------------------------ MODULE JwtRefresh ------------------------------
(***************************************************************************)
(* pyxle_auth/jwt_tokens.py: rotating refresh tokens.  Every SQL statement *)
(* of JWTService commits by itself, so a refresh is up to three steps      *)
(* (read the row, claim it, insert the successor) and several refreshes of *)
(* one family, and revocations of it, run between each other's steps.      *)
(***************************************************************************)
CONSTANTS Request,   \* concurrent calls of refresh
          Token,     \* refresh tokens, by their SHA-256
          Family,    \* family ids: one sign-in each
          User,
          None

ASSUME JwtRefreshAssumption == None \notin Token \cup Family \cup User

VARIABLES family,    \* a row's family_id; None: the table has no such row
          owner,     \* the user_id of a family's rows
          used,      \* rows whose used_at is set
          revoked,   \* rows whose revoked_at is set
          expired,   \* rows whose expires_at has passed
          pc, tok,   \* each request: its next statement and the token it presents
          parent,    \* history: the token whose rotation issued this one
          burned,    \* history: families in which a reuse was detected
          settled    \* history: families revoked while no rotation was in flight

vars == <<family, owner, used, revoked, expired, pc, tok, parent, burned, settled>>
history == <<parent, burned, settled>>

Row == {t \in Token : family[t] # None}
Rows(F) == {t \in Row : family[t] \in F}

\* Rows a claim could still win, as far as the table says.
Unspent == Row \ (used \cup revoked)

\* The request has claimed its token and not yet inserted the successor.
InFlight(f) == {r \in Request : pc[r] = "issue" /\ family[tok[r]] = f}

Init ==
    /\ family = [t \in Token |-> None]
    /\ owner = [f \in Family |-> None]
    /\ used = {} /\ revoked = {} /\ expired = {}
    /\ pc = [r \in Request |-> "idle"]
    /\ tok = [r \in Request |-> None]
    /\ parent = [t \in Token |-> None]
    /\ burned = {} /\ settled = {}

\* _issue's INSERT of a row with a fresh random token.
Insert(t, f, from) ==
    /\ t \notin Row
    /\ family' = [family EXCEPT ![t] = f]
    /\ parent' = [parent EXCEPT ![t] = from]

\* The call of refresh ends; what it had read is gone.
Return(r) ==
    /\ pc' = [pc EXCEPT ![r] = "idle"]
    /\ tok' = [tok EXCEPT ![r] = None]

\* UPDATE ... SET revoked_at: every row of the families F.
Revoke(F) ==
    /\ revoked' = revoked \cup Rows(F)
    /\ settled' = settled \cup {f \in F : InFlight(f) = {}}
-----------------------------------------------------------------------------
\* issue_pair: a family of its own.
IssuePair(u) ==
    /\ \E f \in Family, t \in Token :
         /\ owner[f] = None
         /\ owner' = [owner EXCEPT ![f] = u]
         /\ Insert(t, f, None)
    /\ UNCHANGED <<used, revoked, expired, pc, tok, burned, settled>>


\* Presenting any other token raises InvalidToken and changes nothing.
Acceptable == Row \ (revoked \cup expired)

\* refresh, the SELECT.
Present(r, t) ==
    /\ pc[r] = "idle" /\ t \in Acceptable
    /\ tok' = [tok EXCEPT ![r] = t]
    /\ pc' = [pc EXCEPT ![r] = IF t \in used THEN "burn" ELSE "claim"]
    /\ UNCHANGED <<family, owner, used, revoked, expired, history>>

\* Mutants: the UPDATE forgets one of the two tests of its WHERE clause.
ClaimWins_Used(t) == t \notin revoked
ClaimWins_Revoked(t) == t \notin used

\* WHERE token_sha256 = ? AND used_at IS NULL AND revoked_at IS NULL
ClaimWins(t) == t \notin used \cup revoked

\* refresh, the UPDATE: at most one caller sees an affected row.
Claim(r) ==
    /\ pc[r] = "claim"
    /\ \/ /\ ClaimWins(tok[r])
          /\ used' = used \cup {tok[r]}
          /\ pc' = [pc EXCEPT ![r] = "issue"]
       \/ /\ ~ClaimWins(tok[r])
          /\ pc' = [pc EXCEPT ![r] = "burn"]
          /\ UNCHANGED used
    /\ UNCHANGED <<family, owner, revoked, expired, tok, history>>

\* A reuse: revoke_family, then InvalidToken.
Burn(r) ==
    /\ pc[r] = "burn"
    /\ Revoke({family[tok[r]]})
    /\ burned' = burned \cup {family[tok[r]]}
    /\ Return(r)
    /\ UNCHANGED <<family, owner, used, expired, parent>>

\* The winner inserts the successor and returns the pair.
Issue(r) ==
    /\ pc[r] = "issue"
    /\ \E t \in Token : Insert(t, family[tok[r]], tok[r])
    /\ Return(r)
    /\ UNCHANGED <<owner, used, revoked, expired, burned, settled>>

\* A statement fails, the request is cancelled, or the process dies.
Abort(r) ==
    /\ pc[r] # "idle"
    /\ Return(r)
    /\ UNCHANGED <<family, owner, used, revoked, expired, history>>

\* revoke_family called by the application.
RevokeFamily(f) ==
    /\ owner[f] # None
    /\ Revoke({f})
    /\ UNCHANGED <<family, owner, used, expired, pc, tok, parent, burned>>

\* revoke_all_for_user: every family of the user.
RevokeAllForUser(u) ==
    /\ Revoke({f \in Family : owner[f] = u})
    /\ UNCHANGED <<family, owner, used, expired, pc, tok, parent, burned>>

\* Time passes a row's expires_at.
Expire(t) ==
    /\ t \in Row
    /\ expired' = expired \cup {t}
    /\ UNCHANGED <<family, owner, used, revoked, pc, tok, history>>

Next ==
    \/ \E r \in Request : \/ \E t \in Token : Present(r, t)
                          \/ Claim(r) \/ Burn(r) \/ Issue(r) \/ Abort(r)
    \/ \E f \in Family : RevokeFamily(f)
    \/ \E u \in User : IssuePair(u) \/ RevokeAllForUser(u)
    \/ \E t \in Token : Expire(t)

Spec == Init /\ [][Next]_vars
-----------------------------------------------------------------------------
\* Variables have their types, and a request past its SELECT names a row.
TypeOK ==
    /\ family \in [Token -> Family \cup {None}]
    /\ owner \in [Family -> User \cup {None}]
    /\ used \subseteq Row /\ revoked \subseteq Row /\ expired \subseteq Row
    /\ pc \in [Request -> {"idle", "claim", "burn", "issue"}]
    /\ tok \in [Request -> Token \cup {None}]
    /\ \A r \in Request : pc[r] # "idle" => tok[r] \in Row
    /\ parent \in [Token -> Token \cup {None}]
    /\ burned \subseteq Family /\ settled \subseteq Family

\* A token is exchanged for at most one successor, however many requests
\* present it at once: "Only one concurrent caller can win" (refresh).
NoFork == \A s, t \in Row : parent[s] = parent[t] /\ parent[s] # None => s = t

\* A family never has two tokens that a claim could win, nor one while a
\* rotation of it is in flight: a stolen token and its owner's cannot both
\* go on (jwt_tokens.py, rotation with reuse detection).
OneUnspentToken ==
    \A f \in Family :
        /\ \A s, t \in Unspent : family[s] = f /\ family[t] = f => s = t
        /\ InFlight(f) # {} => Unspent \cap Rows({f}) = {}

\* The rows and the calls of refresh as RefreshChains sees them.
Chains == INSTANCE RefreshChains WITH
    started <- {f \in Family : owner[f] # None},
    issued <- Row,
    live <- [f \in Family |-> Unspent \cap Rows({f})],
    rotating <- {f \in Family : InFlight(f) # {}}

\* Whatever refreshes and revocations run between each other's statements, a
\* family goes from token to token one at a time: a claim spends the only one
\* it has, and at most one successor follows (rotation, jwt_tokens.py:13-18).
ImplementsChains == Chains!Spec

\* Once a family was revoked with no rotation in flight, by a detected reuse,
\* for a family or for its user, it stays dead: a refresh that read its row
\* before cannot bring it back (the guards of refresh's UPDATE).
SettledMeansDead == \A f \in settled : Rows({f}) \subseteq revoked /\ InFlight(f) = {}

\* After a reuse was detected no token of the family is alive: "the entire
\* family is revoked" (jwt_tokens.py:13-18).
ReuseRevokesFamily == \A f \in burned : Rows({f}) \subseteq revoked
=============================================================================
