------------------------------- MODULE Accounts -------------------------------
(***************************************************************************)
(* pyxle_auth/service.py and tokens.py: accounts, their passwords, the     *)
(* sessions they open and the single-use tokens that reset a password or   *)
(* verify an address.  A step is what one statement, or one transaction    *)
(* that ends with its only write, does to the tables; between the steps of *)
(* one call others run.  The transactions are those of PostgreSQL under    *)
(* read committed, the weakest of the three backends: a statement sees     *)
(* what was committed when it began, so what it matched is kept in `batch' *)
(* until the commit.  SQLite's BEGIN IMMEDIATE allows fewer behaviours.    *)
(*                                                                         *)
(* A password is the number of the choice that made it: 1 is the one given *)
(* at sign-up, 0 the random one of create_external_user that nobody knows. *)
(* A call with a wrong password, one the policy rejects or an exhausted    *)
(* rate limit (RateLimiter) raises before it changes anything here.  The   *)
(* age of a session is in Sessions.                                        *)
(***************************************************************************)
EXTENDS Naturals, Sequences

CONSTANTS Request,            \* concurrent calls of the service
          User,               \* user ids; each has one e-mail address
          Session, Token,     \* random values, by their SHA-256
          MaxPasswords,       \* bound: passwords chosen for one account
          RequireVerified,    \* AuthSettings.require_email_verified
          None, Gone

Purpose == {"password_reset", "email_verify"}

VARIABLES stored,      \* the password a row's password_hash is of; None: no row
                       \* yet, Gone: the row was deleted (ids are not reused)
          outdated,    \* users whose hash was made with earlier argon2 parameters
          verified,    \* users whose email_verified_at is set
          session,     \* a session's row: user, and as history the password it
                       \* was authenticated with; None: no row
          token,       \* a token's row: user and purpose, and as history the call
                       \* that issued it and what it was redeemed for; None: no row
          used,        \* tokens whose used_at is set
          pc, who,     \* each call: its next statement, the user it is about
          seen,        \* the password it verified
          tok,         \* the token it presents
          batch,       \* rows its open transaction's statement matched
          chosen,      \* history: passwords chosen for an account so far
          quiet,       \* history: changes during which nobody was signing in
          final        \* history: the last password set by such a change

rows == <<stored, outdated, verified, session, token, used>>
calls == <<pc, who, seen, tok, batch>>
history == <<chosen, quiet, final>>
vars == <<rows, calls, history>>

Exists(u) == stored[u] \notin {None, Gone}
SessionsOf(u) == {s \in Session : session[s] # None /\ session[s].user = u}
Live(u, p) == {t \in Token \ used : token[t] # None /\ token[t].user = u /\ token[t].purpose = p}

\* The call has read a password hash of u and acts on it in a later statement.
Verifying(u) == {r \in Request : who[r] = u /\ pc[r] \in {"rehash", "bar", "open", "swap"} /\ tok[r] = None}
\* The call holds the lock of u's row until it commits.
Changing(u) == {r \in Request : who[r] = u /\ pc[r] = "commit"}

Init ==
    /\ stored = [u \in User |-> None] /\ outdated = {} /\ verified = {}
    /\ session = [s \in Session |-> None]
    /\ token = [t \in Token |-> None] /\ used = {}
    /\ pc = [r \in Request |-> "idle"] /\ who = [r \in Request |-> None]
    /\ seen = [r \in Request |-> 0] /\ tok = [r \in Request |-> None]
    /\ batch = [r \in Request |-> {}]
    /\ chosen = [u \in User |-> 0]
    /\ quiet = {} /\ final = [u \in User |-> 0]

Call(r, at, u) ==
    /\ pc[r] = "idle"
    /\ pc' = [pc EXCEPT ![r] = at] /\ who' = [who EXCEPT ![r] = u]

Goto(r, at) == pc[r] # "idle" /\ pc' = [pc EXCEPT ![r] = at]

\* The call returns or raises: its locals are gone.
Return(r) ==
    /\ pc' = [pc EXCEPT ![r] = "idle"] /\ who' = [who EXCEPT ![r] = None]
    /\ seen' = [seen EXCEPT ![r] = 0] /\ tok' = [tok EXCEPT ![r] = None]
    /\ batch' = [batch EXCEPT ![r] = {}]

\* Someone begins to sign in: a change that is under way is not quiet.
Disturb(u) == quiet' = quiet \ Changing(u)
-----------------------------------------------------------------------------
\* sign_up: the INSERT; a taken identifier raises AccountExists.  The session
\* is opened by a statement of its own.
SignUp(r, u) ==
    /\ stored[u] = None /\ MaxPasswords > 0
    /\ Call(r, "open", u)
    /\ stored' = [stored EXCEPT ![u] = 1] /\ chosen' = [chosen EXCEPT ![u] = 1]
    /\ seen' = [seen EXCEPT ![r] = 1]
    /\ UNCHANGED <<outdated, verified, session, token, used, tok, batch, quiet, final>>

\* create_external_user: the password is random and forgotten.
CreateExternalUser(u) ==
    /\ stored[u] = None
    /\ stored' = [stored EXCEPT ![u] = 0]
    /\ \E vouched \in BOOLEAN : verified' = IF vouched THEN verified \cup {u} ELSE verified
    /\ UNCHANGED <<outdated, session, token, used, calls, history>>

\* verify_credentials: one SELECT reads the hash, its parameters and whether
\* the address is verified; what follows acts on that row.
VerifyCredentials(r, u) ==
    LET admitted == ~RequireVerified \/ u \in verified IN
    /\ Exists(u) /\ stored[u] # 0
    /\ admitted \/ u \in outdated
    /\ Call(r, IF u \notin outdated THEN "open" ELSE IF admitted THEN "rehash" ELSE "bar", u)
    /\ seen' = [seen EXCEPT ![r] = stored[u]]
    /\ Disturb(u)
    /\ UNCHANGED <<rows, tok, batch, chosen, final>>

\* The opportunistic rehash of the password that was verified: UPDATE users
\* ... WHERE id = ?, without a test of the hash it replaces.
Rehash(r) ==
    /\ pc[r] \in {"rehash", "bar"} /\ Changing(who[r]) = {}
    /\ IF Exists(who[r])
       THEN /\ stored' = [stored EXCEPT ![who[r]] = seen[r]]
            /\ outdated' = outdated \ {who[r]}
       ELSE UNCHANGED <<stored, outdated>>
    /\ IF pc[r] = "rehash" THEN Goto(r, "open") /\ UNCHANGED <<who, seen, tok, batch>>
                           ELSE Return(r)
    /\ UNCHANGED <<verified, session, token, used, history>>

\* The INSERT of a row for a fresh random token.
InsertSession(u, password) ==
    \E s \in Session :
        /\ session[s] = None /\ \A i \in Request : s \notin batch[i]
        /\ session' = [session EXCEPT ![s] = [user |-> u, via |-> password]]

\* _issue_session; without the user's row the load before it, or the foreign
\* key, makes the call fail.
OpenSession(r) ==
    /\ pc[r] = "open"
    /\ IF Exists(who[r]) THEN InsertSession(who[r], seen[r]) ELSE UNCHANGED session
    /\ Return(r)
    /\ UNCHANGED <<stored, outdated, verified, token, used, history>>

\* start_session: the caller has authenticated the user without a password.
StartSession(u) ==
    /\ Exists(u) /\ InsertSession(u, None)
    /\ UNCHANGED <<stored, outdated, verified, token, used, calls, history>>
-----------------------------------------------------------------------------
\* change_password: reads and verifies the current password.
ChangePassword(r, u) ==
    /\ Exists(u) /\ stored[u] # 0
    /\ Call(r, "swap", u)
    /\ seen' = [seen EXCEPT ![r] = stored[u]]
    /\ Disturb(u)
    /\ UNCHANGED <<rows, tok, batch, chosen, final>>

\* Mutant: the transaction does not delete the sessions.
Revoked_None(u) == {}
\* DELETE FROM sessions WHERE user_id = ?
Revoked(u) == SessionsOf(u)

\* The transaction of change_password and reset_password: UPDATE users, which
\* locks the row, then the DELETE, which matches the sessions there are now.
SwapHash(r) ==
    /\ pc[r] = "swap" /\ Changing(who[r]) = {}
    /\ IF Exists(who[r])
       THEN /\ Goto(r, "commit")
            /\ batch' = [batch EXCEPT ![r] = Revoked(who[r])]
            /\ quiet' = IF Verifying(who[r]) \subseteq {r} THEN quiet \cup {r} ELSE quiet \ {r}
            /\ UNCHANGED <<who, seen, tok>>
       ELSE Return(r) /\ UNCHANGED quiet
    /\ UNCHANGED <<rows, chosen, final>>

\* Its COMMIT.
CommitHash(r) ==
    /\ pc[r] = "commit" /\ chosen[who[r]] < MaxPasswords
    /\ LET u == who[r]  n == chosen[u] + 1 IN
         /\ stored' = [stored EXCEPT ![u] = n] /\ outdated' = outdated \ {u}
         /\ chosen' = [chosen EXCEPT ![u] = n]
         /\ final' = IF r \in quiet THEN [final EXCEPT ![u] = n] ELSE final
    /\ session' = [s \in Session |-> IF s \in batch[r] THEN None ELSE session[s]]
    /\ quiet' = quiet \ {r}
    /\ Return(r)
    /\ UNCHANGED <<verified, token, used>>
-----------------------------------------------------------------------------
\* Mutant: an issue does not burn the tokens before it.
Earlier_None(u, p) == {}
\* WHERE user_id = ? AND purpose = ? AND used_at IS NULL
Earlier(u, p) == Live(u, p)

\* TokenService.issue, its UPDATE.
Issue(r, u, p) ==
    /\ Exists(u)
    /\ Call(r, p, u)
    /\ batch' = [batch EXCEPT ![r] = Earlier(u, p)]
    /\ UNCHANGED <<rows, seen, tok, history>>

\* request_password_reset of a known address; for an unknown one the same
\* statements run for a sentinel id that no account has.
RequestPasswordReset(r, u) == Issue(r, u, "password_reset")
RequestEmailVerification(r, u) == Issue(r, u, "email_verify")

\* TokenService.issue, its INSERT and COMMIT.
Mint(r) ==
    /\ pc[r] \in Purpose
    /\ \E t \in Token :
         /\ token[t] = None /\ \A i \in Request : tok[i] # t /\ t \notin batch[i]
         /\ token' = [token EXCEPT ![t] = [user |-> who[r], purpose |-> pc[r], by |-> r, claims |-> <<>>]]
    /\ used' = used \cup {t \in batch[r] : token[t] # None}
    /\ Return(r)
    /\ UNCHANGED <<stored, outdated, verified, session, history>>

\* WHERE token_sha256 = ? AND purpose = ?
Found(t, p) == token[t] # None /\ token[t].purpose = p

\* TokenService.consume, its SELECT; a used or expired token is refused.  Any
\* token may expire: it is then no longer presented, until it is swept.
Present(r, t, at, p) ==
    /\ Found(t, p) /\ t \notin used
    /\ Call(r, at, token[t].user)
    /\ tok' = [tok EXCEPT ![r] = t]
    /\ UNCHANGED <<rows, seen, batch, history>>

ResetPassword(r, t) == Present(r, t, "burn_reset", "password_reset")
ConfirmEmail(r, t) == Present(r, t, "burn_verify", "email_verify")

\* Mutant: the UPDATE has no guard on used_at.
Unused_Unguarded(t) == token[t] # None
\* WHERE token_sha256 = ? AND used_at IS NULL
Unused(t) == token[t] # None /\ t \notin used

\* TokenService.consume, its UPDATE and COMMIT: it waits for an issue that has
\* locked the row, and at most one caller sees an affected row.
Burn(r) ==
    LET t == tok[r]  reset == pc[r] = "burn_reset" IN
    /\ pc[r] \in {"burn_reset", "burn_verify"}
    /\ \A i \in Request : pc[i] \in Purpose => t \notin batch[i]
    /\ IF Unused(t)
       THEN /\ used' = used \cup {t}
            /\ token' = [token EXCEPT ![t].claims =
                   Append(@, IF reset THEN "password_reset" ELSE "email_verify")]
            /\ Goto(r, IF reset THEN "swap" ELSE "stamp")
            /\ UNCHANGED <<who, seen, tok, batch>>
       ELSE Return(r) /\ UNCHANGED <<used, token>>
    /\ UNCHANGED <<stored, outdated, verified, session, history>>

\* mark_email_verified: confirm_email's last statement, after the token was
\* burned in a transaction of its own.
MarkEmailVerified(r) ==
    /\ pc[r] = "stamp"
    /\ verified' = IF Exists(who[r]) THEN verified \cup {who[r]} ELSE verified
    /\ Return(r)
    /\ UNCHANGED <<stored, outdated, session, token, used, history>>
-----------------------------------------------------------------------------
\* DELETE FROM sessions of the rows S.
Delete(S) ==
    /\ session' = [s \in Session |-> IF s \in S THEN None ELSE session[s]]
    /\ UNCHANGED <<stored, outdated, verified, token, used, calls, history>>

SignOut(s) == session[s] # None /\ Delete({s})
RevokeSession(u, s) == s \in SessionsOf(u) /\ Delete({s})
RevokeAllSessions(u) == SessionsOf(u) # {} /\ Delete(SessionsOf(u))

\* sweep_expired: rows that were used, or expired, a day ago.
SweepExpired ==
    /\ \E old \in SUBSET {t \in Token : token[t] # None} :
         /\ old # {}
         /\ token' = [t \in Token |-> IF t \in old THEN None ELSE token[t]]
         /\ used' = used \ old
    /\ UNCHANGED <<stored, outdated, verified, session, calls, history>>

\* The service restarts with higher argon2 parameters.
RaiseParameters ==
    /\ outdated' = {u \in User : Exists(u)}
    /\ UNCHANGED <<stored, verified, session, token, used, calls, history>>

\* A statement fails, the call is cancelled or the process dies: an open
\* transaction rolls back, what was committed stays.
Abort(r) ==
    /\ pc[r] # "idle"
    /\ Return(r)
    /\ quiet' = quiet \ {r}
    /\ UNCHANGED <<rows, chosen, final>>

\* The application deletes an account; sessions go with it (ON DELETE
\* CASCADE), tokens have no foreign key and stay.
DeleteAccount(u) ==
    /\ Exists(u) /\ Changing(u) = {}
    /\ stored' = [stored EXCEPT ![u] = Gone]
    /\ outdated' = outdated \ {u} /\ verified' = verified \ {u}
    /\ session' = [s \in Session |-> IF s \in SessionsOf(u) THEN None ELSE session[s]]
    /\ UNCHANGED <<token, used, calls, history>>

Statement(r) ==
    \/ Rehash(r) \/ OpenSession(r) \/ SwapHash(r) \/ CommitHash(r)
    \/ Mint(r) \/ Burn(r) \/ MarkEmailVerified(r) \/ Abort(r)

Next ==
    \/ \E r \in Request : Statement(r)
    \/ \E r \in Request, u \in User :
         \/ SignUp(r, u) \/ VerifyCredentials(r, u) \/ ChangePassword(r, u)
         \/ RequestPasswordReset(r, u) \/ RequestEmailVerification(r, u)
    \/ \E r \in Request, t \in Token : ResetPassword(r, t) \/ ConfirmEmail(r, t)
    \/ \E u \in User : CreateExternalUser(u) \/ StartSession(u) \/ RevokeAllSessions(u) \/ DeleteAccount(u)
    \/ \E s \in Session : SignOut(s) \/ \E u \in User : RevokeSession(u, s)
    \/ SweepExpired \/ RaiseParameters

Spec == Init /\ [][Next]_vars
-----------------------------------------------------------------------------
\* Variables have their types; a call past its first statement has what the
\* later ones need.
TypeOK ==
    /\ stored \in [User -> Nat \cup {None, Gone}]
    /\ outdated \subseteq User /\ verified \subseteq User
    /\ session \in [Session -> [user : User, via : Nat \cup {None}] \cup {None}]
    /\ token \in [Token -> [user : User, purpose : Purpose, by : Request, claims : Seq(Purpose)] \cup {None}]
    /\ used \subseteq Token
    /\ pc \in [Request -> {"idle", "rehash", "bar", "open", "swap", "commit",
                           "burn_reset", "burn_verify", "stamp"} \cup Purpose]
    /\ who \in [Request -> User \cup {None}] /\ seen \in [Request -> Nat]
    /\ tok \in [Request -> Token \cup {None}]
    /\ batch \in [Request -> SUBSET (Session \cup Token)]
    /\ chosen \in [User -> Nat]
    /\ quiet \subseteq Request /\ final \in [User -> Nat]
    /\ \A r \in Request : /\ (pc[r] = "idle") <=> (who[r] = None)
                          /\ pc[r] \in {"burn_reset", "burn_verify", "stamp"} => tok[r] # None
                          /\ pc[r] \in Purpose => batch[r] \subseteq Token

\* Once a password was changed or reset while nobody was signing in or
\* changing it, neither an older password nor a session that one opened comes
\* back ("Revoke every session": change_password; reset_password).
ChangeIsFinal ==
    \A u \in User :
        /\ Exists(u) /\ stored[u] # 0 => stored[u] >= final[u]
        /\ \A s \in SessionsOf(u) : session[s].via # None => session[s].via >= final[u]

\* A token is redeemed once and for the purpose it was issued for, however
\* many calls present it ("burns the token atomically", tokens.py).
RedeemedOnce ==
    \A t \in Token : token[t] # None => token[t].claims \in {<<>>, <<token[t].purpose>>}

\* The live tokens of a user and purpose come from different callers that ran
\* at the same time: one caller after another leaves one live link ("burns the
\* user's previous unused tokens", issue).
NewestLinkOnly ==
    \A u \in User, p \in Purpose : \A s, t \in Live(u, p) : token[s].by = token[t].by => s = t

\* The rows of tokens as SingleUseLinks sees them.
LinkRow(t) == IF token[t] = None THEN None
              ELSE [user |-> token[t].user, purpose |-> token[t].purpose, by |-> token[t].by]
Links == INSTANCE SingleUseLinks WITH
    row <- [t \in Token |-> LinkRow(t)],
    redeemed <- [t \in Token |-> IF token[t] = None THEN <<>> ELSE token[t].claims]

\* However issues, redemptions and sweeps interleave, a link is issued, redeemed or
\* swept in one step: an issue burns the links its caller had before, and a link is
\* redeemed once, unused, for its purpose (tokens.py implements SingleUseLinks).
ImplementsLinks == Links!Spec

\* Stated, and broken by a sign-in in flight: the stored password is the one
\* chosen last.
LastChoiceStands == \A u \in User : Exists(u) /\ chosen[u] > 0 => stored[u] = chosen[u]

\* Stated, and broken by two overlapping issues: "requesting a second
\* password-reset email invalidates the first link" (issue).
OneLiveLink == \A u \in User, p \in Purpose, s, t \in Token : {s, t} \subseteq Live(u, p) => s = t
=============================================================================
