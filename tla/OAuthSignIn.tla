------------------------------ MODULE OAuthSignIn ------------------------------
(***************************************************************************)
(* pyxle_auth/oauth: signing in with an identity provider.  A browser      *)
(* starts a flow and gets a signed state cookie; the provider sends some   *)
(* browser back with the flow's nonce and a code; the callback exchanges   *)
(* the code, finds or makes the account and opens a session.  Every        *)
(* statement of OAuthService commits by itself.                            *)
(***************************************************************************)
CONSTANTS Request,     \* concurrent callbacks
          Browser, Nonce, Identity, Email, User, None, Gone

VARIABLES cookie,     \* a browser's state cookie: a nonce, signed and not expired
          flow,       \* a nonce: "unused", "started", "code", "spent"
          subject,    \* who signed in at the provider for it
          mail,       \* an account's address; None: no row yet, Gone: deleted
          verified,   \* users whose email_verified_at is set
          link,       \* oauth_identities: the user an identity is linked to
          pc, at,     \* each callback: its next statement, its browser
          nonce,      \* the nonce of its cookie
          who,        \* the identity the provider returned
          address,    \* with the address it returned
          vouched,    \* and whether that was verified
          user,       \* the user it has found or made
          starter,    \* history: the browser that started a flow
          home,       \* history: the address an account was made with
          vouches,    \* history: <<identity, address>> the provider has verified
          severed     \* history: identities whose link to a live account was dropped

table == <<mail, verified, link>>
locals == <<pc, at, nonce, who, address, vouched, user>>
history == <<starter, home, vouches, severed>>
vars == <<cookie, flow, subject, table, locals, history>>

Exists(u) == mail[u] \in Email

Init ==
    /\ cookie = [b \in Browser |-> None]
    /\ flow = [n \in Nonce |-> "unused"] /\ subject = [n \in Nonce |-> None]
    /\ mail = [u \in User |-> None] /\ verified = {}
    /\ link = [i \in Identity |-> None]
    /\ pc = [r \in Request |-> "idle"] /\ at = [r \in Request |-> None]
    /\ nonce = [r \in Request |-> None] /\ who = [r \in Request |-> None]
    /\ address = [r \in Request |-> None] /\ vouched = [r \in Request |-> FALSE]
    /\ user = [r \in Request |-> None]
    /\ starter = [n \in Nonce |-> None] /\ home = [u \in User |-> None]
    /\ vouches = {} /\ severed = {}

\* The callback's response, or its failure.
Return(r) ==
    /\ pc' = [pc EXCEPT ![r] = "idle"] /\ at' = [at EXCEPT ![r] = None]
    /\ nonce' = [nonce EXCEPT ![r] = None] /\ who' = [who EXCEPT ![r] = None]
    /\ address' = [address EXCEPT ![r] = None] /\ vouched' = [vouched EXCEPT ![r] = FALSE]
    /\ user' = [user EXCEPT ![r] = None]

\* _clear_state_cookie.
ClearCookie(b) == cookie' = [cookie EXCEPT ![b] = None]

Goto(r, label) ==
    /\ pc' = [pc EXCEPT ![r] = label]
    /\ UNCHANGED <<at, nonce, who, address, vouched>>
-----------------------------------------------------------------------------
\* _start: a later start in the same browser replaces the cookie.
Start(b) ==
    /\ \E n \in Nonce :
         /\ flow[n] = "unused"
         /\ flow' = [flow EXCEPT ![n] = "started"] /\ starter' = [starter EXCEPT ![n] = b]
         /\ cookie' = [cookie EXCEPT ![b] = n]
    /\ UNCHANGED <<subject, table, locals, home, vouches, severed>>

\* Someone signs in at the provider, which issues a code for the flow.
Consent(n, i) ==
    /\ flow[n] = "started"
    /\ flow' = [flow EXCEPT ![n] = "code"] /\ subject' = [subject EXCEPT ![n] = i]
    /\ UNCHANGED <<cookie, table, locals, history>>

\* The state cookie's lifetime ends.
ExpireCookie(b) ==
    /\ cookie[b] # None
    /\ ClearCookie(b)
    /\ UNCHANGED <<flow, subject, table, locals, history>>

\* Mutant: any valid state cookie will do.
Matches_AnyCookie(b, n) == cookie[b] # None
\* The cookie verifies, is of this provider (there is one here), and its nonce is the
\* one the provider echoed.
Matches(b, n) == cookie[b] = n

\* _callback in the browser b, whichever flow the URL it was sent to is of; a
\* denied consent, too, ends with the cookie cleared.
RejectCallback(b, n) ==
    /\ flow[n] \in {"started", "code", "spent"} /\ cookie[b] # None
    /\ ~Matches(b, n) \/ flow[n] = "started"
    /\ ClearCookie(b)
    /\ UNCHANGED <<flow, subject, table, locals, history>>

Callback(r, b, n) ==
    /\ pc[r] = "idle" /\ flow[n] \in {"code", "spent"} /\ Matches(b, n)
    /\ pc' = [pc EXCEPT ![r] = "exchange"] /\ at' = [at EXCEPT ![r] = b]
    /\ nonce' = [nonce EXCEPT ![r] = n]
    /\ UNCHANGED <<cookie, flow, subject, table, who, address, vouched, user, history>>

\* _exchange_code and _fetch_identity: the provider takes a code once, and
\* says what address the identity has now; v is what bool() makes of its word
\* whether that is verified.
Exchange(r) ==
    /\ pc[r] = "exchange" /\ flow[nonce[r]] = "code"
    /\ flow' = [flow EXCEPT ![nonce[r]] = "spent"]
    /\ \E e \in Email \cup {None}, v \in BOOLEAN :
         /\ e = None => ~v
         /\ address' = [address EXCEPT ![r] = e] /\ vouched' = [vouched EXCEPT ![r] = v]
         /\ vouches' = IF v THEN vouches \cup {<<subject[nonce[r]], e>>} ELSE vouches
    /\ who' = [who EXCEPT ![r] = subject[nonce[r]]]
    /\ pc' = [pc EXCEPT ![r] = "find"]
    /\ UNCHANGED <<cookie, subject, table, at, nonce, user, starter, home, severed>>

\* An OAuthError on the way: the browser is sent away with its cookie cleared.
Fail(r) ==
    /\ ClearCookie(at[r]) /\ Return(r)

ExchangeFails(r) ==
    /\ pc[r] = "exchange"
    /\ Fail(r)
    /\ UNCHANGED <<flow, subject, table, history>>
-----------------------------------------------------------------------------
\* Mutant: an address need not be verified.
MayMatch_Unverified(r) == address[r] # None
\* The guard before an account is matched by its address.
MayMatch(r) == address[r] # None /\ vouched[r]

\* Without a link the address decides; OAuthEmailUnverified otherwise.
GoMatch(r) ==
    IF MayMatch(r) THEN Goto(r, "match") /\ UNCHANGED <<cookie, user>> ELSE Fail(r)

\* The SELECT of the identity's link.
FindLink(r) ==
    /\ pc[r] = "find"
    /\ IF link[who[r]] # None
       THEN /\ Goto(r, "load") /\ UNCHANGED cookie
            /\ user' = [user EXCEPT ![r] = link[who[r]]]
       ELSE GoMatch(r)
    /\ UNCHANGED <<flow, subject, table, history>>

\* get_user of the user it named.
LoadUser(r) ==
    /\ pc[r] = "load"
    /\ Goto(r, IF Exists(user[r]) THEN "session" ELSE "unlink")
    /\ UNCHANGED <<cookie, flow, subject, table, user, history>>

\* The DELETE of a dangling link, by provider and subject alone.
Unlink(r) ==
    /\ pc[r] = "unlink"
    /\ link' = [link EXCEPT ![who[r]] = None]
    /\ severed' = IF link[who[r]] # None THEN severed \cup {who[r]} ELSE severed
    /\ GoMatch(r)
    /\ UNCHANGED <<flow, subject, mail, verified, starter, home, vouches>>

\* get_user_by_email.
MatchAddress(r) ==
    /\ pc[r] = "match"
    /\ \/ /\ \A u \in User : mail[u] # address[r]
          /\ Goto(r, "create") /\ UNCHANGED user
       \/ \E u \in User :
            /\ mail[u] = address[r]
            /\ Goto(r, IF u \in verified THEN "link" ELSE "link_stamp")
            /\ user' = [user EXCEPT ![r] = u]
    /\ UNCHANGED <<cookie, flow, subject, table, history>>

\* create_external_user: UNIQUE(email) lets one caller through; the others'
\* AccountExists is no OAuthError and leaves the cookie.
CreateUser(r) ==
    /\ pc[r] = "create"
    /\ \/ /\ \E u \in User : mail[u] = address[r]
          /\ Return(r) /\ UNCHANGED <<mail, verified, home>>
       \/ /\ \A u \in User : mail[u] # address[r]
          /\ \E u \in User :
               /\ mail[u] = None
               /\ mail' = [mail EXCEPT ![u] = address[r]] /\ verified' = verified \cup {u}
               /\ home' = [home EXCEPT ![u] = address[r]]
               /\ user' = [user EXCEPT ![r] = u]
          /\ Goto(r, "link")
    /\ UNCHANGED <<cookie, flow, subject, link, starter, vouches, severed>>

\* Mutant: an account matched before its address was verified is not linked.
Linkable_Verified(r) == pc[r] = "link" /\ link[who[r]] = None /\ Exists(user[r])
\* The primary key, and the foreign key on users.
Linkable(r) == link[who[r]] = None /\ Exists(user[r])

\* _link: the INSERT; a link that exists, or a user that does not, raises an
\* IntegrityError that is swallowed.
Link(r) ==
    /\ pc[r] \in {"link", "link_stamp"}
    /\ link' = IF Linkable(r) THEN [link EXCEPT ![who[r]] = user[r]] ELSE link
    /\ Goto(r, IF pc[r] = "link" THEN "session" ELSE "stamp")
    /\ UNCHANGED <<cookie, flow, subject, mail, verified, user, history>>

\* mark_email_verified of the account it was matched to.
Stamp(r) ==
    /\ pc[r] = "stamp"
    /\ verified' = IF Exists(user[r]) THEN verified \cup {user[r]} ELSE verified
    /\ Goto(r, "session")
    /\ UNCHANGED <<cookie, flow, subject, mail, link, user, history>>

\* start_session and the redirect; the foreign key stops a user who is gone.
OpenSession(r) ==
    /\ pc[r] = "session"
    /\ IF Exists(user[r]) THEN ClearCookie(at[r]) ELSE UNCHANGED cookie
    /\ Return(r)
    /\ UNCHANGED <<flow, subject, table, history>>
-----------------------------------------------------------------------------
\* AuthService.sign_up of the same address, not verified yet.
SignUp(u, e) ==
    /\ mail[u] = None /\ \A v \in User : mail[v] # e
    /\ mail' = [mail EXCEPT ![u] = e] /\ home' = [home EXCEPT ![u] = e]
    /\ UNCHANGED <<cookie, flow, subject, verified, link, locals, starter, vouches, severed>>

\* The application deletes an account: ON DELETE CASCADE drops its links.
DeleteAccount(u) ==
    /\ Exists(u)
    /\ mail' = [mail EXCEPT ![u] = Gone] /\ verified' = verified \ {u}
    /\ link' = [i \in Identity |-> IF link[i] = u THEN None ELSE link[i]]
    /\ UNCHANGED <<cookie, flow, subject, locals, history>>

\* A statement fails, the callback is cancelled or the process dies.
Abort(r) ==
    /\ pc[r] # "idle"
    /\ Return(r)
    /\ UNCHANGED <<cookie, flow, subject, table, history>>

Next ==
    \/ \E b \in Browser : Start(b) \/ ExpireCookie(b) \/ \E n \in Nonce : RejectCallback(b, n)
    \/ \E n \in Nonce, i \in Identity : Consent(n, i)
    \/ \E r \in Request :
         \/ \E b \in Browser, n \in Nonce : Callback(r, b, n)
         \/ Exchange(r) \/ ExchangeFails(r) \/ FindLink(r) \/ LoadUser(r) \/ Unlink(r)
         \/ MatchAddress(r) \/ CreateUser(r) \/ Link(r) \/ Stamp(r) \/ OpenSession(r) \/ Abort(r)
    \/ \E u \in User : DeleteAccount(u) \/ \E e \in Email : SignUp(u, e)

Spec == Init /\ [][Next]_vars
-----------------------------------------------------------------------------
\* Variables have their types; a callback past its exchange has an identity,
\* one past the account's lookup a user.
TypeOK ==
    /\ cookie \in [Browser -> Nonce \cup {None}]
    /\ flow \in [Nonce -> {"unused", "started", "code", "spent"}]
    /\ subject \in [Nonce -> Identity \cup {None}]
    /\ mail \in [User -> Email \cup {None, Gone}] /\ verified \subseteq User
    /\ link \in [Identity -> User \cup {None}]
    /\ pc \in [Request -> {"idle", "exchange", "find", "load", "unlink", "match", "create",
                           "link", "link_stamp", "stamp", "session"}]
    /\ at \in [Request -> Browser \cup {None}] /\ nonce \in [Request -> Nonce \cup {None}]
    /\ who \in [Request -> Identity \cup {None}] /\ address \in [Request -> Email \cup {None}]
    /\ vouched \in [Request -> BOOLEAN] /\ user \in [Request -> User \cup {None}]
    /\ starter \in [Nonce -> Browser \cup {None}] /\ home \in [User -> Email \cup {None}]
    /\ vouches \subseteq Identity \X Email /\ severed \subseteq Identity
    /\ \A r \in Request :
         /\ pc[r] # "idle" => nonce[r] # None /\ at[r] # None
         /\ pc[r] \notin {"idle", "exchange"} => who[r] # None
         /\ pc[r] \in {"load", "unlink", "link", "link_stamp", "stamp", "session"} => user[r] # None

\* A browser is signed in only by a flow it started itself, however the URLs of
\* other flows reach it (the state nonce, _callback).
OwnFlowOnly == \A r \in Request : pc[r] # "idle" => starter[nonce[r]] = at[r]

\* An identity is linked to, and opens, only accounts whose address the provider
\* has verified for it ("the takeover guard", _resolve_or_create_user).
ReachesOnlyVouched ==
    /\ \A i \in Identity : link[i] # None => <<i, home[link[i]]>> \in vouches
    /\ \A r \in Request : pc[r] = "session" => <<who[r], home[user[r]]>> \in vouches

\* A sign-in leaves its identity linked, so what a crash left between the
\* account and its link is repaired by the next one; unless an account was
\* deleted, and its links with it, or another callback dropped the link.
SignInLeavesLink ==
    (\A u \in User : mail[u] # Gone) =>
        \A r \in Request : pc[r] = "session" => link[who[r]] # None

\* Stated, and broken by a callback that read the link of a user deleted since:
\* only a "dangling link" is dropped (_resolve_or_create_user).
OnlyDanglingDropped == severed = {}

\* Stated, and broken by two first callbacks of one identity with different
\* addresses: "the existing link wins" (_link).
SessionFollowsLink ==
    \A r \in Request :
        pc[r] = "session" /\ Exists(user[r]) /\ link[who[r]] # None => link[who[r]] = user[r]
=============================================================================
