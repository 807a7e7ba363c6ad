-------------------------------- MODULE Sessions --------------------------------
(***************************************************************************)
(* Who a request acts as: pyxle_auth's middleware.py and guards.py with    *)
(* service.py's resolve_session.  Time passes between the statements of a  *)
(* request; its clock is read once, before the first of them.  Accounts    *)
(* models the statements of a sign-in, JwtRefresh those of a refresh: here *)
(* each is a step.                                                         *)
(***************************************************************************)
EXTENDS Naturals, FiniteSets

CONSTANTS Request, Browser, User,
          Session,     \* tokens of session cookies
          ApiToken,    \* personal access tokens
          Lifetime,    \* session_lifetime_seconds
          AbsoluteMax, \* session_absolute_max_seconds
          Slack,       \* the 60 s below which an extension is not written
          AccessTtl,   \* of a JWT access token
          MaxTime,     \* bound: the last moment
          MaxJwts,     \* bound: access tokens issued
          None, Unset  \* Unset: the scope holds no user yet

Time == 0 .. MaxTime
\* A JWT access token is its claims: it is in no table.
Jwt == [sub : User, exp : 0 .. MaxTime + AccessTtl]

ASSUME SessionsAssumption ==
    /\ {Lifetime, AbsoluteMax, Slack, AccessTtl, MaxTime, MaxJwts} \subseteq Nat
    /\ AbsoluteMax >= Lifetime
    /\ None \notin User \cup Session \cup ApiToken \cup Jwt /\ Unset \notin User \cup {None}
    /\ ApiToken \cap (User \cup Jwt) = {}

Guard == {"user", "permission", "authenticate"}

VARIABLES now,
          users,     \* rows of users
          owner,     \* the user_id of a session's row; None: no row
          born,      \* its created_at
          expires,   \* its expires_at
          used,      \* history: session tokens there have been
          jar,       \* a browser's session cookie; None: none
          until,     \* the moment the browser drops it
          jwts,      \* access tokens issued
          pats,      \* live personal access tokens: <<token, user>>
          gone,      \* history: API tokens revoked, users deleted
          pc,        \* each request: its next step
          cookie,    \* the cookie it carries
          bearer,    \* the credential in its Authorization header
          clock,     \* the moment resolve_session read
          row,       \* the user_id, then the user, a statement returned
          user,      \* scope["user"]
          actor,     \* the user its handler acts as
          vouched    \* history: users its credentials stood for as it arrived

sessions == <<owner, born, expires, used>>
cookies == <<jar, until>>
tokens == <<jwts, pats, gone>>
request == <<pc, cookie, bearer, clock, row, user, actor, vouched>>
vars == <<now, users, sessions, cookies, tokens, request>>

Init ==
    /\ now = 0 /\ users \in SUBSET User
    /\ owner = [s \in Session |-> None] /\ born = [s \in Session |-> 0]
    /\ expires = [s \in Session |-> 0] /\ used = {}
    /\ jar = [b \in Browser |-> None] /\ until = [b \in Browser |-> 0]
    /\ jwts = {} /\ pats = {} /\ gone = {}
    /\ pc = [r \in Request |-> "idle"]
    /\ cookie = [r \in Request |-> None] /\ bearer = [r \in Request |-> None]
    /\ clock = [r \in Request |-> 0] /\ row = [r \in Request |-> None]
    /\ user = [r \in Request |-> Unset] /\ actor = [r \in Request |-> None]
    /\ vouched = [r \in Request |-> {}]

\* min(now + lifetime, created_at + absolute_max)
Least(m, n) == IF m < n THEN m ELSE n
Deadline(s) == born[s] + AbsoluteMax
\* A browser sends its cookie until the Max-Age it was set with has passed.
Carried(b) == IF jar[b] # None /\ now <= until[b] THEN jar[b] ELSE None
\* A client with a clock that is late, or with none, sends it after that.
Sent(b) == {jar[b], Carried(b)}
-----------------------------------------------------------------------------
\* _issue_session, of a sign-in or sign-up; the response with the cookie may be
\* lost on its way to the browser.
IssueSession(b, u) ==
    \E s \in Session \ used :
        /\ owner' = [owner EXCEPT ![s] = u] /\ born' = [born EXCEPT ![s] = now]
        /\ expires' = [expires EXCEPT ![s] = now + Lifetime] /\ used' = used \cup {s}
        /\ \/ /\ jar' = [jar EXCEPT ![b] = s]
              /\ until' = [until EXCEPT ![b] = now + Lifetime]
           \/ UNCHANGED cookies

\* POST /login with the right password.
Login(b, u) ==
    /\ u \in users
    /\ IssueSession(b, u)
    /\ UNCHANGED <<now, users, tokens, request>>

\* POST /signup, where it is served.
Signup(b, u) ==
    /\ u \notin users \cup gone
    /\ IssueSession(b, u)
    /\ users' = users \cup {u}
    /\ UNCHANGED <<now, tokens, request>>

\* POST /token with the right password, or /token/refresh.
IssueJwt(u) ==
    /\ u \in users /\ Cardinality(jwts) < MaxJwts
    /\ jwts' = jwts \cup {[sub |-> u, exp |-> now + AccessTtl]}
    /\ UNCHANGED <<now, users, sessions, cookies, pats, gone, request>>

\* ApiTokenService.create.
CreateApiToken(t, u) ==
    /\ u \in users /\ t \notin gone /\ \A p \in pats : p[1] # t
    /\ pats' = pats \cup {<<t, u>>}
    /\ UNCHANGED <<now, users, sessions, cookies, jwts, gone, request>>

DropSessions(S) ==
    /\ owner' = [s \in Session |-> IF s \in S THEN None ELSE owner[s]]
    /\ born' = [s \in Session |-> IF s \in S THEN 0 ELSE born[s]]
    /\ expires' = [s \in Session |-> IF s \in S THEN 0 ELSE expires[s]]
    /\ UNCHANGED used

\* POST /logout: sign_out and a cookie that deletes the browser's, if it arrives.
Logout(b) ==
    /\ \E s \in Sent(b) \ {None} : DropSessions({s})
    /\ \/ jar' = [jar EXCEPT ![b] = None] /\ until' = [until EXCEPT ![b] = 0]
       \/ UNCHANGED cookies
    /\ UNCHANGED <<now, users, tokens, request>>

\* revoke_session and revoke_all_sessions, by their user.
Revoke(u, S) ==
    /\ S # {} /\ \A s \in S : owner[s] = u
    /\ DropSessions(S)
    /\ UNCHANGED <<now, users, cookies, tokens, request>>

\* ApiTokenService.revoke, or the token's expires_at.
RevokeApiToken(p) ==
    /\ p \in pats
    /\ pats' = pats \ {p} /\ gone' = gone \cup {p[1]}
    /\ UNCHANGED <<now, users, sessions, cookies, jwts, request>>

\* The application deletes an account and what references it; an access token
\* cannot be called back.
DeleteUser(u) ==
    /\ u \in users
    /\ users' = users \ {u}
    /\ DropSessions({s \in Session : owner[s] = u})
    /\ pats' = {p \in pats : p[2] # u} /\ gone' = gone \cup {u} \cup {p[1] : p \in {q \in pats : q[2] = u}}
    /\ UNCHANGED <<now, cookies, jwts, request>>

Tick ==
    /\ now < MaxTime
    /\ now' = now + 1
    /\ UNCHANGED <<users, sessions, cookies, tokens, request>>
-----------------------------------------------------------------------------
Goto(r, label) ==
    /\ pc' = [pc EXCEPT ![r] = label]
    /\ UNCHANGED <<cookie, bearer, clock, vouched>>

\* resolve_session is done: its result is cached on the scope.
Cache(r, u) ==
    /\ pc' = [pc EXCEPT ![r] = "guard"] /\ user' = [user EXCEPT ![r] = u]
    /\ cookie' = [cookie EXCEPT ![r] = None] /\ clock' = [clock EXCEPT ![r] = 0]
    /\ row' = [row EXCEPT ![r] = None]
    /\ UNCHANGED <<bearer, actor, vouched>>

\* The guard returns u to the handler.
Act(r, u) ==
    /\ Goto(r, "acting")
    /\ actor' = [actor EXCEPT ![r] = u] /\ UNCHANGED <<row, user>>

\* The response.
Respond(r) ==
    /\ pc' = [pc EXCEPT ![r] = "idle"]
    /\ cookie' = [cookie EXCEPT ![r] = None] /\ bearer' = [bearer EXCEPT ![r] = None]
    /\ clock' = [clock EXCEPT ![r] = 0] /\ row' = [row EXCEPT ![r] = None]
    /\ user' = [user EXCEPT ![r] = Unset] /\ actor' = [actor EXCEPT ![r] = None]
    /\ vouched' = [vouched EXCEPT ![r] = {}]

\* Whom the credentials of a request stand for at this moment.  An expires_at
\* that has passed does not end a session: an extension in flight, its clock
\* read before, may still move it.
Vouched(s, c) ==
    ({u \in User : s \in Session /\ owner[s] = u /\ now <= Deadline(s)}
        \cup {u \in User : \E j \in jwts : j = c /\ j.sub = u /\ now < j.exp}
        \cup {p[2] : p \in {q \in pats : q[1] = c}}) \cap users

\* _handle: not an endpoint of its own, so _populate resolves the cookie s, if
\* there is one, and passes the request on.
Arrive(r, b, c) ==
    /\ pc[r] = "idle"
    /\ c \in ApiToken => c \in gone \/ \E p \in pats : p[1] = c
    /\ bearer' = [bearer EXCEPT ![r] = c]
    /\ \E s \in Sent(b) :
         /\ vouched' = [vouched EXCEPT ![r] = Vouched(s, c)]
         /\ IF s = None
            THEN /\ pc' = [pc EXCEPT ![r] = "guard"] /\ user' = [user EXCEPT ![r] = None]
                 /\ UNCHANGED <<cookie, clock>>
            ELSE /\ pc' = [pc EXCEPT ![r] = "resolve"] /\ UNCHANGED user
                 /\ cookie' = [cookie EXCEPT ![r] = s] /\ clock' = [clock EXCEPT ![r] = now]
    /\ UNCHANGED <<now, users, sessions, cookies, tokens, row, actor>>

\* Mutant: the deadline does not bound an extension.
Extended_Unbounded(r) == clock[r] + Lifetime
\* The expires_at an extension writes.
Extended(r) == Least(clock[r] + Lifetime, Deadline(cookie[r]))

\* resolve_session, its SELECT and what it decides.
Resolve(r) ==
    LET s == cookie[r] IN
    /\ pc[r] = "resolve"
    /\ IF owner[s] = None
       THEN Cache(r, None)
       ELSE /\ row' = [row EXCEPT ![r] = owner[s]] /\ UNCHANGED <<user, actor>>
            /\ Goto(r, IF expires[s] < clock[r] \/ clock[r] > Deadline(s) THEN "expire"
                       ELSE IF Extended(r) > expires[s] + Slack THEN "extend" ELSE "load")
    /\ UNCHANGED <<now, users, sessions, cookies, tokens>>

\* The DELETE of a row that was too old when it was read.
Expire(r) ==
    /\ pc[r] = "expire"
    /\ DropSessions({cookie[r]})
    /\ Cache(r, None)
    /\ UNCHANGED <<now, users, cookies, tokens>>

\* Mutant: an extension puts a row that is gone back.
Reach_Upsert(r) == /\ owner' = [owner EXCEPT ![cookie[r]] = row[r]]
                   /\ expires' = [expires EXCEPT ![cookie[r]] = Extended(r)]
\* The UPDATE of expires_at, of a row that is still there.
Reach(r) == /\ UNCHANGED owner
            /\ expires' = IF owner[cookie[r]] = None THEN expires
                          ELSE [expires EXCEPT ![cookie[r]] = Extended(r)]

Extend(r) ==
    /\ pc[r] = "extend"
    /\ Reach(r)
    /\ Goto(r, "load")
    /\ UNCHANGED <<now, users, born, used, cookies, tokens, row, user, actor>>

\* _load_user_by_id.
Load(r) ==
    /\ pc[r] = "load"
    /\ Cache(r, IF row[r] \in users THEN row[r] ELSE None)
    /\ UNCHANGED <<now, users, sessions, cookies, tokens>>
-----------------------------------------------------------------------------
\* The guard g that the handler calls: require_user_*, require_permission_* and
\* authenticate start from the user on the scope; without one the first two raise
\* a 401.  Only authenticate reads the Authorization header: what the others do
\* with one is what they do without.
CallGuard(r, g) ==
    /\ pc[r] = "guard"
    /\ bearer[r] # None => g = "authenticate"
    /\ IF user[r] # None
       THEN IF g = "permission" THEN Goto(r, "permit") /\ UNCHANGED <<row, user, actor>>
            ELSE Act(r, user[r])
       ELSE IF g = "authenticate" /\ bearer[r] # None
            THEN Goto(r, "bearer") /\ UNCHANGED <<row, user, actor>>
            ELSE Respond(r)
    /\ UNCHANGED <<now, users, sessions, cookies, tokens>>

\* has_permission of the user on the scope, which Roles models: yes, or a 403.
CheckPermission(r) ==
    /\ pc[r] = "permit"
    /\ Act(r, user[r]) \/ Respond(r)
    /\ UNCHANGED <<now, users, sessions, cookies, tokens>>

\* verify_access
Verified(c) == c \in jwts /\ now < c.exp

\* bearer_user: a JWT first, then a personal access token.
Bearer(r) ==
    /\ pc[r] = "bearer"
    /\ IF Verified(bearer[r])
       THEN Goto(r, "fetch") /\ row' = [row EXCEPT ![r] = bearer[r].sub] /\ UNCHANGED <<user, actor>>
       ELSE \/ /\ \A p \in pats : p[1] # bearer[r]
               /\ Respond(r)
            \/ \E p \in pats :
                 /\ p[1] = bearer[r]
                 /\ Goto(r, "fetch") /\ row' = [row EXCEPT ![r] = p[2]] /\ UNCHANGED <<user, actor>>
    /\ UNCHANGED <<now, users, sessions, cookies, tokens>>

\* Its get_user.  (A JWT of no user is then tried as a personal access token,
\* which it cannot be.)
Fetch(r) ==
    /\ pc[r] = "fetch"
    /\ IF row[r] \in users THEN Act(r, row[r]) ELSE Respond(r)
    /\ UNCHANGED <<now, users, sessions, cookies, tokens>>

\* The handler is done, or the request fails or is cancelled at any step.
End(r) ==
    /\ pc[r] # "idle"
    /\ Respond(r)
    /\ UNCHANGED <<now, users, sessions, cookies, tokens>>

Next ==
    \/ \E r \in Request :
         \/ \E b \in Browser, c \in jwts \cup ApiToken \cup {None} : Arrive(r, b, c)
         \/ Resolve(r) \/ Expire(r) \/ Extend(r) \/ Load(r)
         \/ \E g \in Guard : CallGuard(r, g)
         \/ CheckPermission(r) \/ Bearer(r) \/ Fetch(r) \/ End(r)
    \/ \E u \in User :
         \/ \E b \in Browser : Login(b, u) \/ Signup(b, u)
         \/ \E t \in ApiToken : CreateApiToken(t, u)
         \/ \E S \in SUBSET Session : Revoke(u, S)
         \/ IssueJwt(u) \/ DeleteUser(u)
    \/ \E b \in Browser : Logout(b)
    \/ \E p \in pats : RevokeApiToken(p)
    \/ Tick

Spec == Init /\ [][Next]_vars
-----------------------------------------------------------------------------
\* Variables have their types; a request that resolves a session carries its
\* cookie, and one that loads a user has its id.
TypeOK ==
    /\ now \in Time /\ users \subseteq User
    /\ owner \in [Session -> User \cup {None}] /\ born \in [Session -> Time]
    /\ expires \in [Session -> Nat] /\ used \subseteq Session
    /\ jar \in [Browser -> Session \cup {None}] /\ until \in [Browser -> Nat]
    /\ jwts \subseteq Jwt /\ pats \subseteq ApiToken \X User /\ gone \subseteq ApiToken \cup User
    /\ pc \in [Request -> {"idle", "resolve", "expire", "extend", "load", "guard", "permit",
                           "bearer", "fetch", "acting"}]
    /\ cookie \in [Request -> Session \cup {None}]
    /\ bearer \in [Request -> Jwt \cup ApiToken \cup {None}]
    /\ clock \in [Request -> Time] /\ row \in [Request -> User \cup {None}]
    /\ user \in [Request -> User \cup {None, Unset}] /\ actor \in [Request -> User \cup {None}]
    /\ vouched \in [Request -> SUBSET User]
    /\ \A r \in Request :
         /\ pc[r] \in {"resolve", "expire", "extend", "load"} => cookie[r] # None
         /\ pc[r] \in {"expire", "extend", "load", "fetch"} => row[r] # None
         /\ pc[r] = "permit" => user[r] \in User

\* A request acts only as a user that existed, and that a cookie or a token it
\* carries stood for, as it arrived: signing out, revoking, deleting the account
\* and the absolute cap hold against every request that comes later, whatever is
\* still in flight (resolve_session, bearer_user).
ActsOnlyAsVouched == \A r \in Request : pc[r] = "acting" => actor[r] \in vouched[r]

\* No order of extensions, one of them with an old clock, takes a session past
\* its absolute age ("Hard cap from creation", the session settings).
CapIsHard == \A s \in Session : owner[s] # None => expires[s] <= Deadline(s)

\* Stated, and broken by time: a session that requests keep extending lapses in
\* the browser, whose cookie is never set again ("sliding expiry (30 days)
\* under an absolute cap", README.md).
SlidingReachesBrowser ==
    \A b \in Browser : jar[b] # None /\ owner[jar[b]] # None /\ now <= expires[jar[b]]
                           => Carried(b) = jar[b]
=============================================================================
