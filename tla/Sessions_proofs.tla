----------------------------- MODULE Sessions_proofs -----------------------------
(***************************************************************************)
(* Proofs about Sessions, for any number of requests, users, sessions and  *)
(* tokens and any lifetimes.  What a request has read of its credentials   *)
(* stays true enough while it runs, because rows, tokens and users that    *)
(* are gone never come back: that is Forward, which every step satisfies.  *)
(***************************************************************************)
EXTENDS Sessions, TLAPS

\* What a row or a token refers to is there, and what was deleted is not used again.
Tables ==
    /\ \A s \in Session : owner[s] # None => owner[s] \in users /\ s \in used
    /\ \A b \in Browser : jar[b] # None => jar[b] \in used
    /\ \A j \in jwts : j.sub \in users \cup gone
    /\ \A p \in pats : p[2] \in users /\ p[1] \notin gone /\ \A q \in pats : q[1] = p[1] => q = p

\* A user the request may act as, or one who is gone for good.
Known(r, u) == u \in vouched[r] \/ u \in gone \ users

\* A credential that a request has still to read stands for nobody but users it
\* stood for when it arrived, and what the request has read is one of them.
CookieOK(r) ==
    LET s == cookie[r] IN
    pc[r] = "resolve" =>
        /\ s \in used
        /\ owner[s] # None /\ clock[r] <= Deadline(s) => owner[s] \in vouched[r]

BearerOK(r) ==
    LET c == bearer[r] IN
    /\ c \in jwts \cup ApiToken \cup {None}
    /\ c \in ApiToken => c \in gone \/ \E p \in pats : p[1] = c
    /\ c \in jwts /\ now < c.exp => Known(r, c.sub)
    /\ \A p \in pats : p[1] = c => p[2] \in vouched[r]

ReadOK(r) ==
    /\ pc[r] \in {"extend", "load"} => row[r] \in vouched[r]
    /\ pc[r] = "guard" => user[r] \in vouched[r] \cup {None}
    /\ pc[r] = "permit" => user[r] \in vouched[r]
    /\ pc[r] = "fetch" => Known(r, row[r])
    /\ pc[r] = "acting" => actor[r] \in vouched[r]

RequestOK(r) == CookieOK(r) /\ BearerOK(r) /\ ReadOK(r)

IInv ==
    /\ TypeOK
    /\ Tables
    /\ CapIsHard
    /\ \A r \in Request : RequestOK(r)

\* Time and the tables only move forward: a session row keeps its user and its
\* age or disappears, a token is issued once, a deleted user stays deleted.
Forward ==
    /\ used \subseteq used' /\ gone \subseteq gone' /\ jwts \subseteq jwts' /\ jwts' \subseteq Jwt
    /\ pats' \subseteq ApiToken \X User
    /\ now \in Nat /\ now' \in Nat /\ now <= now'
    /\ \A s \in used : owner'[s] # None => owner'[s] = owner[s] /\ born'[s] = born[s]
    /\ \A u \in users' : u \in users \/ u \notin gone
    /\ \A p \in pats' : p \in pats \/ (p[1] \notin gone /\ \A q \in pats : q[1] # p[1])
    /\ \A p \in pats : p \in pats' \/ p[1] \in gone'

\* The request stays where it is.
Still(r) ==
    /\ pc'[r] = pc[r] /\ cookie'[r] = cookie[r] /\ bearer'[r] = bearer[r] /\ clock'[r] = clock[r]
    /\ row'[r] = row[r] /\ user'[r] = user[r] /\ actor'[r] = actor[r] /\ vouched'[r] = vouched[r]

LEMMA Initially == Init => IInv
<1> SUFFICES ASSUME Init PROVE IInv
  OBVIOUS
<1>1. TypeOK
  <2>1. 0 \in Time /\ now \in Time
    BY SessionsAssumption DEF Init, Time
  <2>2. /\ owner \in [Session -> User \cup {None}] /\ born \in [Session -> Time]
        /\ expires \in [Session -> Nat] /\ jar \in [Browser -> Session \cup {None}]
        /\ until \in [Browser -> Nat]
    BY <2>1 DEF Init
  <2>3. /\ users \subseteq User /\ used \subseteq Session /\ jwts \subseteq Jwt
        /\ pats \subseteq ApiToken \X User /\ gone \subseteq ApiToken \cup User
    BY DEF Init
  <2>4. /\ pc \in [Request -> {"idle", "resolve", "expire", "extend", "load", "guard", "permit",
                               "bearer", "fetch", "acting"}]
        /\ cookie \in [Request -> Session \cup {None}]
        /\ bearer \in [Request -> Jwt \cup ApiToken \cup {None}]
        /\ clock \in [Request -> Time] /\ row \in [Request -> User \cup {None}]
        /\ user \in [Request -> User \cup {None, Unset}] /\ actor \in [Request -> User \cup {None}]
        /\ vouched \in [Request -> SUBSET User]
    BY <2>1 DEF Init
  <2>5. \A r \in Request : pc[r] = "idle"
    BY DEF Init
  <2> QED
    BY <2>1, <2>2, <2>3, <2>4, <2>5 DEF TypeOK
<1>2. Tables
  BY DEF Init, Tables
<1>3. CapIsHard
  BY DEF Init, CapIsHard
<1>4. \A r \in Request : RequestOK(r)
  BY SessionsAssumption DEF Init, RequestOK, CookieOK, BearerOK, ReadOK
<1> QED
  BY <1>1, <1>2, <1>3, <1>4 DEF IInv

\* What is said of a bearer token survives any step forward.
LEMMA BearerKept ==
    ASSUME NEW r \in Request, BearerOK(r), Forward, jwts \subseteq Jwt,
           bearer'[r] = bearer[r], vouched'[r] = vouched[r]
    PROVE  BearerOK(r)'
<1> DEFINE c == bearer[r]
<1>1. c \in jwts' \cup ApiToken \cup {None}
  BY DEF BearerOK, Forward
<1>2. c \in ApiToken => c \in gone' \/ \E p \in pats' : p[1] = c
  BY DEF BearerOK, Forward
<1>3. c \in jwts' => c \in jwts
  BY SessionsAssumption DEF BearerOK, Forward
<1>4. ASSUME c \in jwts', now' < c.exp PROVE Known(r, c.sub)'
  <2>1. c \in Jwt /\ now < c.exp
    BY <1>3, <1>4, SessionsAssumption DEF Forward, Jwt
  <2>2. Known(r, c.sub)
    BY <1>3, <1>4, <2>1 DEF BearerOK
  <2> QED
    BY <2>2 DEF Known, Forward
<1>5. ASSUME NEW p \in pats', p[1] = c PROVE p[2] \in vouched[r]
  <2>1. p \in pats
    <3>1. SUFFICES ASSUME p \notin pats PROVE FALSE
      OBVIOUS
    <3>2. p[1] \notin gone /\ \A q \in pats : q[1] # p[1]
      BY <3>1 DEF Forward
    <3>3. c \notin ApiToken
      BY <1>5, <3>2 DEF BearerOK
    <3> QED
      BY <1>5, <3>3 DEF Forward
  <2> QED
    BY <1>5, <2>1 DEF BearerOK
<1> QED
  BY <1>1, <1>2, <1>4, <1>5 DEF BearerOK

\* A request that stands still stays right.
LEMMA StillOK ==
    ASSUME NEW r \in Request, RequestOK(r), Still(r), Forward, TypeOK
    PROVE  RequestOK(r)'
<1>1. CookieOK(r)'
  <2>1. ASSUME pc[r] = "resolve", owner'[cookie[r]] # None, clock[r] <= born'[cookie[r]] + AbsoluteMax
        PROVE  owner'[cookie[r]] \in vouched[r]
    <3>1. cookie[r] \in used
      BY <2>1 DEF RequestOK, CookieOK
    <3>2. owner'[cookie[r]] = owner[cookie[r]] /\ born'[cookie[r]] = born[cookie[r]]
      BY <2>1, <3>1 DEF Forward
    <3> QED
      BY <2>1, <3>2 DEF RequestOK, CookieOK, Deadline
  <2>2. pc[r] = "resolve" => cookie[r] \in used'
    BY DEF RequestOK, CookieOK, Forward
  <2> QED
    BY <2>1, <2>2 DEF CookieOK, Still, Deadline
<1>2. BearerOK(r)'
  BY BearerKept DEF RequestOK, Still, TypeOK
<1>3. ReadOK(r)'
  BY DEF RequestOK, ReadOK, Still, Known, Forward
<1> QED
  BY <1>1, <1>2, <1>3 DEF RequestOK

\* A request whose response was sent carries nothing.
LEMMA IdleOK ==
    ASSUME NEW r \in Request, pc'[r] = "idle", bearer'[r] = None, TypeOK' PROVE RequestOK(r)'
<1>1. BearerOK(r)'
  BY SessionsAssumption DEF BearerOK, TypeOK
<1> QED
  BY <1>1 DEF RequestOK, CookieOK, ReadOK

\* A response leaves the types as they are, and so does a guard that returns a user.
LEMMA RespondTypes ==
    ASSUME TypeOK, NEW r \in Request, Respond(r), UNCHANGED <<now, users, sessions, cookies, tokens>>
    PROVE  TypeOK'
<1>1. 0 \in Time
  BY SessionsAssumption DEF Time
<1>2. /\ pc' \in [Request -> {"idle", "resolve", "expire", "extend", "load", "guard", "permit",
                            "bearer", "fetch", "acting"}]
      /\ cookie' \in [Request -> Session \cup {None}]
      /\ bearer' \in [Request -> Jwt \cup ApiToken \cup {None}]
      /\ clock' \in [Request -> Time] /\ row' \in [Request -> User \cup {None}]
      /\ user' \in [Request -> User \cup {None, Unset}] /\ actor' \in [Request -> User \cup {None}]
      /\ vouched' \in [Request -> SUBSET User]
  BY <1>1 DEF TypeOK, Respond
<1>3. \A q \in Request : pc'[q] = "idle" \/ ( /\ pc'[q] = pc[q] /\ cookie'[q] = cookie[q]
                                               /\ row'[q] = row[q] /\ user'[q] = user[q])
  BY DEF TypeOK, Respond
<1> QED
  BY <1>2, <1>3 DEF TypeOK, sessions, cookies, tokens

LEMMA ActTypes ==
    ASSUME TypeOK, NEW r \in Request, NEW u \in User, Act(r, u),
           UNCHANGED <<now, users, sessions, cookies, tokens>>
    PROVE  TypeOK'
BY SessionsAssumption DEF TypeOK, Act, Goto, sessions, cookies, tokens

\* Types are kept by every step.
LEMMA TypeStep == IInv /\ [Next]_vars => TypeOK'
<1> SUFFICES ASSUME TypeOK, \A r \in Request : RequestOK(r), [Next]_vars PROVE TypeOK'
  BY DEF IInv
<1> USE SessionsAssumption DEF TypeOK, Time, sessions, cookies, tokens, request
<1>1. ASSUME NEW b \in Browser, NEW u \in User, Login(b, u) PROVE TypeOK'
  BY <1>1 DEF Login, IssueSession
<1>2. ASSUME NEW b \in Browser, NEW u \in User, Signup(b, u) PROVE TypeOK'
  BY <1>2 DEF Signup, IssueSession
<1>3. ASSUME NEW u \in User, IssueJwt(u) PROVE TypeOK'
  BY <1>3 DEF IssueJwt, Jwt
<1>4. ASSUME NEW t \in ApiToken, NEW u \in User, CreateApiToken(t, u) PROVE TypeOK'
  BY <1>4 DEF CreateApiToken
<1>5. ASSUME NEW b \in Browser, Logout(b) PROVE TypeOK'
  BY <1>5 DEF Logout, DropSessions, Sent, Carried
<1>6. ASSUME NEW u \in User, NEW S \in SUBSET Session, Revoke(u, S) PROVE TypeOK'
  BY <1>6 DEF Revoke, DropSessions
<1>7. ASSUME NEW p \in pats, RevokeApiToken(p) PROVE TypeOK'
  BY <1>7 DEF RevokeApiToken
<1>8. ASSUME NEW u \in User, DeleteUser(u) PROVE TypeOK'
  BY <1>8 DEF DeleteUser, DropSessions
<1>9. ASSUME Tick PROVE TypeOK'
  BY <1>9 DEF Tick
<1>10. ASSUME NEW r \in Request, NEW b \in Browser, NEW c \in jwts \cup ApiToken \cup {None},
              Arrive(r, b, c)
      PROVE  TypeOK'
  BY <1>10 DEF Arrive, Sent, Carried, Vouched
<1>11. ASSUME NEW r \in Request, Resolve(r) PROVE TypeOK'
  BY <1>11 DEF Resolve, Cache, Goto
<1>12. ASSUME NEW r \in Request, Expire(r) PROVE TypeOK'
  BY <1>12 DEF Expire, DropSessions, Cache
<1>13. ASSUME NEW r \in Request, Extend(r) PROVE TypeOK'
  BY <1>13 DEF Extend, Reach, Extended, Least, Deadline, Goto
<1>14. ASSUME NEW r \in Request, Load(r) PROVE TypeOK'
  BY <1>14 DEF Load, Cache
<1>15. ASSUME NEW r \in Request, NEW g \in Guard, CallGuard(r, g) PROVE TypeOK'
  <2>1. user[r] \in User \cup {None}
    BY <1>15 DEF CallGuard, RequestOK, ReadOK
  <2>2. CASE Respond(r)
    BY <1>15, <2>2, RespondTypes DEF CallGuard
  <2>3. CASE user[r] # None /\ Act(r, user[r])
    BY <1>15, <2>1, <2>3, ActTypes DEF CallGuard
  <2>4. CASE Goto(r, "permit") /\ user[r] # None /\ UNCHANGED <<row, user, actor>>
    BY <1>15, <2>1, <2>4 DEF CallGuard, Goto
  <2>5. CASE Goto(r, "bearer") /\ UNCHANGED <<row, user, actor>>
    BY <1>15, <2>5 DEF CallGuard, Goto
  <2> QED
    BY <1>15, <2>2, <2>3, <2>4, <2>5 DEF CallGuard
<1>16. ASSUME NEW r \in Request, CheckPermission(r) PROVE TypeOK'
  <2>1. user[r] \in User
    BY <1>16 DEF CheckPermission
  <2> QED
    BY <1>16, <2>1, RespondTypes, ActTypes DEF CheckPermission
<1>17. ASSUME NEW r \in Request, Bearer(r) PROVE TypeOK'
  <2>1. CASE Respond(r)
    BY <1>17, <2>1, RespondTypes DEF Bearer
  <2>2. ASSUME NEW u \in User, Goto(r, "fetch"), row' = [row EXCEPT ![r] = u], UNCHANGED <<user, actor>>
        PROVE  TypeOK'
    BY <1>17, <2>2 DEF Bearer, Goto
  <2>3. Verified(bearer[r]) => bearer[r].sub \in User
    BY DEF Verified, Jwt
  <2>4. \A p \in pats : p[2] \in User
    OBVIOUS
  <2> QED
    BY <1>17, <2>1, <2>2, <2>3, <2>4 DEF Bearer
<1>18. ASSUME NEW r \in Request, Fetch(r) PROVE TypeOK'
  <2>1. row[r] \in users => row[r] \in User
    OBVIOUS
  <2> QED
    BY <1>18, <2>1, RespondTypes, ActTypes DEF Fetch
<1>19. ASSUME NEW r \in Request, End(r) PROVE TypeOK'
  BY <1>19, RespondTypes DEF End
<1>20. CASE UNCHANGED vars
  BY <1>20 DEF vars
<1> QED
  BY <1>1, <1>2, <1>3, <1>4, <1>5, <1>6, <1>7, <1>8, <1>9, <1>10, <1>11, <1>12, <1>13, <1>14, <1>15,
     <1>16, <1>17, <1>18, <1>19, <1>20 DEF Next

\* Every step goes forward.
LEMMA ForwardStep == IInv /\ [Next]_vars => Forward
<1> SUFFICES ASSUME TypeOK, TypeOK', Tables, [Next]_vars PROVE Forward
  BY TypeStep DEF IInv
<1>1. /\ now \in Nat /\ now' \in Nat /\ jwts' \subseteq Jwt /\ pats' \subseteq ApiToken \X User
      /\ users \subseteq User /\ used \subseteq Session /\ pats \subseteq ApiToken \X User
      /\ owner \in [Session -> User \cup {None}] /\ born \in [Session -> Time]
      /\ cookie \in [Request -> Session \cup {None}]
  BY SessionsAssumption DEF TypeOK, Time
<1> USE <1>1 DEF Forward, sessions, cookies, tokens, request
<1>2. ASSUME NEW b \in Browser, NEW u \in User, Login(b, u) PROVE Forward
  BY <1>2 DEF Login, IssueSession
<1>3. ASSUME NEW b \in Browser, NEW u \in User, Signup(b, u) PROVE Forward
  BY <1>3 DEF Signup, IssueSession
<1>4. ASSUME NEW u \in User, IssueJwt(u) PROVE Forward
  BY <1>4 DEF IssueJwt
<1>5. ASSUME NEW t \in ApiToken, NEW u \in User, CreateApiToken(t, u) PROVE Forward
  BY <1>5 DEF CreateApiToken
<1>6. ASSUME NEW b \in Browser, Logout(b) PROVE Forward
  BY <1>6 DEF Logout, DropSessions, Sent, Carried
<1>7. ASSUME NEW u \in User, NEW S \in SUBSET Session, Revoke(u, S) PROVE Forward
  BY <1>7 DEF Revoke, DropSessions
<1>8. ASSUME NEW p \in pats, RevokeApiToken(p) PROVE Forward
  BY <1>8 DEF RevokeApiToken
<1>9. ASSUME NEW u \in User, DeleteUser(u) PROVE Forward
  BY <1>9 DEF DeleteUser, DropSessions
<1>10. ASSUME Tick PROVE Forward
  BY <1>10 DEF Tick
<1>11. ASSUME NEW r \in Request, NEW b \in Browser, NEW c \in jwts \cup ApiToken \cup {None},
              Arrive(r, b, c)
      PROVE  Forward
  BY <1>11 DEF Arrive
<1>12. ASSUME NEW r \in Request, Expire(r) PROVE Forward
  BY <1>12 DEF Expire, DropSessions, Cache
<1>13. ASSUME NEW r \in Request, Extend(r) PROVE Forward
  BY <1>13 DEF Extend, Reach, Goto
<1>14. ASSUME NEW r \in Request,
              \/ Resolve(r) \/ Load(r) \/ \E g \in Guard : CallGuard(r, g)
              \/ CheckPermission(r) \/ Bearer(r) \/ Fetch(r) \/ End(r)
       PROVE  Forward
  BY <1>14 DEF Resolve, Load, CallGuard, CheckPermission, Bearer, Fetch, End
<1>15. CASE UNCHANGED vars
  BY <1>15 DEF vars
<1> QED
  BY <1>2, <1>3, <1>4, <1>5, <1>6, <1>7, <1>8, <1>9, <1>10, <1>11, <1>12, <1>13, <1>14, <1>15 DEF Next

\* The references stay good.
LEMMA TablesStep == IInv /\ [Next]_vars => Tables'
<1> SUFFICES ASSUME TypeOK, TypeOK', Tables, [Next]_vars PROVE Tables'
  BY TypeStep DEF IInv
<1>1. /\ jwts \subseteq Jwt /\ users \subseteq User /\ used \subseteq Session
      /\ pats \subseteq ApiToken \X User /\ jar \in [Browser -> Session \cup {None}]
      /\ owner \in [Session -> User \cup {None}] /\ cookie \in [Request -> Session \cup {None}]
  BY DEF TypeOK
<1> USE <1>1, SessionsAssumption DEF Tables, sessions, cookies, tokens, request
<1>2. ASSUME NEW b \in Browser, NEW u \in User, Login(b, u) PROVE Tables'
  BY <1>2 DEF Login, IssueSession
<1>3. ASSUME NEW b \in Browser, NEW u \in User, Signup(b, u) PROVE Tables'
  BY <1>3 DEF Signup, IssueSession
<1>4. ASSUME NEW u \in User, IssueJwt(u) PROVE Tables'
  BY <1>4 DEF IssueJwt
<1>5. ASSUME NEW t \in ApiToken, NEW u \in User, CreateApiToken(t, u) PROVE Tables'
  BY <1>5 DEF CreateApiToken
<1>6. ASSUME NEW b \in Browser, Logout(b) PROVE Tables'
  BY <1>6 DEF Logout, DropSessions, Sent, Carried
<1>7. ASSUME NEW u \in User, NEW S \in SUBSET Session, Revoke(u, S) PROVE Tables'
  BY <1>7 DEF Revoke, DropSessions
<1>8. ASSUME NEW p \in pats, RevokeApiToken(p) PROVE Tables'
  BY <1>8 DEF RevokeApiToken
<1>9. ASSUME NEW u \in User, DeleteUser(u) PROVE Tables'
  <2>1. \A q \in pats' : q \in pats /\ q[2] \in users' /\ q[1] \notin gone'
    BY <1>9 DEF DeleteUser
  <2> QED
    BY <1>9, <2>1 DEF DeleteUser, DropSessions
<1>10. ASSUME Tick PROVE Tables'
  BY <1>10 DEF Tick
<1>11. ASSUME NEW r \in Request, NEW b \in Browser, NEW c \in jwts \cup ApiToken \cup {None},
              Arrive(r, b, c)
      PROVE  Tables'
  BY <1>11 DEF Arrive
<1>12. ASSUME NEW r \in Request, Expire(r) PROVE Tables'
  BY <1>12 DEF Expire, DropSessions, Cache
<1>13. ASSUME NEW r \in Request, Extend(r) PROVE Tables'
  BY <1>13 DEF Extend, Reach, Goto
<1>14. ASSUME NEW r \in Request,
              \/ Resolve(r) \/ Load(r) \/ \E g \in Guard : CallGuard(r, g)
              \/ CheckPermission(r) \/ Bearer(r) \/ Fetch(r) \/ End(r)
       PROVE  Tables'
  BY <1>14 DEF Resolve, Load, CallGuard, CheckPermission, Bearer, Fetch, End
<1>15. CASE UNCHANGED vars
  BY <1>15 DEF vars
<1> QED
  BY <1>2, <1>3, <1>4, <1>5, <1>6, <1>7, <1>8, <1>9, <1>10, <1>11, <1>12, <1>13, <1>14, <1>15 DEF Next

\* The deadline bounds every write of expires_at.
LEMMA CapStep == IInv /\ [Next]_vars => CapIsHard'
<1> SUFFICES ASSUME TypeOK, CapIsHard, [Next]_vars PROVE CapIsHard'
  BY DEF IInv
<1>1. /\ owner \in [Session -> User \cup {None}] /\ born \in [Session -> Time]
      /\ expires \in [Session -> Nat] /\ now \in Nat /\ Lifetime \in Nat /\ AbsoluteMax \in Nat
      /\ Lifetime <= AbsoluteMax /\ used \subseteq Session
  BY SessionsAssumption DEF TypeOK, Time
<1> USE <1>1 DEF CapIsHard, Deadline, sessions, cookies, tokens, request
<1>2. ASSUME NEW b \in Browser, NEW u \in User, IssueSession(b, u) PROVE CapIsHard'
  BY <1>2, SessionsAssumption DEF IssueSession, Time
<1>3. ASSUME NEW S \in SUBSET Session, DropSessions(S) PROVE CapIsHard'
  BY <1>3 DEF DropSessions
<1>4. ASSUME NEW r \in Request, Extend(r) PROVE CapIsHard'
  <2>1. cookie[r] \in Session /\ clock[r] + Lifetime \in Nat /\ born[cookie[r]] + AbsoluteMax \in Nat
    BY <1>4, SessionsAssumption DEF Extend, TypeOK, Time
  <2>2. Extended(r) <= Deadline(cookie[r])
    BY <2>1 DEF Extended, Least
  <2> QED
    BY <1>4, <2>1, <2>2 DEF Extend, Reach
<1>5. ASSUME UNCHANGED sessions PROVE CapIsHard'
  BY <1>5
<1>6. ASSUME NEW r \in Request, Expire(r) PROVE cookie[r] \in Session /\ DropSessions({cookie[r]})
  BY <1>6 DEF Expire, TypeOK
<1>7. ASSUME NEW b \in Browser, Logout(b) PROVE \E S \in SUBSET Session : DropSessions(S)
  <2>1. Sent(b) \ {None} \subseteq Session
    BY <1>7, SessionsAssumption DEF Sent, Carried, TypeOK
  <2> QED
    BY <1>7, <2>1 DEF Logout
<1>8. ASSUME NEW r \in Request, NEW b \in Browser, NEW c \in jwts \cup ApiToken \cup {None},
              Arrive(r, b, c)
      PROVE  UNCHANGED sessions
  BY <1>8 DEF Arrive
<1>9. ASSUME NEW r \in Request,
              \/ Resolve(r) \/ Load(r) \/ \E g \in Guard : CallGuard(r, g)
              \/ CheckPermission(r) \/ Bearer(r) \/ Fetch(r) \/ End(r)
       PROVE  UNCHANGED sessions
  BY <1>9 DEF Resolve, Load, CallGuard, CheckPermission, Bearer, Fetch, End
<1>10. ASSUME NEW u \in User, DeleteUser(u) PROVE \E S \in SUBSET Session : DropSessions(S)
  BY <1>10 DEF DeleteUser
<1>11. ASSUME \/ \E u \in User : IssueJwt(u) \/ \E t \in ApiToken : CreateApiToken(t, u)
              \/ \E p \in pats : RevokeApiToken(p)
              \/ Tick \/ UNCHANGED vars
       PROVE  UNCHANGED sessions
  BY <1>11 DEF IssueJwt, CreateApiToken, RevokeApiToken, Tick, vars
<1> QED
  BY <1>2, <1>3, <1>4, <1>5, <1>6, <1>7, <1>8, <1>9, <1>10, <1>11 DEF Next, Login, Signup, Revoke

\* A request that arrives is vouched for by what it carries.
LEMMA ArriveStep ==
    ASSUME IInv, TypeOK', NEW r \in Request, NEW b \in Browser,
           NEW c \in jwts \cup ApiToken \cup {None}, Arrive(r, b, c)
    PROVE  RequestOK(r)'
<1>1. TypeOK /\ Tables
  BY DEF IInv
<1> PICK s \in Sent(b) :
        /\ vouched' = [vouched EXCEPT ![r] = Vouched(s, c)]
        /\ IF s = None
           THEN /\ pc' = [pc EXCEPT ![r] = "guard"] /\ user' = [user EXCEPT ![r] = None]
                /\ UNCHANGED <<cookie, clock>>
           ELSE /\ pc' = [pc EXCEPT ![r] = "resolve"] /\ UNCHANGED user
                /\ cookie' = [cookie EXCEPT ![r] = s] /\ clock' = [clock EXCEPT ![r] = now]
  BY DEF Arrive
<1>2. /\ vouched'[r] = Vouched(s, c) /\ bearer'[r] = c
      /\ UNCHANGED <<now, users, sessions, cookies, tokens>>
      /\ c \in ApiToken => c \in gone \/ \E p \in pats : p[1] = c
  <2>1. vouched \in [Request -> SUBSET User] /\ DOMAIN bearer = Request
    BY <1>1 DEF TypeOK
  <2> QED
    BY <2>1 DEF Arrive
<1>3. jwts \subseteq Jwt /\ users \subseteq User /\ pats \subseteq ApiToken \X User
  BY <1>1 DEF TypeOK
<1>4. BearerOK(r)'
  <2>1. ASSUME c \in jwts, now < c.exp PROVE Known(r, c.sub)'
    <3>1. c.sub \in User /\ c.sub \in users \cup gone
      BY <1>1, <1>3, <2>1 DEF Tables, Jwt
    <3>2. c.sub \in users => c.sub \in Vouched(s, c)
      BY <2>1, <3>1 DEF Vouched
    <3> QED
      BY <1>2, <3>1, <3>2 DEF Known, tokens
  <2>2. ASSUME NEW p \in pats, p[1] = c PROVE p[2] \in vouched'[r]
    BY <1>1, <1>2, <2>2 DEF Tables, Vouched
  <2> QED
    BY <1>2, <2>1, <2>2 DEF BearerOK, tokens
<1>5. CASE s = None
  BY <1>1, <1>4, <1>5 DEF Arrive, TypeOK, RequestOK, CookieOK, ReadOK
<1>6. CASE s # None
  <2>1. pc'[r] = "resolve" /\ cookie'[r] = s /\ clock'[r] = now
    BY <1>1, <1>6 DEF Arrive, TypeOK
  <2>2. s \in used /\ s \in Session
    BY <1>1, <1>6 DEF Sent, Carried, Tables, TypeOK
  <2>3. ASSUME owner[s] # None, now <= Deadline(s)
        PROVE  owner[s] \in Vouched(s, c)
    BY <1>1, <1>3, <2>2, <2>3 DEF Tables, Vouched
  <2>4. CookieOK(r)'
    BY <1>2, <2>1, <2>2, <2>3 DEF CookieOK, Deadline, sessions
  <2> QED
    BY <1>4, <2>1, <2>4 DEF RequestOK, ReadOK
<1> QED
  BY <1>5, <1>6

\* What a request reads later is of the same users.
LEMMA ReadStep ==
    ASSUME IInv, TypeOK', Forward, NEW r \in Request,
           \/ Resolve(r) \/ Expire(r) \/ Extend(r) \/ Load(r) \/ (\E g \in Guard : CallGuard(r, g))
           \/ CheckPermission(r) \/ Bearer(r) \/ Fetch(r) \/ End(r)
    PROVE  RequestOK(r)'
<1>1. TypeOK /\ RequestOK(r)
  BY DEF IInv
<1>2. CASE Respond(r)
  <2>1. pc'[r] = "idle" /\ bearer'[r] = None
    BY <1>1, <1>2 DEF Respond, TypeOK
  <2> QED
    BY <2>1, IdleOK
<1>3. ASSUME bearer' = bearer, vouched' = vouched PROVE BearerOK(r)'
  BY <1>1, <1>3, BearerKept DEF RequestOK, TypeOK
<1>4. ASSUME NEW u \in vouched[r] \cup {None}, Cache(r, u) PROVE RequestOK(r)'
  <2>1. pc'[r] = "guard" /\ user'[r] = u /\ bearer' = bearer /\ vouched' = vouched
    BY <1>1, <1>4 DEF Cache, TypeOK
  <2> QED
    BY <1>3, <2>1 DEF RequestOK, CookieOK, ReadOK
<1>5. ASSUME NEW u \in vouched[r], Act(r, u) PROVE RequestOK(r)'
  <2>1. pc'[r] = "acting" /\ actor'[r] = u /\ bearer' = bearer /\ vouched' = vouched
    BY <1>1, <1>5 DEF Act, Goto, TypeOK
  <2> QED
    BY <1>3, <2>1 DEF RequestOK, CookieOK, ReadOK
<1>6. CASE Resolve(r)
  <2>1. CASE owner[cookie[r]] = None
    BY <1>4, <1>6, <2>1 DEF Resolve
  <2>2. CASE owner[cookie[r]] # None
    <3>1. /\ row'[r] = owner[cookie[r]] /\ bearer' = bearer /\ vouched' = vouched
          /\ pc'[r] \in {"expire", "extend", "load"}
          /\ pc'[r] # "expire" => ~(clock[r] > Deadline(cookie[r]))
      <4>1. \E label \in {"expire", "extend", "load"} :
              Goto(r, label) /\ (label # "expire" => ~(clock[r] > Deadline(cookie[r])))
        <5>1. CASE expires[cookie[r]] < clock[r] \/ clock[r] > Deadline(cookie[r])
          BY <1>6, <2>2, <5>1 DEF Resolve
        <5>2. CASE ~(expires[cookie[r]] < clock[r] \/ clock[r] > Deadline(cookie[r]))
          <6>1. Goto(r, "extend") \/ Goto(r, "load")
            BY <1>6, <2>2, <5>2 DEF Resolve
          <6> QED
            BY <5>2, <6>1
        <5> QED
          BY <5>1, <5>2
      <4>2. row' = [row EXCEPT ![r] = owner[cookie[r]]]
        BY <1>6, <2>2 DEF Resolve
      <4> QED
        BY <1>1, <4>1, <4>2 DEF Goto, TypeOK
    <3>2. pc'[r] # "expire" => owner[cookie[r]] \in vouched[r]
      <4>1. clock[r] \in Nat /\ Deadline(cookie[r]) \in Nat
        BY <1>1, <1>6, SessionsAssumption DEF Resolve, TypeOK, Time, Deadline
      <4> QED
        BY <1>1, <1>6, <2>2, <3>1, <4>1 DEF Resolve, RequestOK, CookieOK
    <3> QED
      BY <1>3, <3>1, <3>2 DEF RequestOK, CookieOK, ReadOK
  <2> QED
    BY <2>1, <2>2
<1>7. CASE Expire(r)
  BY <1>4, <1>7 DEF Expire
<1>8. CASE Extend(r)
  <2>1. pc[r] = "extend" /\ pc'[r] = "load" /\ row' = row /\ bearer' = bearer /\ vouched' = vouched
    BY <1>1, <1>8 DEF Extend, Goto, TypeOK
  <2> QED
    BY <1>1, <1>3, <2>1 DEF RequestOK, CookieOK, ReadOK
<1>9. CASE Load(r)
  <2>1. row[r] \in vouched[r]
    BY <1>1, <1>9 DEF Load, RequestOK, ReadOK
  <2> QED
    BY <1>4, <1>9, <2>1 DEF Load
<1>10. CASE \E g \in Guard : CallGuard(r, g)
  <2>1. user[r] \in vouched[r] \cup {None}
    BY <1>1, <1>10 DEF CallGuard, RequestOK, ReadOK
  <2>2. ASSUME Goto(r, "permit"), user[r] # None, UNCHANGED <<row, user, actor>> PROVE RequestOK(r)'
    <3>1. pc'[r] = "permit" /\ bearer' = bearer /\ vouched' = vouched /\ user' = user
      BY <1>1, <2>2 DEF Goto, TypeOK
    <3> QED
      BY <1>3, <2>1, <2>2, <3>1 DEF RequestOK, CookieOK, ReadOK
  <2>3. ASSUME Goto(r, "bearer") PROVE RequestOK(r)'
    <3>1. pc'[r] = "bearer" /\ bearer' = bearer /\ vouched' = vouched
      BY <1>1, <2>3 DEF Goto, TypeOK
    <3> QED
      BY <1>3, <3>1 DEF RequestOK, CookieOK, ReadOK
  <2> QED
    BY <1>2, <1>5, <1>10, <2>1, <2>2, <2>3 DEF CallGuard
<1>11. CASE CheckPermission(r)
  BY <1>1, <1>2, <1>5, <1>11 DEF CheckPermission, RequestOK, ReadOK
<1>12. CASE Bearer(r)
  <2>1. ASSUME NEW u, Known(r, u), Goto(r, "fetch"), row' = [row EXCEPT ![r] = u],
               UNCHANGED <<users, tokens>>
        PROVE  RequestOK(r)'
    <3>1. pc'[r] = "fetch" /\ row'[r] = u /\ bearer' = bearer /\ vouched' = vouched
      BY <1>1, <2>1 DEF Goto, TypeOK
    <3>2. Known(r, u)'
      BY <2>1, <3>1 DEF Known, tokens
    <3> QED
      BY <1>3, <3>1, <3>2 DEF RequestOK, CookieOK, ReadOK
  <2>2. Verified(bearer[r]) => Known(r, bearer[r].sub)
    BY <1>1 DEF Verified, RequestOK, BearerOK
  <2>3. \A p \in pats : p[1] = bearer[r] => Known(r, p[2])
    BY <1>1 DEF RequestOK, BearerOK, Known
  <2> QED
    BY <1>2, <1>12, <2>1, <2>2, <2>3 DEF Bearer
<1>13. CASE Fetch(r)
  <2>1. row[r] \in users => row[r] \in vouched[r]
    BY <1>1, <1>13 DEF Fetch, RequestOK, ReadOK, Known
  <2> QED
    BY <1>2, <1>5, <1>13, <2>1 DEF Fetch
<1>14. CASE End(r)
  BY <1>2, <1>14 DEF End
<1> QED
  BY <1>6, <1>7, <1>8, <1>9, <1>10, <1>11, <1>12, <1>13, <1>14

\* What other requests, and everybody else, do leaves a request where it is.
LEMMA OthersStand ==
    ASSUME TypeOK, NEW r \in Request,
           \/ \E u \in User :
                \/ \E b \in Browser : Login(b, u) \/ Signup(b, u)
                \/ \E t \in ApiToken : CreateApiToken(t, u)
                \/ \E S \in SUBSET Session : Revoke(u, S)
                \/ IssueJwt(u) \/ DeleteUser(u)
           \/ \E b \in Browser : Logout(b)
           \/ \E p \in pats : RevokeApiToken(p)
           \/ Tick \/ UNCHANGED vars
    PROVE  Still(r)
BY DEF Login, Signup, CreateApiToken, Revoke, IssueJwt, DeleteUser, Logout, RevokeApiToken, Tick, vars,
       request, Still

LEMMA OthersRun ==
    ASSUME TypeOK, NEW r \in Request, NEW q \in Request \ {r},
           \/ \E b \in Browser, c \in jwts \cup ApiToken \cup {None} : Arrive(q, b, c)
           \/ Resolve(q) \/ Expire(q) \/ Extend(q) \/ Load(q) \/ (\E g \in Guard : CallGuard(q, g))
           \/ CheckPermission(q) \/ Bearer(q) \/ Fetch(q) \/ End(q)
    PROVE  Still(r)
<1>1. CASE \E b \in Browser, c \in jwts \cup ApiToken \cup {None} : Arrive(q, b, c)
  BY <1>1 DEF Arrive, Still, TypeOK
<1>2. CASE Resolve(q)
  BY <1>2 DEF Resolve, Cache, Goto, Still, TypeOK
<1>3. CASE Expire(q) \/ Load(q)
  BY <1>3 DEF Expire, Load, Cache, Still, TypeOK
<1>4. CASE Extend(q)
  BY <1>4 DEF Extend, Goto, Still, TypeOK
<1>5. CASE \E g \in Guard : CallGuard(q, g)
  BY <1>5 DEF CallGuard, Act, Respond, Goto, Still, TypeOK
<1>6. CASE CheckPermission(q) \/ Fetch(q) \/ End(q)
  BY <1>6 DEF CheckPermission, Fetch, End, Act, Respond, Goto, Still, TypeOK
<1>7. CASE Bearer(q)
  BY <1>7 DEF Bearer, Respond, Goto, Still, TypeOK
<1> QED
  BY <1>1, <1>2, <1>3, <1>4, <1>5, <1>6, <1>7

LEMMA RequestStep == IInv /\ [Next]_vars => \A r \in Request : RequestOK(r)'
<1> SUFFICES ASSUME IInv, [Next]_vars, NEW r \in Request PROVE RequestOK(r)'
  OBVIOUS
<1>1. TypeOK /\ TypeOK' /\ Forward /\ RequestOK(r)
  BY TypeStep, ForwardStep DEF IInv
<1>2. Still(r) => RequestOK(r)'
  BY <1>1, StillOK
<1> QED
  BY <1>1, <1>2, ArriveStep, ReadStep, OthersStand, OthersRun DEF Next

LEMMA StepKeepsInvariant == IInv /\ [Next]_vars => IInv'
BY TypeStep, TablesStep, CapStep, RequestStep DEF IInv

\* The inductive invariant holds in every reachable state.
THEOREM InvariantHolds == Spec => []IInv
BY Initially, StepKeepsInvariant, PTL DEF Spec

\* Variables keep their types.
THEOREM TypeCorrect == Spec => []TypeOK
<1>1. IInv => TypeOK
  BY DEF IInv
<1> QED
  BY <1>1, InvariantHolds, PTL

\* Whatever is revoked, deleted, issued or extended while a request runs, it acts
\* only as a user its credentials stood for when it arrived (resolve_session,
\* bearer_user).
THEOREM RequestsActAsVouched == Spec => []ActsOnlyAsVouched
<1>1. IInv => ActsOnlyAsVouched
  BY DEF IInv, RequestOK, ReadOK, ActsOnlyAsVouched
<1> QED
  BY <1>1, InvariantHolds, PTL

\* No order of extensions takes a session past its absolute age, whatever the
\* lifetimes (resolve_session).
THEOREM AgeIsBounded == Spec => []CapIsHard
<1>1. IInv => CapIsHard
  BY DEF IInv
<1> QED
  BY <1>1, InvariantHolds, PTL

\* Nothing comes back: a session row keeps its user and its creation time until it is
\* gone, a JWT or an API token is issued once, a deleted user stays deleted.  This is
\* why what a request has read of its credentials stays true enough while it runs.
THEOREM NothingComesBack == Spec => [][Forward]_vars
<1>1. IInv /\ [Next]_vars => [Forward]_vars
  BY ForwardStep
<1> QED
  BY <1>1, InvariantHolds, PTL DEF Spec
=============================================================================
