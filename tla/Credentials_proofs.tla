--------------------------- MODULE Credentials_proofs ---------------------------
(***************************************************************************)
(* Proofs about accounts: their passwords, sessions and single-use tokens, *)
(* for any number of users, concurrent calls, tokens and changes.          *)
(***************************************************************************)
EXTENDS Credentials, TLAPS

-----------------------------------------------------------------------------
(* Types. *)

LEMMA AccountInitially == Account!Init => Account!TypeOK
BY JwtRefreshAssumption, CredentialsAssumption DEF Account!Init, Account!TypeOK, Account!Purpose

\* The part of TypeOK about the calls, and that about the rest.
CallsTyped ==
    /\ accountPc \in [Request -> {"idle", "rehash", "bar", "open", "swap", "commit",
                                  "burn_reset", "burn_verify", "stamp"} \cup Account!Purpose]
    /\ who \in [Request -> User \cup {None}] /\ seen \in [Request -> Nat]
    /\ accountTok \in [Request -> Link \cup {None}]
    /\ batch \in [Request -> SUBSET (Session \cup Link)]
    /\ \A r \in Request :
         /\ (accountPc[r] = "idle") <=> (who[r] = None)
         /\ accountPc[r] \in {"burn_reset", "burn_verify", "stamp"} => accountTok[r] # None
         /\ accountPc[r] \in Account!Purpose => batch[r] \subseteq Link

SessionRow == [user : User, via : Nat \cup {None}]
LinkRow == [user : User, purpose : Account!Purpose, by : Request, claims : Seq(Account!Purpose)]

RowsTyped ==
    /\ stored \in [User -> Nat \cup {None, Gone}]
    /\ outdated \subseteq User /\ verified \subseteq User
    /\ session \in [Session -> SessionRow \cup {None}] /\ token \in [Link -> LinkRow \cup {None}]
    /\ usedTokens \subseteq Link
    /\ chosen \in [User -> Nat] /\ quiet \subseteq Request /\ final \in [User -> Nat]

LEMMA AccountTypes ==
    (Account!TypeOK <=> CallsTyped /\ RowsTyped) /\ (Account!TypeOK' <=> CallsTyped' /\ RowsTyped')
BY DEF Account!TypeOK, CallsTyped, RowsTyped, SessionRow, LinkRow

LEMMA ReturnTyped == ASSUME CallsTyped, NEW r \in Request, Account!Return(r) PROVE CallsTyped'
BY JwtRefreshAssumption DEF CallsTyped, Account!Return, Account!Purpose

LEMMA AccountTypeStep == Account!TypeOK /\ [Account!Next]_Account!vars => Account!TypeOK'
<1> SUFFICES ASSUME CallsTyped, RowsTyped, [Account!Next]_Account!vars
             PROVE  CallsTyped' /\ RowsTyped'
  BY AccountTypes
<1> USE JwtRefreshAssumption, CredentialsAssumption
    DEF CallsTyped, RowsTyped, Account!rows, Account!calls, Account!history, Account!Purpose, Account!Exists
<1>1. ASSUME NEW r \in Request, NEW u \in User, Account!SignUp(r, u) PROVE CallsTyped' /\ RowsTyped'
  BY <1>1 DEF Account!SignUp, Account!Call
<1>2. ASSUME NEW u \in User, Account!CreateExternalUser(u) PROVE CallsTyped' /\ RowsTyped'
  BY <1>2 DEF Account!CreateExternalUser
<1>3. ASSUME NEW r \in Request, NEW u \in User, Account!VerifyCredentials(r, u) PROVE CallsTyped' /\ RowsTyped'
  BY <1>3 DEF Account!VerifyCredentials, Account!Call, Account!Disturb
<1>4. ASSUME NEW r \in Request, Account!Rehash(r) PROVE CallsTyped' /\ RowsTyped'
  <2>1. RowsTyped'
    <3>1. who[r] \in User /\ seen[r] \in Nat
      BY <1>4 DEF Account!Rehash
    <3>2. stored' \in {stored, [stored EXCEPT ![who[r]] = seen[r]]} /\ outdated' \subseteq outdated
      BY <1>4 DEF Account!Rehash
    <3>3. stored' \in [User -> Nat \cup {None, Gone}]
      BY <3>1, <3>2
    <3> QED
      BY <1>4, <3>2, <3>3 DEF Account!Rehash
  <2>2. CallsTyped'
    <3>1. CASE Account!Return(r)
      BY <3>1, ReturnTyped
    <3>2. CASE Account!Goto(r, "open") /\ UNCHANGED <<who, seen, accountTok, batch>>
      BY <3>2 DEF Account!Goto
    <3> QED
      BY <1>4, <3>1, <3>2 DEF Account!Rehash
  <2> QED
    BY <2>1, <2>2
<1>5. ASSUME NEW r \in Request, Account!OpenSession(r) PROVE CallsTyped' /\ RowsTyped'
  <2>1. RowsTyped'
    <3>1. [user |-> who[r], via |-> seen[r]] \in SessionRow
      BY <1>5 DEF Account!OpenSession, SessionRow
    <3>2. \/ session' = session
          \/ \E s \in Session : session' = [session EXCEPT ![s] = [user |-> who[r], via |-> seen[r]]]
      BY <1>5 DEF Account!OpenSession, Account!InsertSession
    <3>3. session' \in [Session -> SessionRow \cup {None}]
      BY <3>1, <3>2
    <3> QED
      BY <1>5, <3>3 DEF Account!OpenSession
  <2>2. CallsTyped'
    BY <1>5, ReturnTyped DEF Account!OpenSession
  <2> QED
    BY <2>1, <2>2
<1>6. ASSUME NEW u \in User, Account!StartSession(u) PROVE CallsTyped' /\ RowsTyped'
  <2>1. [user |-> u, via |-> None] \in SessionRow
    BY <1>6 DEF SessionRow
  <2>2. PICK s \in Session : session' = [session EXCEPT ![s] = [user |-> u, via |-> None]]
    BY <1>6 DEF Account!StartSession, Account!InsertSession
  <2>3. session' \in [Session -> SessionRow \cup {None}]
    BY <2>1, <2>2
  <2> QED
    BY <1>6, <2>3 DEF Account!StartSession
<1>7. ASSUME NEW r \in Request, NEW u \in User, Account!ChangePassword(r, u) PROVE CallsTyped' /\ RowsTyped'
  BY <1>7 DEF Account!ChangePassword, Account!Call, Account!Disturb
<1>8. ASSUME NEW r \in Request, Account!SwapHash(r) PROVE CallsTyped' /\ RowsTyped'
  <2>1. RowsTyped'
    BY <1>8 DEF Account!SwapHash
  <2>2. CallsTyped'
    <3>1. CASE Account!Return(r)
      BY <3>1, ReturnTyped
    <3>2. CASE /\ Account!Goto(r, "commit") /\ UNCHANGED <<who, seen, accountTok>>
               /\ batch' = [batch EXCEPT ![r] = Account!Revoked(who[r])]
      BY <3>2 DEF Account!Goto, CallsTyped, Account!Revoked, Account!SessionsOf
    <3> QED
      BY <1>8, <3>1, <3>2 DEF Account!SwapHash
  <2> QED
    BY <2>1, <2>2
<1>9. ASSUME NEW r \in Request, Account!CommitHash(r) PROVE CallsTyped' /\ RowsTyped'
  <2>1. who[r] \in User
    BY <1>9 DEF Account!CommitHash
  <2>2. RowsTyped'
    BY <1>9, <2>1 DEF Account!CommitHash
  <2>3. CallsTyped'
    BY <1>9, ReturnTyped DEF Account!CommitHash
  <2> QED
    BY <2>2, <2>3
<1>10. ASSUME NEW r \in Request, NEW u \in User, Account!RequestPasswordReset(r, u) PROVE CallsTyped' /\ RowsTyped'
  BY <1>10 DEF Account!RequestPasswordReset, Account!Issue, Account!Call, Account!Earlier, Account!Live
<1>11. ASSUME NEW r \in Request, NEW u \in User, Account!RequestEmailVerification(r, u) PROVE CallsTyped' /\ RowsTyped'
  BY <1>11 DEF Account!RequestEmailVerification, Account!Issue, Account!Call, Account!Earlier, Account!Live
<1>12. ASSUME NEW r \in Request, Account!Mint(r) PROVE CallsTyped' /\ RowsTyped'
  <2>1. RowsTyped'
    <3>1. [user |-> who[r], purpose |-> accountPc[r], by |-> r, claims |-> <<>>] \in LinkRow
      BY <1>12 DEF Account!Mint, LinkRow
    <3>2. \E t \in Link : token' =
            [token EXCEPT ![t] = [user |-> who[r], purpose |-> accountPc[r], by |-> r, claims |-> <<>>]]
      BY <1>12 DEF Account!Mint
    <3>3. token' \in [Link -> LinkRow \cup {None}]
      BY <3>1, <3>2
    <3>4. usedTokens' \subseteq Link
      BY <1>12 DEF Account!Mint
    <3> QED
      BY <1>12, <3>3, <3>4 DEF Account!Mint
  <2>2. CallsTyped'
    BY <1>12, ReturnTyped DEF Account!Mint
  <2> QED
    BY <2>1, <2>2
<1>13. ASSUME NEW r \in Request, NEW t \in Link, Account!ResetPassword(r, t) PROVE CallsTyped' /\ RowsTyped'
  BY <1>13 DEF LinkRow, Account!ResetPassword, Account!Present, Account!Call, Account!Found
<1>14. ASSUME NEW r \in Request, NEW t \in Link, Account!ConfirmEmail(r, t) PROVE CallsTyped' /\ RowsTyped'
  BY <1>14 DEF LinkRow, Account!ConfirmEmail, Account!Present, Account!Call, Account!Found
<1>15. ASSUME NEW r \in Request, Account!Burn(r) PROVE CallsTyped' /\ RowsTyped'
  <2>1. RowsTyped'
    <3> DEFINE t == accountTok[r]
    <3>1. t \in Link
      BY <1>15 DEF Account!Burn
    <3>2. CASE Account!Unused(t)
      <4>1. PICK p \in Account!Purpose :
              token' = [token EXCEPT ![t].claims = Append(@, p)] /\ usedTokens' = usedTokens \cup {t}
        BY <1>15, <3>2 DEF Account!Burn
      <4>2. token[t] \in LinkRow
        BY <3>1, <3>2 DEF Account!Unused
      <4>3. [token[t] EXCEPT !.claims = Append(@, p)] \in LinkRow
        <5>1. token[t].claims \in Seq(Account!Purpose)
          BY <4>2 DEF LinkRow
        <5>2. Append(token[t].claims, p) \in Seq(Account!Purpose)
          BY <5>1
        <5> QED
          BY <4>2, <5>2 DEF LinkRow
      <4>4. token' = [token EXCEPT ![t] = [token[t] EXCEPT !.claims = Append(@, p)]]
        BY <3>1, <4>1
      <4>5. token' \in [Link -> LinkRow \cup {None}]
        BY <4>3, <4>4
      <4> QED
        BY <1>15, <3>1, <4>1, <4>5 DEF Account!Burn
    <3>3. CASE ~Account!Unused(t)
      BY <1>15, <3>3 DEF Account!Burn
    <3> QED
      BY <3>2, <3>3
  <2>2. CallsTyped'
    <3>1. CASE Account!Return(r)
      BY <3>1, ReturnTyped
    <3>2. CASE /\ accountPc' = [accountPc EXCEPT ![r] = IF accountPc[r] = "burn_reset" THEN "swap" ELSE "stamp"]
               /\ UNCHANGED <<who, seen, accountTok, batch>>
      BY <1>15, <3>2 DEF Account!Burn
    <3> QED
      BY <1>15, <3>1, <3>2 DEF Account!Burn, Account!Goto
  <2> QED
    BY <2>1, <2>2
<1>16. ASSUME NEW r \in Request, Account!MarkEmailVerified(r) PROVE CallsTyped' /\ RowsTyped'
  BY <1>16 DEF Account!MarkEmailVerified, Account!Return, Account!Exists
<1>17. ASSUME NEW s \in Session, Account!SignOut(s) PROVE CallsTyped' /\ RowsTyped'
  BY <1>17 DEF Account!SignOut, Account!Delete
<1>18. ASSUME NEW u \in User, NEW s \in Session, Account!RevokeSession(u, s) PROVE CallsTyped' /\ RowsTyped'
  BY <1>18 DEF Account!RevokeSession, Account!Delete, Account!SessionsOf
<1>19. ASSUME NEW u \in User, Account!RevokeAllSessions(u) PROVE CallsTyped' /\ RowsTyped'
  BY <1>19 DEF Account!RevokeAllSessions, Account!Delete, Account!SessionsOf
<1>20. CASE Account!SweepExpired
  BY <1>20 DEF Account!SweepExpired
<1>21. CASE Account!RaiseParameters
  BY <1>21 DEF Account!RaiseParameters
<1>22. ASSUME NEW r \in Request, Account!Abort(r) PROVE CallsTyped' /\ RowsTyped'
  BY <1>22 DEF Account!Abort, Account!Return
<1>23. ASSUME NEW u \in User, Account!DeleteAccount(u) PROVE CallsTyped' /\ RowsTyped'
  BY <1>23 DEF Account!DeleteAccount, Account!SessionsOf
<1>24. CASE UNCHANGED Account!vars
  BY <1>24 DEF Account!vars
<1> QED
  BY <1>1, <1>2, <1>3, <1>4, <1>5, <1>6, <1>7, <1>8, <1>9, <1>10, <1>11, <1>12, <1>13, <1>14,
     <1>15, <1>16, <1>17, <1>18, <1>19, <1>20, <1>21, <1>22, <1>23, <1>24
  DEF Account!Next, Account!Statement

-----------------------------------------------------------------------------
(* Single-use tokens. *)

\* What only issues and redemptions touch, of the tokens and the calls about them.
TokenFrame ==
    /\ UNCHANGED <<token, usedTokens>>
    /\ \A r \in Request :
         /\ accountPc'[r] \in Account!Purpose \cup {"burn_reset", "burn_verify"} =>
              /\ accountPc'[r] = accountPc[r] /\ who'[r] = who[r]
              /\ accountTok'[r] = accountTok[r] /\ batch'[r] = batch[r]

TokenStep ==
    \/ \E r \in Request, u \in User, p \in Account!Purpose : Account!Issue(r, u, p)
    \/ \E r \in Request : Account!Mint(r) \/ Account!Burn(r)
    \/ \E r \in Request, t \in Link : Account!ResetPassword(r, t) \/ Account!ConfirmEmail(r, t)
    \/ Account!SweepExpired

LEMMA TokenSteps == CallsTyped /\ [Account!Next]_Account!vars => TokenStep \/ TokenFrame
<1> SUFFICES ASSUME CallsTyped, ~TokenStep, [Account!Next]_Account!vars PROVE TokenFrame
  OBVIOUS
<1> USE DEF CallsTyped, TokenFrame, Account!rows, Account!calls, Account!history, Account!Purpose
<1>1. ASSUME NEW r \in Request, NEW u \in User, Account!SignUp(r, u) PROVE TokenFrame
  BY <1>1 DEF Account!SignUp, Account!Call
<1>2. ASSUME NEW u \in User, Account!CreateExternalUser(u) PROVE TokenFrame
  BY <1>2 DEF Account!CreateExternalUser
<1>3. ASSUME NEW r \in Request, NEW u \in User, Account!VerifyCredentials(r, u) PROVE TokenFrame
  BY <1>3 DEF Account!VerifyCredentials, Account!Call, Account!Disturb
<1>4. ASSUME NEW r \in Request, Account!Rehash(r) PROVE TokenFrame
  BY <1>4 DEF Account!Rehash, Account!Goto, Account!Return
<1>5. ASSUME NEW r \in Request, Account!OpenSession(r) PROVE TokenFrame
  BY <1>5 DEF Account!OpenSession, Account!InsertSession, Account!Return
<1>6. ASSUME NEW u \in User, Account!StartSession(u) PROVE TokenFrame
  BY <1>6 DEF Account!StartSession, Account!InsertSession
<1>7. ASSUME NEW r \in Request, NEW u \in User, Account!ChangePassword(r, u) PROVE TokenFrame
  BY <1>7 DEF Account!ChangePassword, Account!Call, Account!Disturb
<1>8. ASSUME NEW r \in Request, Account!SwapHash(r) PROVE TokenFrame
  BY <1>8 DEF Account!SwapHash, Account!Goto, Account!Return
<1>9. ASSUME NEW r \in Request, Account!CommitHash(r) PROVE TokenFrame
  BY <1>9 DEF Account!CommitHash, Account!Return
<1>10. ASSUME NEW r \in Request, Account!MarkEmailVerified(r) PROVE TokenFrame
  BY <1>10 DEF Account!MarkEmailVerified, Account!Return
<1>11. ASSUME NEW s \in Session, Account!SignOut(s) PROVE TokenFrame
  BY <1>11 DEF Account!SignOut, Account!Delete
<1>12. ASSUME NEW u \in User, NEW s \in Session, Account!RevokeSession(u, s) PROVE TokenFrame
  BY <1>12 DEF Account!RevokeSession, Account!Delete
<1>13. ASSUME NEW u \in User, Account!RevokeAllSessions(u) PROVE TokenFrame
  BY <1>13 DEF Account!RevokeAllSessions, Account!Delete
<1>14. CASE Account!RaiseParameters
  BY <1>14 DEF Account!RaiseParameters
<1>15. ASSUME NEW r \in Request, Account!Abort(r) PROVE TokenFrame
  BY <1>15 DEF Account!Abort, Account!Return
<1>16. ASSUME NEW u \in User, Account!DeleteAccount(u) PROVE TokenFrame
  BY <1>16 DEF Account!DeleteAccount
<1>17. CASE UNCHANGED Account!vars
  BY <1>17 DEF Account!vars
<1> QED
  BY <1>1, <1>2, <1>3, <1>4, <1>5, <1>6, <1>7, <1>8, <1>9, <1>10, <1>11, <1>12, <1>13, <1>14,
     <1>15, <1>16, <1>17
  DEF TokenStep, Account!Next, Account!Statement, Account!RequestPasswordReset,
      Account!RequestEmailVerification, Account!Purpose

\* A token that is not used was not redeemed, and is presented only for what it was
\* issued for.
RedeemInv ==
    /\ RedeemedOnce
    /\ \A t \in Link \ usedTokens : token[t] # None => token[t].claims = <<>>
    /\ \A r \in Request : LET t == accountTok[r] IN
         /\ accountPc[r] = "burn_reset" /\ token[t] # None => token[t].purpose = "password_reset"
         /\ accountPc[r] = "burn_verify" /\ token[t] # None => token[t].purpose = "email_verify"

LEMMA RedeemStep == CallsTyped /\ RowsTyped /\ RedeemInv /\ [Account!Next]_Account!vars => RedeemInv'
<1> SUFFICES ASSUME CallsTyped, RowsTyped, RedeemInv, TokenStep \/ TokenFrame PROVE RedeemInv'
  BY TokenSteps
<1> USE JwtRefreshAssumption, CredentialsAssumption
    DEF RedeemInv, RedeemedOnce, Account!RedeemedOnce, Account!rows, Account!history, Account!Purpose
<1>1. ASSUME NEW r \in Request, NEW u \in User, NEW p \in Account!Purpose, Account!Issue(r, u, p)
      PROVE  RedeemInv'
  BY <1>1 DEF Account!Issue, Account!Call, CallsTyped
<1>2. ASSUME NEW r \in Request, Account!Mint(r) PROVE RedeemInv'
  <2>1. PICK t \in Link :
          /\ token[t] = None /\ \A i \in Request : accountTok[i] # t
          /\ token' = [token EXCEPT ![t] = [user |-> who[r], purpose |-> accountPc[r], by |-> r, claims |-> <<>>]]
    BY <1>2 DEF Account!Mint
  <2>2. usedTokens \subseteq usedTokens'
    BY <1>2 DEF Account!Mint
  <2>3. \A q \in Request : accountPc'[q] \in {"burn_reset", "burn_verify"} =>
           q # r /\ accountPc'[q] = accountPc[q] /\ accountTok'[q] = accountTok[q] /\ accountTok[q] \in Link
    BY <1>2 DEF Account!Mint, Account!Return, CallsTyped
  <2> QED
    BY <2>1, <2>2, <2>3 DEF RowsTyped
<1>3. ASSUME NEW r \in Request, Account!Burn(r) PROVE RedeemInv'
  <2>1. accountTok[r] \in Link /\ accountPc[r] \in {"burn_reset", "burn_verify"}
    BY <1>3 DEF Account!Burn, CallsTyped
  <2>2. \A q \in Request : accountPc'[q] \in {"burn_reset", "burn_verify"} =>
           q # r /\ accountPc'[q] = accountPc[q] /\ accountTok'[q] = accountTok[q] /\ accountTok[q] \in Link
    BY <1>3 DEF Account!Burn, Account!Goto, Account!Return, CallsTyped
  <2>3. CASE ~Account!Unused(accountTok[r])
    <3>1. UNCHANGED <<token, usedTokens>>
      BY <1>3, <2>3 DEF Account!Burn
    <3> QED
      BY <2>2, <3>1, SMTT(30)
  <2>4. CASE Account!Unused(accountTok[r])
    <3> DEFINE t == accountTok[r]
    <3>1. token[t] \in LinkRow /\ token[t].claims = <<>>
      BY <2>1, <2>4 DEF Account!Unused, RowsTyped
    <3>2. /\ usedTokens' = usedTokens \cup {t}
          /\ token' = [token EXCEPT ![t] = [token[t] EXCEPT !.claims = Append(@, token[t].purpose)]]
      BY <1>3, <2>1, <2>4 DEF Account!Burn, Account!Unused, RowsTyped
    <3>3. token'[t].claims = <<token[t].purpose>> /\ token'[t].purpose = token[t].purpose
      BY <2>1, <3>1, <3>2 DEF RowsTyped, LinkRow
    <3>4. \A s \in Link \ {t} : token'[s] = token[s]
      BY <3>2 DEF RowsTyped
    <3>5. \A s \in Link : token'[s] # None => token[s] # None /\ token'[s].purpose = token[s].purpose
      BY <2>1, <2>4, <3>3, <3>4 DEF Account!Unused
    <3>6. RedeemedOnce'
      <4>1. \A s \in Link \ {t} : token'[s] # None => token'[s].claims \in {<<>>, <<token'[s].purpose>>}
        BY <3>4
      <4> QED
        BY <2>1, <3>3, <4>1
    <3>7. \A s \in Link \ usedTokens' : token'[s] # None => token'[s].claims = <<>>
      BY <3>2, <3>4
    <3>8. ASSUME NEW q \in Request
          PROVE  LET s == accountTok'[q] IN
                   /\ accountPc'[q] = "burn_reset" /\ token'[s] # None => token'[s].purpose = "password_reset"
                   /\ accountPc'[q] = "burn_verify" /\ token'[s] # None => token'[s].purpose = "email_verify"
      BY <2>2, <3>5
    <3> QED
      BY <3>6, <3>7, <3>8
  <2> QED
    BY <2>3, <2>4
<1>4. ASSUME NEW r \in Request, NEW t \in Link, Account!ResetPassword(r, t) \/ Account!ConfirmEmail(r, t)
      PROVE  RedeemInv'
  BY <1>4 DEF Account!ResetPassword, Account!ConfirmEmail, Account!Present, Account!Found, Account!Call,
              CallsTyped
<1>5. CASE Account!SweepExpired
  BY <1>5 DEF Account!SweepExpired, Account!calls, CallsTyped
<1>6. CASE TokenFrame
  BY <1>6 DEF TokenFrame
<1> QED
  BY <1>1, <1>2, <1>3, <1>4, <1>5, <1>6 DEF TokenStep

\* An issue that is under way burns every live token its caller issued before.
NewestInv ==
    /\ NewestLinkOnly
    /\ \A r \in Request : accountPc[r] \in Account!Purpose =>
         \A t \in Account!Live(who[r], accountPc[r]) : token[t].by = r => t \in batch[r]

LEMMA NewestStep == CallsTyped /\ RowsTyped /\ NewestInv /\ [Account!Next]_Account!vars => NewestInv'
<1> SUFFICES ASSUME CallsTyped, RowsTyped, NewestInv, TokenStep \/ TokenFrame PROVE NewestInv'
  BY TokenSteps
<1> USE JwtRefreshAssumption, CredentialsAssumption
    DEF NewestInv, NewestLinkOnly, Account!NewestLinkOnly, Account!Live, Account!rows, Account!history
<1>1. ASSUME NEW r \in Request, NEW u \in User, NEW p \in Account!Purpose, Account!Issue(r, u, p)
      PROVE  NewestInv'
  <2>1. /\ accountPc' = [accountPc EXCEPT ![r] = p] /\ who' = [who EXCEPT ![r] = u]
        /\ batch' = [batch EXCEPT ![r] = Account!Live(u, p)]
        /\ UNCHANGED <<token, usedTokens>>
    BY <1>1 DEF Account!Issue, Account!Call, Account!Earlier
  <2> QED
    BY <2>1 DEF CallsTyped
<1>2. ASSUME NEW r \in Request, Account!Mint(r) PROVE NewestInv'
  <2> DEFINE u == who[r]
             p == accountPc[r]
             new == [user |-> u, purpose |-> p, by |-> r, claims |-> <<>>]
  <2>1. PICK t \in Link : token[t] = None /\ token' = [token EXCEPT ![t] = new]
    BY <1>2 DEF Account!Mint
  <2>2. /\ usedTokens' = usedTokens \cup {s \in batch[r] : token[s] # None}
        /\ p \in Account!Purpose /\ u \in User
    BY <1>2 DEF Account!Mint, CallsTyped, Account!Purpose
  <2>3. \A q \in Request \ {r} : /\ accountPc'[q] = accountPc[q] /\ who'[q] = who[q]
                                 /\ batch'[q] = batch[q]
    BY <1>2 DEF Account!Mint, Account!Return, CallsTyped
  <2>4. accountPc'[r] = "idle"
    BY <1>2 DEF Account!Mint, Account!Return, CallsTyped
  <2>5. \A s \in Link \ {t} : token'[s] = token[s]
    BY <2>1 DEF RowsTyped
  <2>6. token'[t] = new
    BY <2>1 DEF RowsTyped
  <2>7. ASSUME NEW s \in Link, s # t, s \notin usedTokens', token'[s] # None
        PROVE  /\ s \notin usedTokens /\ s \notin batch[r] /\ token[s] = token'[s] /\ token[s] # None
    BY <2>2, <2>5, <2>7
  <2>8. ASSUME NEW s \in Link, s # t, s \notin usedTokens', token'[s] # None,
               token[s].user = u, token[s].purpose = p
        PROVE  token[s].by # r
    BY <2>2, <2>7, <2>8
  <2>9. NewestLinkOnly'
    <3> SUFFICES ASSUME NEW v \in User, NEW k \in Account!Purpose,
                        NEW x \in Link \ usedTokens', NEW y \in Link \ usedTokens',
                        token'[x] # None, token'[x].user = v, token'[x].purpose = k,
                        token'[y] # None, token'[y].user = v, token'[y].purpose = k,
                        token'[x].by = token'[y].by
                 PROVE  x = y
      OBVIOUS
    <3>1. CASE x # t /\ y # t
      BY <2>7, <3>1
    <3>2. CASE x = t /\ y # t
      BY <2>6, <2>7, <2>8, <3>2
    <3>3. CASE x # t /\ y = t
      BY <2>6, <2>7, <2>8, <3>3
    <3> QED
      BY <3>1, <3>2, <3>3
  <2>10. ASSUME NEW q \in Request, accountPc'[q] \in Account!Purpose,
                NEW s \in Link \ usedTokens', token'[s] # None, token'[s].user = who'[q],
                token'[s].purpose = accountPc'[q], token'[s].by = q
         PROVE  s \in batch'[q]
    <3>1. q # r /\ accountPc'[q] = accountPc[q] /\ who'[q] = who[q] /\ batch'[q] = batch[q]
      BY <2>3, <2>4, <2>10 DEF Account!Purpose
    <3>2. s # t
      BY <2>6, <2>10, <3>1
    <3> QED
      BY <2>7, <2>10, <3>1, <3>2
  <2> QED
    BY <2>9, <2>10
<1>3. ASSUME NEW r \in Request, Account!Burn(r) PROVE NewestInv'
  <2>1. \A q \in Request : accountPc'[q] \in Account!Purpose =>
           accountPc'[q] = accountPc[q] /\ who'[q] = who[q] /\ batch'[q] = batch[q]
    BY <1>3 DEF Account!Burn, Account!Goto, Account!Return, CallsTyped, Account!Purpose
  <2>2. usedTokens \subseteq usedTokens'
    BY <1>3 DEF Account!Burn
  <2>3. \A s \in Link \ usedTokens' : token'[s] = token[s]
    BY <1>3 DEF Account!Burn, RowsTyped
  <2> QED
    BY <2>1, <2>2, <2>3
<1>4. ASSUME NEW r \in Request, NEW t \in Link, Account!ResetPassword(r, t) \/ Account!ConfirmEmail(r, t)
      PROVE  NewestInv'
  BY <1>4 DEF Account!ResetPassword, Account!ConfirmEmail, Account!Present, Account!Found, Account!Call,
              CallsTyped, Account!Purpose
<1>5. CASE Account!SweepExpired
  BY <1>5 DEF Account!SweepExpired, Account!calls
<1>6. CASE TokenFrame
  BY <1>6 DEF TokenFrame
<1> QED
  BY <1>1, <1>2, <1>3, <1>4, <1>5, <1>6 DEF TokenStep

\* An issue that is under way burns links of its user and purpose only.
BatchInv ==
    \A r \in Request : accountPc[r] \in Account!Purpose =>
        \A t \in batch[r] : token[t] # None =>
            token[t].user = who[r] /\ token[t].purpose = accountPc[r]

LEMMA BatchStep == CallsTyped /\ RowsTyped /\ BatchInv /\ [Account!Next]_Account!vars => BatchInv'
<1> SUFFICES ASSUME CallsTyped, RowsTyped, BatchInv, TokenStep \/ TokenFrame PROVE BatchInv'
  BY TokenSteps
<1> USE JwtRefreshAssumption, CredentialsAssumption
    DEF BatchInv, Account!rows, Account!history
<1>1. ASSUME NEW r \in Request, NEW u \in User, NEW p \in Account!Purpose, Account!Issue(r, u, p)
      PROVE  BatchInv'
  BY <1>1 DEF Account!Issue, Account!Call, Account!Earlier, Account!Live, CallsTyped
<1>2. ASSUME NEW r \in Request, Account!Mint(r) PROVE BatchInv'
  <2>1. PICK t \in Link :
          /\ \A i \in Request : t \notin batch[i]
          /\ token' = [token EXCEPT ![t] = [user |-> who[r], purpose |-> accountPc[r], by |-> r, claims |-> <<>>]]
    BY <1>2 DEF Account!Mint
  <2>2. \A s \in Link \ {t} : token'[s] = token[s]
    BY <2>1 DEF RowsTyped
  <2>3. \A q \in Request : accountPc'[q] \in Account!Purpose =>
          /\ accountPc'[q] = accountPc[q] /\ who'[q] = who[q] /\ batch'[q] = batch[q]
          /\ batch[q] \subseteq Link
    BY <1>2 DEF Account!Mint, Account!Return, CallsTyped, Account!Purpose
  <2> QED
    BY <2>1, <2>2, <2>3
<1>3. ASSUME NEW r \in Request, Account!Burn(r) PROVE BatchInv'
  <2>1. \A q \in Request : accountPc'[q] \in Account!Purpose =>
          /\ accountPc'[q] = accountPc[q] /\ who'[q] = who[q] /\ batch'[q] = batch[q]
          /\ batch[q] \subseteq Link
    BY <1>3 DEF Account!Burn, Account!Goto, Account!Return, CallsTyped, Account!Purpose
  <2>2. ASSUME NEW t \in Link, token'[t] # None
        PROVE  token[t] # None /\ token'[t].user = token[t].user /\ token'[t].purpose = token[t].purpose
    <3>1. CASE ~Account!Unused(accountTok[r])
      BY <1>3, <2>2, <3>1 DEF Account!Burn
    <3>2. CASE Account!Unused(accountTok[r])
      <4>1. PICK s \in Link : s = accountTok[r] /\ token[s] # None
        BY <1>3, <3>2 DEF Account!Burn, Account!Unused, CallsTyped
      <4>2. PICK c : token' = [token EXCEPT ![s] = [token[s] EXCEPT !.claims = c]]
        BY <1>3, <3>2, <4>1 DEF Account!Burn
      <4>3. token[s] \in LinkRow
        BY <4>1 DEF RowsTyped
      <4>4. token'[s].user = token[s].user /\ token'[s].purpose = token[s].purpose
        BY <4>2, <4>3 DEF RowsTyped, LinkRow
      <4> QED
        BY <2>2, <4>1, <4>2, <4>4 DEF RowsTyped
    <3> QED
      BY <3>1, <3>2
  <2> QED
    BY <2>1, <2>2
<1>4. ASSUME NEW r \in Request, NEW t \in Link, Account!ResetPassword(r, t) \/ Account!ConfirmEmail(r, t)
      PROVE  BatchInv'
  BY <1>4 DEF Account!ResetPassword, Account!ConfirmEmail, Account!Present, Account!Call,
              CallsTyped, Account!Purpose
<1>5. CASE Account!SweepExpired
  BY <1>5 DEF Account!SweepExpired, Account!calls, CallsTyped
<1>6. CASE TokenFrame
  BY <1>6 DEF TokenFrame
<1> QED
  BY <1>1, <1>2, <1>3, <1>4, <1>5, <1>6 DEF TokenStep

\* What SingleUseLinks sees of the tokens.
LinkRows == [t \in Link |-> Account!LinkRow(t)]
Redeemed == [t \in Link |-> IF token[t] = None THEN <<>> ELSE token[t].claims]

\* A token has a row there when it has one here, of the same user, purpose and issuer.
LEMMA RowsSeen ==
    ASSUME RowsTyped, NEW s \in Link
    PROVE  /\ LinkRows[s] # None <=> token[s] # None
           /\ token[s] # None => /\ LinkRows[s].user = token[s].user /\ LinkRows[s].by = token[s].by
                                 /\ LinkRows[s].purpose = token[s].purpose
<1>1. CASE token[s] = None
  BY <1>1 DEF LinkRows, Account!LinkRow
<1>2. CASE token[s] # None
  <2>1. token[s].user \in User /\ token[s].purpose \in Account!Purpose /\ token[s].by \in Request
    BY <1>2 DEF RowsTyped, LinkRow
  <2>2. LinkRows[s] = [user |-> token[s].user, purpose |-> token[s].purpose, by |-> token[s].by]
    BY <1>2 DEF LinkRows, Account!LinkRow
  <2>3. LinkRows[s] # None
    BY <2>1, <2>2, RowsAssumption
  <2> QED
    BY <1>2, <2>2, <2>3
<1> QED
  BY <1>1, <1>2

\* A step that leaves the tokens alone is a stutter of SingleUseLinks.
LEMMA LinksStutter ==
    UNCHANGED <<token, usedTokens>> => UNCHANGED Account!Links!vars
BY DEF Account!Links!vars, Account!LinkRow

\* The commit of an issue is one Issue: what it burns are links of its user and
\* purpose, among them all that its caller had before.
LEMMA MintIssues ==
    ASSUME CallsTyped, RowsTyped, NewestInv, BatchInv, NEW r \in Request, Account!Mint(r)
    PROVE  Account!Links!Next
<1>1. PICK t \in Link :
        /\ token[t] = None
        /\ token' = [token EXCEPT ![t] = [user |-> who[r], purpose |-> accountPc[r], by |-> r, claims |-> <<>>]]
  BY DEF Account!Mint
<1>2. PICK u \in User, p \in Account!Purpose : u = who[r] /\ p = accountPc[r]
  BY DEF Account!Mint, CallsTyped, Account!Purpose
<1>3. PICK burnt \in SUBSET Link : burnt = {s \in batch[r] : token[s] # None}
  BY <1>2 DEF CallsTyped
<1>4. usedTokens' = usedTokens \cup burnt
  BY <1>3 DEF Account!Mint
<1>5. \A s \in Link : /\ LinkRows[s] # None <=> token[s] # None
                      /\ token[s] # None => /\ LinkRows[s].user = token[s].user /\ LinkRows[s].by = token[s].by
                                            /\ LinkRows[s].purpose = token[s].purpose
  BY RowsSeen
<1>6. burnt \subseteq Account!Links!Links(u, p)
  BY <1>2, <1>3, <1>5 DEF BatchInv, Account!Links!Links, LinkRows
<1>7. ASSUME NEW s \in Account!Links!Links(u, p), LinkRows[s].by = r PROVE s \in usedTokens \cup burnt
  BY <1>2, <1>3, <1>5, <1>7 DEF NewestInv, Account!Live, Account!Links!Links, LinkRows
<1>8. LinkRows' = [LinkRows EXCEPT ![t] = [user |-> u, purpose |-> p, by |-> r]]
  <2>1. \A s \in Link \ {t} : token'[s] = token[s]
    BY <1>1 DEF RowsTyped
  <2>2. token'[t] = [user |-> u, purpose |-> p, by |-> r, claims |-> <<>>]
    BY <1>1, <1>2 DEF RowsTyped
  <2>3. <<>> \in Seq(Account!Purpose)
    OBVIOUS
  <2>4. token'[t] # None
    <3>1. token'[t] \in LinkRow
      BY <2>2, <2>3 DEF LinkRow
    <3>2. None \notin LinkRow
      BY RowsAssumption DEF LinkRow
    <3> QED
      BY <3>1, <3>2
  <2>5. LinkRows'[t] = [user |-> u, purpose |-> p, by |-> r]
    BY <2>2, <2>4 DEF LinkRows, Account!LinkRow
  <2> QED
    BY <2>1, <2>5 DEF LinkRows, Account!LinkRow
<1>9. Redeemed' = Redeemed
  BY <1>1 DEF Redeemed, RowsTyped
<1>10. Account!Links!Issue(r, u, p)
  BY <1>1, <1>4, <1>5, <1>6, <1>7, <1>8, <1>9 DEF Account!Links!Issue, LinkRows, Redeemed
<1> QED
  BY <1>10 DEF Account!Links!Next

\* The commit of a redemption is one Redeem, or finds the token used or gone.
LEMMA BurnRedeems ==
    ASSUME CallsTyped, RowsTyped, RedeemInv, NEW r \in Request, Account!Burn(r)
    PROVE  [Account!Links!Next]_Account!Links!vars
<1>1. CASE ~Account!Unused(accountTok[r])
  BY <1>1, LinksStutter DEF Account!Burn
<1>2. CASE Account!Unused(accountTok[r])
  <2>1. PICK t \in Link : t = accountTok[r]
    BY DEF Account!Burn, CallsTyped
  <2>2. token[t] \in LinkRow /\ token[t].claims = <<>> /\ t \notin usedTokens /\ token[t] # None
    BY <1>2, <2>1 DEF Account!Unused, RowsTyped, RedeemInv
  <2>3. /\ usedTokens' = usedTokens \cup {t}
        /\ token' = [token EXCEPT ![t] = [token[t] EXCEPT !.claims = Append(@, token[t].purpose)]]
    BY <1>2, <2>1 DEF Account!Burn, Account!Unused, RowsTyped, RedeemInv, Account!Purpose
  <2>4. /\ token'[t].user = token[t].user /\ token'[t].purpose = token[t].purpose
        /\ token'[t].by = token[t].by /\ token'[t].claims = <<token[t].purpose>> /\ token'[t] # None
    <3>1. PICK row \in LinkRow : row = token[t] /\ row.claims = <<>>
      BY <2>2
    <3>2. token'[t] = [row EXCEPT !.claims = <<row.purpose>>]
      BY <2>3, <3>1 DEF RowsTyped
    <3>3. <<row.purpose>> \in Seq(Account!Purpose)
      BY DEF LinkRow
    <3>4. token'[t] \in LinkRow
      BY <3>2, <3>3 DEF LinkRow
    <3>5. None \notin LinkRow
      BY RowsAssumption DEF LinkRow
    <3>6. token'[t] # None
      BY <3>4, <3>5
    <3> QED
      BY <3>1, <3>2, <3>6 DEF LinkRow
  <2>5. \A s \in Link \ {t} : token'[s] = token[s]
    BY <2>3 DEF RowsTyped
  <2>6. LinkRows' = LinkRows
    BY <2>2, <2>4, <2>5 DEF LinkRows, Account!LinkRow
  <2>7. LinkRows[t] # None /\ LinkRows[t].purpose = token[t].purpose
    BY <2>2, RowsSeen
  <2>8. Redeemed' = [Redeemed EXCEPT ![t] = <<LinkRows[t].purpose>>]
    BY <2>2, <2>4, <2>5, <2>7 DEF Redeemed
  <2>9. Account!Links!Redeem(t)
    BY <2>2, <2>3, <2>6, <2>7, <2>8 DEF Account!Links!Redeem, LinkRows, Redeemed
  <2> QED
    BY <2>9 DEF Account!Links!Next
<1> QED
  BY <1>1, <1>2

\* Every step of the accounts is one of SingleUseLinks, or leaves the links alone.
LEMMA LinksStep ==
    ASSUME CallsTyped, RowsTyped, RedeemInv, NewestInv, BatchInv, [Account!Next]_Account!vars
    PROVE  [Account!Links!Next]_Account!Links!vars
<1>1. TokenStep \/ TokenFrame
  BY TokenSteps
<1>2. ASSUME NEW r \in Request, NEW u \in User, NEW p \in Account!Purpose, Account!Issue(r, u, p)
      PROVE  UNCHANGED Account!Links!vars
  BY <1>2, LinksStutter DEF Account!Issue, Account!rows
<1>3. ASSUME NEW r \in Request, NEW t \in Link, Account!ResetPassword(r, t) \/ Account!ConfirmEmail(r, t)
      PROVE  UNCHANGED Account!Links!vars
  BY <1>3, LinksStutter DEF Account!ResetPassword, Account!ConfirmEmail, Account!Present, Account!rows
<1>4. CASE Account!SweepExpired
  <2>1. PICK old \in SUBSET Link :
          /\ token' = [t \in Link |-> IF t \in old THEN None ELSE token[t]]
          /\ usedTokens' = usedTokens \ old
    BY <1>4 DEF Account!SweepExpired
  <2>2. LinkRows' = [t \in Link |-> IF t \in old THEN None ELSE LinkRows[t]]
    BY <2>1 DEF LinkRows, Account!LinkRow
  <2>3. Redeemed' = [t \in Link |-> IF t \in old THEN <<>> ELSE Redeemed[t]]
    BY <2>1 DEF Redeemed
  <2>4. Account!Links!Sweep(old)
    BY <2>1, <2>2, <2>3 DEF Account!Links!Sweep, LinkRows, Redeemed
  <2> QED
    BY <2>4 DEF Account!Links!Next
<1>5. CASE TokenFrame
  BY <1>5, LinksStutter DEF TokenFrame
<1> QED
  BY <1>1, <1>2, <1>3, <1>4, <1>5, MintIssues, BurnRedeems DEF TokenStep

LEMMA LinksInitially == Account!Init => Account!Links!Init
BY DEF Account!Init, Account!Links!Init, Account!LinkRow

-----------------------------------------------------------------------------
(* Passwords and sessions. *)

\* Passwords are numbered in the order of their choice, and the last one set while
\* nobody was signing in is among those chosen.
ChosenInv ==
    \A u \in User : /\ final[u] <= chosen[u]
                    /\ stored[u] = None => final[u] = 0

\* A change takes the row's lock, which keeps others out and the row there.
LockInv ==
    /\ \A r \in Request : accountPc[r] = "commit" => Account!Exists(who[r])
    /\ \A q, r \in Request :
         accountPc[q] = "commit" /\ accountPc[r] = "commit" /\ who[q] = who[r] => q = r
    /\ \A r \in Request : accountPc[r] \in {"idle", "rehash", "bar", "open"} => accountTok[r] = None

\* A change is quiet as long as no sign-in or change that began before or beside it
\* still holds what it read; its DELETE matched every session a password opened.
\* A call that signs in holds a password no older than the last one set quietly.
FinalInv ==
    /\ ChangeIsFinal
    /\ \A r \in quiet :
         /\ accountPc[r] = "commit" /\ Account!Verifying(who[r]) = {}
         /\ \A s \in Account!SessionsOf(who[r]) : session[s].via # None => s \in batch[r]
    /\ \A r \in Request : accountPc[r] \in {"rehash", "bar", "open"} => seen[r] >= final[who[r]]

PasswordInv == ChosenInv /\ LockInv /\ FinalInv

\* A redemption that wins goes on with its token; one that loses returns.
LEMMA BurnFrame ==
    ASSUME CallsTyped, NEW r \in Request, Account!Burn(r)
    PROVE  /\ UNCHANGED <<stored, session, chosen, quiet, final>>
           /\ accountPc[r] \in {"burn_reset", "burn_verify"}
           /\ \/ accountPc'[r] = "idle" /\ accountTok'[r] = None
              \/ accountPc'[r] \in {"swap", "stamp"} /\ accountTok'[r] # None
           /\ \A q \in Request \ {r} : /\ accountPc'[q] = accountPc[q] /\ who'[q] = who[q]
                                       /\ seen'[q] = seen[q] /\ accountTok'[q] = accountTok[q]
                                       /\ batch'[q] = batch[q]
<1>1. /\ UNCHANGED <<stored, session, chosen, quiet, final>>
      /\ accountPc[r] \in {"burn_reset", "burn_verify"}
      /\ \/ Account!Return(r)
         \/ /\ accountPc' = [accountPc EXCEPT ![r] = IF accountPc[r] = "burn_reset" THEN "swap" ELSE "stamp"]
            /\ UNCHANGED <<who, seen, accountTok, batch>>
  BY DEF Account!Burn, Account!Goto, Account!history
<1>2. CASE Account!Return(r)
  BY <1>1, <1>2 DEF Account!Return, CallsTyped
<1>3. CASE /\ accountPc' = [accountPc EXCEPT ![r] = IF accountPc[r] = "burn_reset" THEN "swap" ELSE "stamp"]
           /\ UNCHANGED <<who, seen, accountTok, batch>>
  BY <1>1, <1>3 DEF CallsTyped
<1> QED
  BY <1>1, <1>2, <1>3

LEMMA ChosenStep ==
    CallsTyped /\ RowsTyped /\ LockInv /\ ChosenInv /\ [Account!Next]_Account!vars => ChosenInv'
<1> SUFFICES ASSUME CallsTyped, RowsTyped, LockInv, ChosenInv, [Account!Next]_Account!vars PROVE ChosenInv'
  OBVIOUS
<1> USE JwtRefreshAssumption, CredentialsAssumption
    DEF CallsTyped, RowsTyped, ChosenInv, Account!rows, Account!calls, Account!history, Account!Exists
<1>1. ASSUME NEW r \in Request, NEW u \in User, Account!SignUp(r, u) PROVE ChosenInv'
  BY <1>1 DEF Account!SignUp, Account!Call
<1>2. ASSUME NEW u \in User, Account!CreateExternalUser(u) PROVE ChosenInv'
  BY <1>2 DEF Account!CreateExternalUser
<1>3. ASSUME NEW r \in Request, NEW u \in User, Account!VerifyCredentials(r, u) PROVE ChosenInv'
  BY <1>3 DEF Account!VerifyCredentials, Account!Call, Account!Disturb, Account!Changing
<1>4. ASSUME NEW r \in Request, Account!Rehash(r) PROVE ChosenInv'
  BY <1>4 DEF Account!Rehash, Account!Goto, Account!Return, Account!Changing
<1>5. ASSUME NEW r \in Request, Account!OpenSession(r) PROVE ChosenInv'
  BY <1>5 DEF Account!OpenSession, Account!InsertSession, Account!Return
<1>6. ASSUME NEW u \in User, Account!StartSession(u) PROVE ChosenInv'
  BY <1>6 DEF Account!StartSession, Account!InsertSession
<1>7. ASSUME NEW r \in Request, NEW u \in User, Account!ChangePassword(r, u) PROVE ChosenInv'
  BY <1>7 DEF Account!ChangePassword, Account!Call, Account!Disturb, Account!Changing
<1>8. ASSUME NEW r \in Request, Account!SwapHash(r) PROVE ChosenInv'
  BY <1>8, SMTT(30) DEF Account!SwapHash, Account!Goto, Account!Return, Account!Revoked, Account!Changing
<1>9. ASSUME NEW r \in Request, Account!CommitHash(r) PROVE ChosenInv'
  BY <1>9 DEF Account!CommitHash, Account!Return
<1>10. ASSUME NEW r \in Request, NEW u \in User, NEW p \in Account!Purpose, Account!Issue(r, u, p) PROVE ChosenInv'
  BY <1>10 DEF Account!Issue, Account!Call
<1>11. ASSUME NEW r \in Request, Account!Mint(r) PROVE ChosenInv'
  BY <1>11 DEF Account!Mint, Account!Return
<1>12. ASSUME NEW r \in Request, NEW t \in Link, Account!ResetPassword(r, t) PROVE ChosenInv'
  BY <1>12 DEF Account!ResetPassword, Account!Present, Account!Call
<1>13. ASSUME NEW r \in Request, NEW t \in Link, Account!ConfirmEmail(r, t) PROVE ChosenInv'
  BY <1>13 DEF Account!ConfirmEmail, Account!Present, Account!Call
<1>14. ASSUME NEW r \in Request, Account!Burn(r) PROVE ChosenInv'
  BY <1>14 DEF Account!Burn, Account!Goto, Account!Return
<1>15. ASSUME NEW r \in Request, Account!MarkEmailVerified(r) PROVE ChosenInv'
  BY <1>15 DEF Account!MarkEmailVerified, Account!Return
<1>16. ASSUME NEW s \in Session, Account!SignOut(s) PROVE ChosenInv'
  BY <1>16 DEF Account!SignOut, Account!Delete
<1>17. ASSUME NEW u \in User, NEW s \in Session, Account!RevokeSession(u, s) PROVE ChosenInv'
  BY <1>17 DEF Account!RevokeSession, Account!Delete
<1>18. ASSUME NEW u \in User, Account!RevokeAllSessions(u) PROVE ChosenInv'
  BY <1>18 DEF Account!RevokeAllSessions, Account!Delete
<1>19. CASE Account!SweepExpired
  BY <1>19 DEF Account!SweepExpired
<1>20. CASE Account!RaiseParameters
  BY <1>20 DEF Account!RaiseParameters
<1>21. ASSUME NEW r \in Request, Account!Abort(r) PROVE ChosenInv'
  BY <1>21 DEF Account!Abort, Account!Return
<1>22. ASSUME NEW u \in User, Account!DeleteAccount(u) PROVE ChosenInv'
  BY <1>22 DEF Account!DeleteAccount, Account!Changing
<1>23. CASE UNCHANGED Account!vars
  BY <1>23 DEF Account!vars
<1> QED
  BY <1>1, <1>2, <1>3, <1>4, <1>5, <1>6, <1>7, <1>8, <1>9, <1>10, <1>11, <1>12, <1>13, <1>14,
     <1>15, <1>16, <1>17, <1>18, <1>19, <1>20, <1>21, <1>22, <1>23
  DEF Account!Next, Account!Statement, Account!RequestPasswordReset, Account!RequestEmailVerification,
      Account!Purpose

LEMMA LockStep == CallsTyped /\ RowsTyped /\ LockInv /\ [Account!Next]_Account!vars => LockInv'
<1> SUFFICES ASSUME CallsTyped, RowsTyped, LockInv, [Account!Next]_Account!vars PROVE LockInv'
  OBVIOUS
<1> USE JwtRefreshAssumption, CredentialsAssumption
    DEF CallsTyped, RowsTyped, LockInv, Account!rows, Account!calls, Account!history, Account!Exists,
        Account!Purpose
<1>1. ASSUME NEW r \in Request, NEW u \in User, Account!SignUp(r, u) PROVE LockInv'
  BY <1>1 DEF Account!SignUp, Account!Call
<1>2. ASSUME NEW u \in User, Account!CreateExternalUser(u) PROVE LockInv'
  BY <1>2 DEF Account!CreateExternalUser
<1>3. ASSUME NEW r \in Request, NEW u \in User, Account!VerifyCredentials(r, u) PROVE LockInv'
  BY <1>3 DEF Account!VerifyCredentials, Account!Call, Account!Disturb, Account!Changing
<1>4. ASSUME NEW r \in Request, Account!Rehash(r) PROVE LockInv'
  BY <1>4 DEF Account!Rehash, Account!Goto, Account!Return, Account!Changing
<1>5. ASSUME NEW r \in Request, Account!OpenSession(r) PROVE LockInv'
  BY <1>5 DEF Account!OpenSession, Account!InsertSession, Account!Return
<1>6. ASSUME NEW u \in User, Account!StartSession(u) PROVE LockInv'
  BY <1>6 DEF Account!StartSession, Account!InsertSession
<1>7. ASSUME NEW r \in Request, NEW u \in User, Account!ChangePassword(r, u) PROVE LockInv'
  BY <1>7 DEF Account!ChangePassword, Account!Call, Account!Disturb, Account!Changing
<1>8. ASSUME NEW r \in Request, Account!SwapHash(r) PROVE LockInv'
  BY <1>8, SMTT(30) DEF Account!SwapHash, Account!Goto, Account!Return, Account!Revoked, Account!Changing
<1>9. ASSUME NEW r \in Request, Account!CommitHash(r) PROVE LockInv'
  BY <1>9 DEF Account!CommitHash, Account!Return
<1>10. ASSUME NEW r \in Request, NEW u \in User, NEW p \in Account!Purpose, Account!Issue(r, u, p) PROVE LockInv'
  BY <1>10 DEF Account!Issue, Account!Call
<1>11. ASSUME NEW r \in Request, Account!Mint(r) PROVE LockInv'
  BY <1>11 DEF Account!Mint, Account!Return
<1>12. ASSUME NEW r \in Request, NEW t \in Link, Account!ResetPassword(r, t) PROVE LockInv'
  BY <1>12 DEF Account!ResetPassword, Account!Present, Account!Call
<1>13. ASSUME NEW r \in Request, NEW t \in Link, Account!ConfirmEmail(r, t) PROVE LockInv'
  BY <1>13 DEF Account!ConfirmEmail, Account!Present, Account!Call
<1>14. ASSUME NEW r \in Request, Account!Burn(r) PROVE LockInv'
  BY <1>14, BurnFrame
<1>15. ASSUME NEW r \in Request, Account!MarkEmailVerified(r) PROVE LockInv'
  BY <1>15 DEF Account!MarkEmailVerified, Account!Return
<1>16. ASSUME NEW s \in Session, Account!SignOut(s) PROVE LockInv'
  BY <1>16 DEF Account!SignOut, Account!Delete
<1>17. ASSUME NEW u \in User, NEW s \in Session, Account!RevokeSession(u, s) PROVE LockInv'
  BY <1>17 DEF Account!RevokeSession, Account!Delete
<1>18. ASSUME NEW u \in User, Account!RevokeAllSessions(u) PROVE LockInv'
  BY <1>18 DEF Account!RevokeAllSessions, Account!Delete
<1>19. CASE Account!SweepExpired
  BY <1>19 DEF Account!SweepExpired
<1>20. CASE Account!RaiseParameters
  BY <1>20 DEF Account!RaiseParameters
<1>21. ASSUME NEW r \in Request, Account!Abort(r) PROVE LockInv'
  BY <1>21 DEF Account!Abort, Account!Return
<1>22. ASSUME NEW u \in User, Account!DeleteAccount(u) PROVE LockInv'
  BY <1>22 DEF Account!DeleteAccount, Account!Changing
<1>23. CASE UNCHANGED Account!vars
  BY <1>23 DEF Account!vars
<1> QED
  BY <1>1, <1>2, <1>3, <1>4, <1>5, <1>6, <1>7, <1>8, <1>9, <1>10, <1>11, <1>12, <1>13, <1>14,
     <1>15, <1>16, <1>17, <1>18, <1>19, <1>20, <1>21, <1>22, <1>23
  DEF Account!Next, Account!Statement, Account!RequestPasswordReset, Account!RequestEmailVerification,
      Account!Purpose

LEMMA FinalStep ==
    /\ CallsTyped /\ RowsTyped /\ CallsTyped' /\ RowsTyped' /\ PasswordInv
    /\ [Account!Next]_Account!vars
    => FinalInv'
<1> SUFFICES ASSUME CallsTyped, RowsTyped, CallsTyped', RowsTyped', PasswordInv, [Account!Next]_Account!vars
             PROVE  FinalInv'
  OBVIOUS
<1> USE JwtRefreshAssumption, CredentialsAssumption
    DEF CallsTyped, RowsTyped, PasswordInv, FinalInv, ChosenInv, LockInv, ChangeIsFinal, Account!ChangeIsFinal,
        Account!rows, Account!calls, Account!history, Account!Exists, Account!SessionsOf, Account!Verifying,
        Account!Purpose
<1>1. ASSUME NEW r \in Request, NEW u \in User, Account!SignUp(r, u) PROVE FinalInv'
  BY <1>1 DEF Account!SignUp, Account!Call
<1>2. ASSUME NEW u \in User, Account!CreateExternalUser(u) PROVE FinalInv'
  BY <1>2 DEF Account!CreateExternalUser
<1>3. ASSUME NEW r \in Request, NEW u \in User, Account!VerifyCredentials(r, u) PROVE FinalInv'
  BY <1>3 DEF Account!VerifyCredentials, Account!Call, Account!Disturb, Account!Changing
<1>4. ASSUME NEW r \in Request, Account!Rehash(r) PROVE FinalInv'
  BY <1>4 DEF Account!Rehash, Account!Goto, Account!Return, Account!Changing
<1>5. ASSUME NEW r \in Request, Account!OpenSession(r) PROVE FinalInv'
  BY <1>5, SMTT(30) DEF Account!OpenSession, Account!InsertSession, Account!Return
<1>6. ASSUME NEW u \in User, Account!StartSession(u) PROVE FinalInv'
  BY <1>6 DEF Account!StartSession, Account!InsertSession
<1>7. ASSUME NEW r \in Request, NEW u \in User, Account!ChangePassword(r, u) PROVE FinalInv'
  BY <1>7 DEF Account!ChangePassword, Account!Call, Account!Disturb, Account!Changing
<1>8. ASSUME NEW r \in Request, Account!SwapHash(r) PROVE FinalInv'
  BY <1>8, SMTT(30) DEF Account!SwapHash, Account!Goto, Account!Return, Account!Revoked, Account!Changing
<1>9. ASSUME NEW r \in Request, Account!CommitHash(r) PROVE FinalInv'
  BY <1>9 DEF Account!CommitHash, Account!Return
<1>10. ASSUME NEW r \in Request, NEW u \in User, NEW p \in Account!Purpose, Account!Issue(r, u, p) PROVE FinalInv'
  BY <1>10 DEF Account!Issue, Account!Call
<1>11. ASSUME NEW r \in Request, Account!Mint(r) PROVE FinalInv'
  BY <1>11 DEF Account!Mint, Account!Return
<1>12. ASSUME NEW r \in Request, NEW t \in Link, Account!ResetPassword(r, t) PROVE FinalInv'
  BY <1>12 DEF Account!ResetPassword, Account!Present, Account!Call
<1>13. ASSUME NEW r \in Request, NEW t \in Link, Account!ConfirmEmail(r, t) PROVE FinalInv'
  BY <1>13 DEF Account!ConfirmEmail, Account!Present, Account!Call
<1>14. ASSUME NEW r \in Request, Account!Burn(r) PROVE FinalInv'
  BY <1>14, BurnFrame, SMTT(30)
<1>15. ASSUME NEW r \in Request, Account!MarkEmailVerified(r) PROVE FinalInv'
  BY <1>15 DEF Account!MarkEmailVerified, Account!Return
<1>16. ASSUME NEW s \in Session, Account!SignOut(s) PROVE FinalInv'
  BY <1>16 DEF Account!SignOut, Account!Delete
<1>17. ASSUME NEW u \in User, NEW s \in Session, Account!RevokeSession(u, s) PROVE FinalInv'
  BY <1>17 DEF Account!RevokeSession, Account!Delete
<1>18. ASSUME NEW u \in User, Account!RevokeAllSessions(u) PROVE FinalInv'
  BY <1>18 DEF Account!RevokeAllSessions, Account!Delete
<1>19. CASE Account!SweepExpired
  BY <1>19 DEF Account!SweepExpired
<1>20. CASE Account!RaiseParameters
  BY <1>20 DEF Account!RaiseParameters
<1>21. ASSUME NEW r \in Request, Account!Abort(r) PROVE FinalInv'
  BY <1>21 DEF Account!Abort, Account!Return
<1>22. ASSUME NEW u \in User, Account!DeleteAccount(u) PROVE FinalInv'
  BY <1>22 DEF Account!DeleteAccount, Account!Changing
<1>23. CASE UNCHANGED Account!vars
  BY <1>23 DEF Account!vars
<1> QED
  BY <1>1, <1>2, <1>3, <1>4, <1>5, <1>6, <1>7, <1>8, <1>9, <1>10, <1>11, <1>12, <1>13, <1>14,
     <1>15, <1>16, <1>17, <1>18, <1>19, <1>20, <1>21, <1>22, <1>23
  DEF Account!Next, Account!Statement, Account!RequestPasswordReset, Account!RequestEmailVerification,
      Account!Purpose

-----------------------------------------------------------------------------
(* The theorems: what holds of the accounts by themselves, and of the       *)
(* specification that is of them or of the refresh tokens.                  *)

AccountInv == Account!TypeOK /\ RedeemInv /\ NewestInv /\ BatchInv /\ PasswordInv

LEMMA AccountAlways == Account!Spec => []AccountInv
<1>1. Account!Init => AccountInv
  <2> SUFFICES ASSUME Account!Init PROVE AccountInv
    OBVIOUS
  <2>1. RedeemInv
    BY DEF Account!Init, RedeemInv, RedeemedOnce, Account!RedeemedOnce
  <2>2. NewestInv
    BY DEF Account!Init, NewestInv, NewestLinkOnly, Account!NewestLinkOnly, Account!Live, Account!Purpose
  <2>3. PasswordInv
    BY DEF Account!Init, PasswordInv, ChosenInv, LockInv, FinalInv, ChangeIsFinal, Account!ChangeIsFinal,
           Account!Exists, Account!SessionsOf
  <2>4. BatchInv
    BY DEF Account!Init, BatchInv, Account!Purpose
  <2> QED
    BY <2>1, <2>2, <2>3, <2>4, AccountInitially DEF AccountInv
<1>2. AccountInv /\ [Account!Next]_Account!vars => AccountInv'
  BY AccountTypes, AccountTypeStep, RedeemStep, NewestStep, BatchStep, ChosenStep, LockStep, FinalStep
  DEF AccountInv, PasswordInv
<1> QED
  BY <1>1, <1>2, PTL DEF Account!Spec

\* The accounts and the refresh tokens run each by their own specification, or
\* stand still.
LEMMA EachSideRuns == CredentialsSpec => Spec /\ Account!Spec
<1>1. CredentialsInit => Init /\ Account!Init
  BY DEF CredentialsInit
<1>2. [CredentialsNext]_<<side, vars, accountVars>> => [Next]_vars
  BY DEF CredentialsNext
<1>3. [CredentialsNext]_<<side, vars, accountVars>> => [Account!Next]_Account!vars
  BY DEF CredentialsNext, accountVars, Account!vars, Account!rows, Account!calls, Account!history
<1> QED
  BY <1>1, <1>2, <1>3, PTL DEF CredentialsSpec, Spec, Account!Spec

\* The variables of accounts have their types (TypeOK of Accounts).
THEOREM AccountsTyped == CredentialsSpec => []Account!TypeOK
<1>1. AccountInv => Account!TypeOK
  BY DEF AccountInv
<1> QED
  BY <1>1, AccountAlways, EachSideRuns, PTL

\* However many calls present a token, it is redeemed once and for the purpose it
\* was issued for (consume, tokens.py).
THEOREM TokensAreSingleUse == CredentialsSpec => []RedeemedOnce
<1>1. AccountInv => RedeemedOnce
  BY DEF AccountInv, RedeemInv
<1> QED
  BY <1>1, AccountAlways, EachSideRuns, PTL

\* However many calls issue, present and sweep links, each is issued, redeemed or
\* swept in one step: the service implements SingleUseLinks (tokens.py).
THEOREM LinksAreSingleUse == CredentialsSpec => ImplementsLinks
<1>1. AccountInv /\ [Account!Next]_Account!vars => [Account!Links!Next]_Account!Links!vars
  BY AccountTypes, LinksStep DEF AccountInv
<1>2. Account!Spec => Account!Links!Spec
  BY <1>1, AccountAlways, LinksInitially, PTL DEF Account!Spec, Account!Links!Spec
<1> QED
  BY <1>2, EachSideRuns, PTL DEF ImplementsLinks, Account!ImplementsLinks

\* Of the links one caller after another was issued, only the newest is live
\* (issue, tokens.py).
THEOREM NewestLinkStands == CredentialsSpec => []NewestLinkOnly
<1>1. AccountInv => NewestLinkOnly
  BY DEF AccountInv, NewestInv
<1> QED
  BY <1>1, AccountAlways, EachSideRuns, PTL

\* A password set while nobody was signing in or changing it stays the oldest that
\* is in force, for the account and for its sessions (change_password,
\* reset_password).
THEOREM ChangesAreFinal == CredentialsSpec => []ChangeIsFinal
<1>1. AccountInv => ChangeIsFinal
  BY DEF AccountInv, PasswordInv, FinalInv
<1> QED
  BY <1>1, AccountAlways, EachSideRuns, PTL
=============================================================================
