------------------------------- MODULE Credentials -------------------------------
(***************************************************************************)
(* What is exchanged for a sign-in, in one specification: a behaviour is   *)
(* of the refresh tokens of JwtRefresh, which is extended, or of the       *)
(* passwords and single-use tokens of Accounts, an instance, chosen at the *)
(* start; the other stands still.                                          *)
(***************************************************************************)
EXTENDS JwtRefresh, Naturals, Sequences

CONSTANTS Session, Link,      \* Accounts: session cookies, single-use tokens
          MaxPasswords, RequireVerified, Gone

ASSUME CredentialsAssumption ==
    /\ None \notin Link \cup Nat /\ Gone # None
    /\ MaxPasswords \in Nat

VARIABLES side,
          stored, outdated, verified, session, token, usedTokens, accountPc, who, seen,
          accountTok, batch, chosen, quiet, final

Account == INSTANCE Accounts WITH
    Token <- Link, used <- usedTokens, pc <- accountPc, tok <- accountTok

\* None is no row of a token, nor what SingleUseLinks sees of one.
ASSUME RowsAssumption ==
    /\ None \notin [user : User, purpose : Account!Purpose, by : Request]
    /\ None \notin [user : User, purpose : Account!Purpose, by : Request, claims : Seq(Account!Purpose)]

accountVars == <<stored, outdated, verified, session, token, usedTokens, accountPc, who, seen,
                 accountTok, batch, chosen, quiet, final>>

CredentialsInit == side \in {"refresh", "accounts"} /\ Init /\ Account!Init

CredentialsNext ==
    /\ UNCHANGED side
    /\ \/ side = "refresh" /\ Next /\ UNCHANGED accountVars
       \/ side = "accounts" /\ Account!Next /\ UNCHANGED vars

CredentialsSpec == CredentialsInit /\ [][CredentialsNext]_<<side, vars, accountVars>>
-----------------------------------------------------------------------------
\* Accounts: a change of password made while nobody signs in stays in force.
ChangeIsFinal == Account!ChangeIsFinal
\* Accounts: a single-use token is redeemed once, for its purpose.
RedeemedOnce == Account!RedeemedOnce
\* Accounts: a link is issued, redeemed or swept in one step of SingleUseLinks.
ImplementsLinks == Account!ImplementsLinks
\* Accounts: of one caller's links for a user, only the newest is live.
NewestLinkOnly == Account!NewestLinkOnly
=============================================================================
