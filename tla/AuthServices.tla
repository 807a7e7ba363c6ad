------------------------------ MODULE AuthServices ------------------------------
(***************************************************************************)
(* pyxle-auth's services over the tables they do not share, in one         *)
(* specification: a behaviour is of one of them, chosen at the start, and  *)
(* the others stand still.  Startup is extended; the other modules are     *)
(* instances whose variables are those of this module, by their own names  *)
(* where no two modules use the same.                                      *)
(***************************************************************************)
EXTENDS Startup, FiniteSets

CONSTANTS Request, Gone,
          Person,                          \* the users of ApiTokens and OAuthSignIn
          Address, Identifier, Limit, Calls, LastWindow, MaxCount, MaxBegun, \* RateLimiter
          Token, Scope, Cap,                                         \* ApiTokens
          RoleName, Permission, Serial,                              \* Roles
          Browser, Nonce, Identity, Email                            \* OAuthSignIn

ASSUME AuthServicesAssumption ==
    /\ Limit \in Nat /\ LastWindow \in Nat /\ MaxCount \in Nat /\ MaxBegun \in Nat /\ Cap \in Nat
    /\ None \notin User \cup Person \cup RoleName \cup Browser \cup Nonce \cup Identity \cup Email
    /\ IsFiniteSet(Request) /\ Address \cup Identifier \subseteq Seq(STRING)
    /\ Gone \notin Email \cup {None}
    /\ \A P \in SUBSET Permission : P # None

VARIABLES service,
          (* RateLimiter *) ratePc, count, now, plan, start, from, right,
                            granted, begun, failed,
          (* ApiTokens *)   apiPc, apiWho, apiTok, apiOwner, apiRevoked, apiExpired,
                            scopes, touched, need,
          (* Roles *)       rolePc, roleWho, perms, grants, name, packed, batch,
                            quiet, cleared, lost,
          (* OAuthSignIn *) oauthPc, oauthWho, cookie, flow, subject, mail, verified,
                            link, at, nonce, address, vouched, user, starter, home,
                            vouches, severed

Rate == INSTANCE RateLimiter WITH Account <- Identifier, pc <- ratePc

\* service.py charges its buckets for these operations only.
ASSUME CallsAssumption == Calls \subseteq Rate!Operation

Api == INSTANCE ApiTokens WITH
    User <- Person, pc <- apiPc, who <- apiWho, tok <- apiTok,
    owner <- apiOwner, revoked <- apiRevoked, expired <- apiExpired

Role == INSTANCE Roles WITH Role <- RoleName, pc <- rolePc, who <- roleWho

OAuth == INSTANCE OAuthSignIn WITH User <- Person, pc <- oauthPc, who <- oauthWho

rateVars == <<ratePc, count, now, plan, start, from, right, granted, begun, failed>>
apiVars == <<apiPc, apiWho, apiTok, apiOwner, apiRevoked, apiExpired, scopes, touched, need>>
roleVars == <<rolePc, roleWho, perms, grants, name, packed, batch, quiet, cleared, lost>>
oauthVars == <<oauthPc, oauthWho, cookie, flow, subject, mail, verified, link, at, nonce,
              address, vouched, user, starter, home, vouches, severed>>

ServicesInit ==
    /\ service \in {"rate limiter", "api tokens", "roles", "oauth", "startup"}
    /\ Init /\ Rate!Init /\ Api!Init /\ Role!Init /\ OAuth!Init
    \* One initial state for a module that stands still.
    /\ service # "startup" => dialect = "sqlite" /\ features = {} /\ db = Empty /\ applied = {}

ServicesNext ==
    /\ UNCHANGED service
    /\ \/ /\ service = "startup" /\ Next
          /\ UNCHANGED <<rateVars, apiVars, roleVars, oauthVars>>
       \/ /\ service = "rate limiter" /\ Rate!Next
          /\ UNCHANGED <<vars, apiVars, roleVars, oauthVars>>
       \/ /\ service = "api tokens" /\ Api!Next
          /\ UNCHANGED <<vars, rateVars, roleVars, oauthVars>>
       \/ /\ service = "roles" /\ Role!Next
          /\ UNCHANGED <<vars, rateVars, apiVars, oauthVars>>
       \/ /\ service = "oauth" /\ OAuth!Next
          /\ UNCHANGED <<vars, rateVars, apiVars, roleVars>>

ServicesSpec ==
    ServicesInit /\ [][ServicesNext]_<<service, vars, rateVars, apiVars, roleVars, oauthVars>>
-----------------------------------------------------------------------------
\* RateLimiter: racing callers never get more attempts from a bucket than its limit.
NoOvershoot == Rate!NoOvershoot
\* RateLimiter: a right password is turned away only after too many from its address.
OwnerIsHeard == Rate!OwnerIsHeard
\* ApiTokens: racing creates leave no user more live tokens than the cap.
CapHolds == Api!CapHolds
\* ApiTokens: every step is a grant within the cap or a withdrawal of one user's tokens.
ImplementsAllowance == Api!ImplementsAllowance
\* Roles: a role deleted while nobody was being granted it has no holder.
DeletedRoleIsEmpty == Role!DeletedRoleIsEmpty
\* OAuthSignIn: a browser is signed in only by a flow it started.
OwnFlowOnly == OAuth!OwnFlowOnly
\* OAuthSignIn: an identity opens only accounts whose address was verified for it.
ReachesOnlyVouched == OAuth!ReachesOnlyVouched
\* OAuthSignIn: a sign-in leaves its identity linked.
SignInLeavesLink == OAuth!SignInLeavesLink
=============================================================================
