------------------------------ MODULE RefreshChains ------------------------------
(***************************************************************************)
(* What rotating refresh tokens promise: a sign-in starts a family with    *)
(* one token; a refresh spends that token, and only then, and once, can a  *)
(* successor follow; a family revoked while no refresh of it is under way  *)
(* has nothing to go on with.  Nothing here says which token a request     *)
(* presents, in how many statements, or what it had read before them.  One *)
(* thing is not promised: a refresh under way outlives a revocation, and   *)
(* its successor is live.                                                  *)
(***************************************************************************)
CONSTANTS Family, Token

VARIABLES started,    \* families some sign-in began
          issued,     \* tokens handed out
          live,       \* of each family: the tokens a refresh can still spend
          rotating    \* families whose token was spent and not yet succeeded

vars == <<started, issued, live, rotating>>

Init == /\ started = {} /\ issued = {} /\ rotating = {}
        /\ live = [f \in Family |-> {}]

\* A token that was never handed out is now the family's only one.
HandOut(f, t) == /\ t \notin issued
                 /\ issued' = issued \cup {t}
                 /\ live' = [live EXCEPT ![f] = {t}]

SignIn(f) == /\ f \notin started
             /\ started' = started \cup {f}
             /\ \E t \in Token : HandOut(f, t)
             /\ UNCHANGED rotating

Spend(f) == /\ f \notin rotating
            /\ \E t \in Token : live[f] = {t}
            /\ live' = [live EXCEPT ![f] = {}]
            /\ rotating' = rotating \cup {f}
            /\ UNCHANGED <<started, issued>>

Succeed(f) == /\ f \in rotating
              /\ rotating' = rotating \ {f}
              /\ \E t \in Token : HandOut(f, t)
              /\ UNCHANGED started

\* The refresh fails: the family has no token any more.
GiveUp(f) == /\ f \in rotating
             /\ rotating' = rotating \ {f}
             /\ UNCHANGED <<started, issued, live>>

Revoke(F) == /\ live' = [f \in Family |-> IF f \in F THEN {} ELSE live[f]]
             /\ UNCHANGED <<started, issued, rotating>>

Next == \/ \E F \in SUBSET started : Revoke(F)
        \/ \E f \in Family : SignIn(f) \/ Spend(f) \/ Succeed(f) \/ GiveUp(f)

Spec == Init /\ [][Next]_vars
=============================================================================
