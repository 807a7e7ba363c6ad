----------------------------- MODULE TokenAllowance -----------------------------
(***************************************************************************)
(* What pyxle-auth promises of personal access tokens: a user is granted a *)
(* token only while fewer than Cap of hers are live, in one step, with     *)
(* scopes that never change; a token is withdrawn for good, and only her   *)
(* own go together.  Nothing here says how a create counts, which lock it  *)
(* takes, or how a token comes to be dead.                                 *)
(***************************************************************************)
EXTENDS Naturals, FiniteSets

CONSTANTS User, Token, Scope, Cap, None

VARIABLES owner,    \* whose a token is; None: it was never granted
          scopes,   \* what it may be used for
          dead      \* the tokens revoked or expired

vars == <<owner, scopes, dead>>

Init == /\ owner = [t \in Token |-> None]
        /\ scopes = [t \in Token |-> {}]
        /\ dead = {}

Issued(u) == {t \in Token : owner[t] = u}
Live(u) == Issued(u) \ dead

Grant(u, t, S) ==
    /\ owner[t] = None /\ S # {}
    /\ Cardinality(Live(u)) < Cap
    /\ owner' = [owner EXCEPT ![t] = u] /\ scopes' = [scopes EXCEPT ![t] = S]
    /\ UNCHANGED dead

Withdraw(u) ==
    /\ \E some \in SUBSET Issued(u) : dead' = dead \cup some
    /\ UNCHANGED <<owner, scopes>>

Next == \E u \in User : \/ Withdraw(u)
                        \/ \E t \in Token, S \in SUBSET Scope : Grant(u, t, S)

Spec == Init /\ [][Next]_vars
=============================================================================
