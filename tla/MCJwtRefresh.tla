----------------------------- MODULE MCJwtRefresh -----------------------------
(* Constants for model-checking JwtRefresh. *)
EXTENDS JwtRefresh, TLC

CONSTANTS r1, r2, r3, t1, t2, t3, t4, f1, f2, u1

\* Requests, tokens and families are interchangeable.
Symmetry ==
    Permutations(Request) \cup Permutations(Token) \cup Permutations(Family)
=============================================================================
