------------------------------- MODULE MCSessions -------------------------------
(* Sessions for TLC: requests, and users, are interchangeable. *)
EXTENDS Sessions, TLC

Symmetry == Permutations(Request) \cup Permutations(User)
=============================================================================
