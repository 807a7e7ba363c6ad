------------------------------ MODULE MCCredentials ------------------------------
(* Credentials for TLC.  Requests are interchangeable, and so are families and   *)
(* the links of the same names.  (Refresh tokens are too; sorting them out costs *)
(* more than it saves.)                                                          *)
EXTENDS Credentials, TLC

Symmetry == Permutations(Request) \cup Permutations(Family)
=============================================================================
