-------------------------------- MODULE MCStartup --------------------------------
(* Startup for TLC: a site without optional parts, and one with all of them. *)
EXTENDS Startup, TLC

MCSettings == {{}, {"orm", "oauth", "jwt"}}
Symmetry == Permutations(Worker)
=============================================================================
