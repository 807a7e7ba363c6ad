----------------------------- MODULE MCAuthServices -----------------------------
(* AuthServices for TLC: a site without optional parts and one with all of      *)
(* them; addresses one of which, and a colon, begins the other; requests are     *)
(* interchangeable.                                                              *)
EXTENDS AuthServices, TLC

MCSettings == {{}, {"orm", "oauth", "jwt"}}
MCAddress == {<<"2001:db8::1">>, <<"2001:db8::1", "5">>}
MCIdentifier == {<<"ada@example.org">>}
Symmetry == Permutations(Request)
=============================================================================
