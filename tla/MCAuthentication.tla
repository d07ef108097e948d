-------------------------- MODULE MCAuthentication --------------------------
(* Authentication with symmetric logins. *)
EXTENDS Authentication, TLC

Symmetry == Permutations(Logins)
=============================================================================
