---------------------------- MODULE MCAuthRoutes ----------------------------
(* Instances of AuthRoutes for TLC. *)
EXTENDS AuthRoutes, TLC

Symmetry == Permutations(Sid) \cup Permutations(Token) \cup Permutations(Request)
=============================================================================
