-------------------------- MODULE MCLoginThrottle --------------------------
(* Instances of LoginThrottle for TLC.                                     *)
EXTENDS LoginThrottle, TLC

Symmetry == Permutations(Proc) \cup Permutations(Name)
=============================================================================
