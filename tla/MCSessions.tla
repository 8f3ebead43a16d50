----------------------------- MODULE MCSessions -----------------------------
(* Instances of Sessions for TLC.                                          *)
EXTENDS Sessions, TLC

CONSTANTS u1

\* Every identifier belongs to one user: the limit is per user.
OneUser == [s \in Sid |-> u1]

Symmetry == Permutations(Sid) \cup Permutations(Proc)

\* All but loggedOut, which only LogoutIsFinal and no action looks at.
View == <<now, store, index, lastCleanup, req, granted, solo, faults>>
=============================================================================
