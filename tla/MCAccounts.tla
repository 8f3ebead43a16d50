----------------------------- MODULE MCAccounts -----------------------------
(* Instances of Accounts for TLC.                                          *)
EXTENDS Accounts, TLC

CONSTANTS root, u1, u2, n0, n1, n2, e0, e1, e2, g1, t1, t2, p1, p2, none

MCEmailAt == [g \in {g1} |-> e1]

\* With a name, an address or an identity that is taken, may become taken, or is free.
MCSignUp == {[username |-> n1, email |-> e2, google |-> none, unlink |-> FALSE],
             [username |-> n2, email |-> e1, google |-> none, unlink |-> FALSE],
             [username |-> n2, email |-> e2, google |-> g1, unlink |-> FALSE]}
MCUpdate == {[username |-> n1, email |-> none, google |-> none, unlink |-> FALSE],
             [username |-> n2, email |-> none, google |-> none, unlink |-> FALSE],
             [username |-> n2, email |-> e2, google |-> none, unlink |-> FALSE],
             [username |-> none, email |-> none, google |-> g1, unlink |-> FALSE],
             [username |-> none, email |-> none, google |-> none, unlink |-> TRUE]}

\* The first superuser, and a user.
MCResident ==
    (root :> [NewRow([username |-> n0, email |-> e0, google |-> none, unlink |-> FALSE], TRUE) EXCEPT !.admin = TRUE])
    @@ (u1 :> NewRow([username |-> n1, email |-> e1, google |-> none, unlink |-> FALSE], TRUE))

MCSymmetry == Permutations({p1, p2})
=============================================================================
