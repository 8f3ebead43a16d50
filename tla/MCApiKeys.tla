----------------------------- MODULE MCApiKeys ------------------------------
(* Instances of ApiKeys for TLC.                                           *)
EXTENDS ApiKeys, TLC

Sets == INSTANCE FiniteSetsExt

CONSTANTS u1, u2, k1, k2, x1, r1, a1, any, unknown, never, e1, e2, p1, p2, none

MCResident == k1 :> [owner |-> u1, prefix |-> x1, active |-> TRUE, expires |-> 0, used |-> none]

\* Reactivate, deactivate, or lift the expiry.
MCUpdate == {[active |-> TRUE, expires |-> none], [active |-> FALSE, expires |-> none],
             [active |-> none, expires |-> never]}

\* A success, a redirect without an amount, and an error.
MCSpent == {[status |-> 200, endpoint |-> e1, amount |-> 2, day |-> none],
            [status |-> 302, endpoint |-> e1, amount |-> none, day |-> none],
            [status |-> 404, endpoint |-> e2, amount |-> 1, day |-> none]}

PermissionRow(k, r, a, ok) == [key |-> k, resource |-> r, action |-> a, allowed |-> ok]

MCGranted == {{PermissionRow(k1, r1, a1, TRUE)},
              {PermissionRow(k1, any, a1, FALSE), PermissionRow(k1, r1, any, TRUE), PermissionRow(k1, any, any, TRUE)}}

MCText == [good : {TRUE}, prefix : {x1}, secret : {k1, k2}]
          \cup [good : {FALSE}, prefix : {x1}, secret : {none}]

MCAsked == [resource : {r1}, action : {a1}] \cup [resource : {unknown}, action : {any}]

\* Added is the sum of a function.
ASSUME AddedIsSum ==
    \A f \in [1..3 -> 0..3] : Added(f) = Sets!MapThenSumSet(LAMBDA x : f[x], DOMAIN f)

MCSymmetry == Permutations({p1, p2})
=============================================================================
