------------------------------ MODULE MCServing ------------------------------
(* Instances of Serving for TLC.                                           *)
EXTENDS Serving, TLC

CONSTANTS d1, d2, r1, r2, a, b, t1, t2, x1, x2, low, high, usual, p1, p2, none

MCSafe == [environment |-> "production", validation |-> TRUE, admin |-> TRUE,
           password |-> "own", url |-> "absent",
           cache |-> TRUE, limiter |-> TRUE,
           cacheBackend |-> "redis", limiterBackend |-> "redis", sessionBackend |-> "redis",
           cacheDb |-> d1, limiterDb |-> d2, weak |-> {}]

\* One setting at a time away from a safe production configuration.
MCSettings ==
    {MCSafe} \cup {[MCSafe EXCEPT !.weak = {w}] : w \in {"secret", "redis password", "cors", "debug", "docs", "csrf", "admin name"}}
    \cup {[MCSafe EXCEPT !.password = w] : w \in {"default", "empty"}}
    \cup {[MCSafe EXCEPT !.url = "default"], [MCSafe EXCEPT !.url = "own", !.password = "default"],
          [MCSafe EXCEPT !.admin = FALSE, !.weak = {"admin password"}],
          [MCSafe EXCEPT !.limiterDb = d1], [MCSafe EXCEPT !.cacheBackend = "memcached"],
          [MCSafe EXCEPT !.cache = FALSE, !.limiterBackend = "memcached"],
          [MCSafe EXCEPT !.cacheBackend = "memcached", !.limiterDb = d1],
          [MCSafe EXCEPT !.limiterBackend = "memory"],
          [MCSafe EXCEPT !.sessionBackend = "memory"],
          [MCSafe EXCEPT !.limiter = FALSE, !.cacheBackend = "memory"],
          [MCSafe EXCEPT !.environment = "staging", !.weak = {"secret"}],
          [MCSafe EXCEPT !.validation = FALSE, !.password = "empty"]}

MCRule(n, t, x, l) == [name |-> n, tier |-> t, path |-> x, limit |-> l]

MCResident == r1 :> MCRule(a, t1, x1, low)

MCNewRule == {MCRule(b, t1, x1, high), MCRule(a, t2, x1, high)}

MCChange == {[name |-> b, path |-> none, limit |-> none],
             [name |-> a, path |-> none, limit |-> none],
             [name |-> none, path |-> x2, limit |-> none],
             [name |-> none, path |-> none, limit |-> high]}
=============================================================================
