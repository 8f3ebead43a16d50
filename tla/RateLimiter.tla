---------------------------- MODULE RateLimiter ----------------------------
(***************************************************************************)
(* The rate limiter: the provider's increment_and_check, increment,        *)
(* get_count, reset and delete (core/rate_limit/provider.py, base.py) on   *)
(* one shared backend object, Redis or Memcached                           *)
(* (core/rate_limit/backends).                                             *)
(*                                                                         *)
(* A call is a coroutine: it reads the clock and sets the fail-open        *)
(* override when it starts, awaits one round trip (Redis) or a read and a  *)
(* write (Memcached), and restores the override when it is resumed.        *)
(***************************************************************************)
EXTENDS Integers

CONSTANTS
    Key,          \* rate limit keys, "ratelimit:<user>:<path>"
    Proc,         \* calls that may be in flight at once
    Backends,     \* the backends a deployment may choose, "redis" or "memcached"
    Ops,          \* the operations callers use
    Limit,        \* limit: requests allowed in a window
    Period,       \* period: the length of a window, and the TTL of a counter
    LongestTtl,   \* Memcached: a longer exptime is read as a date (30 days)
    Configured,   \* the fail_open policy the backend is created with
    Override,     \* the fail_open arguments callers pass, "none" when absent
    MaxTime,      \* bound: the clock stops here
    MaxLatency,   \* bound: ticks that may pass while a call is in flight
    MaxServed,    \* bound: checks of one key in one window, value of a bare counter
    MaxFaults     \* bound: backend errors in a behaviour

Policy == {"open", "closed"}
Op     == {"check", "increment", "count", "reset", "delete"}

ASSUME BackendAssumption == Backends \subseteq {"redis", "memcached"}
ASSUME OpsAssumption     == Ops \subseteq Op
ASSUME LimitAssumption   == Limit \in Nat \ {0} /\ Period \in Nat \ {0}
ASSUME PolicyAssumption  == Configured \in Policy /\ Override \subseteq Policy \cup {"none"}
ASSUME BoundAssumption   == /\ LongestTtl \in Nat /\ MaxTime \in Nat /\ MaxLatency \in Nat
                            /\ MaxServed \in Nat /\ MaxFaults \in Nat

VARIABLES
    backend,   \* the backend this deployment has, from start to end
    now,       \* the clock
    store,     \* store[k][w]: the counter under "<k>:<w>", or under "<k>" when w is Bare
    failOpen,  \* the fail_open attribute of the backend object
    req,       \* req[p]: the call in slot p
    reply,     \* the answer the last step gave, if it gave one
    served,    \* history: checks the backend has counted for k in window w
    admitted,  \* history: checks let through by count, while w lasted and after
    faults     \* errors so far

vars == <<backend, now, store, failOpen, req, reply, served, admitted, faults>>

-----------------------------------------------------------------------------
Bare    == -1
Window  == {w \in 0 .. MaxTime : w % Period = 0}
Slot    == Window \cup {Bare}
Counter == [count : Nat, exp : Nat]
Tally   == [inside : Nat, late : Nat]

Request == [pc : {"idle", "call", "set"}, op : Op, key : Key, slot : Slot, began : Nat,
            count : Nat, original : Policy \cup {"none"}]

Idle(k)  == [pc |-> "idle", op |-> "check", key |-> k, slot |-> Bare, began |-> 0,
             count |-> 0, original |-> "none"]

Answers == [op : Op \cup {"none"}, key : Key, slot : Slot, value : Nat,
            limited : BOOLEAN, failed : BOOLEAN]
Silence(k) == [op |-> "none", key |-> k, slot |-> Bare, value |-> 0,
               limited |-> FALSE, failed |-> FALSE]

\* The value a read returns: an expired counter is gone.
Value(k, w) == IF store[k][w].exp > now THEN store[k][w].count ELSE 0

\* Mutant: the counter of a window goes when the window ends.
ExpiryAtWindowEnd(w) == IF w = Bare THEN now + Period ELSE w + Period

\* EXPIRE of the Redis pipeline; exptime of the Memcached set, which the server
\* takes for a date, long past, when it exceeds thirty days.
Expiry(w) == IF backend = "memcached" /\ Period > LongestTtl THEN 0 ELSE now + Period

Put(k, w, n) == store' = [store EXCEPT ![k][w] = [count |-> n, exp |-> Expiry(w)]]
Delete(k)    == store' = [store EXCEPT ![k][Bare] = [count |-> 0, exp |-> 0]]

WindowStart(t) == t - (t % Period)

Init ==
    /\ backend \in Backends
    /\ now = 0 /\ faults = 0
    /\ store = [k \in Key |-> [w \in Slot |-> [count |-> 0, exp |-> 0]]]
    /\ failOpen = Configured
    /\ \E k \in Key : req = [p \in Proc |-> Idle(k)] /\ reply = Silence(k)
    /\ served = [k \in Key |-> [w \in Window |-> 0]]
    /\ admitted = [k \in Key |-> [w \in Window |-> [inside |-> 0, late |-> 0]]]

\* A check the backend has counted.
Serve(r) == served' = IF r.op = "check" THEN [served EXCEPT ![r.key][r.slot] = @ + 1] ELSE served

-----------------------------------------------------------------------------
(* Calls begin.                                                            *)

\* Mutant: the policy in force is saved even when it is the one asked for.
OverridesAlways(o) == o # "none"

\* The call asks for a policy other than the one in force.
Overrides(o) == o # "none" /\ o # failOpen

\* The provider's increment_and_check up to its first await: the override is
\* written to the shared backend, which then computes the key of the window.
Check(p) == \E k \in Key, o \in Override :
    LET w == WindowStart(now)
    IN  /\ "check" \in Ops
        /\ req[p].pc = "idle" /\ served[k][w] < MaxServed
        /\ failOpen' = IF Overrides(o) THEN o ELSE failOpen
        /\ req' = [req EXCEPT ![p] = [Idle(k) EXCEPT !.pc = "call", !.slot = w, !.began = now,
                        !.original = IF Overrides(o) THEN failOpen ELSE "none"]]
        /\ reply' = Silence(k)
        /\ UNCHANGED <<backend, now, store, served, admitted, faults>>

\* increment, get_count, reset and delete use the key they are given as it is.
Call(p) == \E k \in Key, op \in Ops \ {"check"} :
    /\ req[p].pc = "idle"
    /\ op = "increment" => Value(k, Bare) < MaxServed /\ \A q \in Proc : req[q].count < MaxServed
    /\ req' = [req EXCEPT ![p] = [Idle(k) EXCEPT !.pc = "call", !.op = op, !.began = now]]
    /\ reply' = Silence(k)
    /\ UNCHANGED <<backend, now, store, failOpen, served, admitted, faults>>

-----------------------------------------------------------------------------
(* Calls are answered.                                                     *)

\* Mutants: the count before this request is compared; a full window is refused.
LimitedBefore(n)  == n - 1 > Limit
LimitedAtEqual(n) == n >= Limit

Limited(n) == n > Limit

\* Mutant: the policy is put back whether or not it was saved.
RestoredAlways(r) == r.original

\* The finally of increment_and_check.
Restored(r) == IF r.original # "none" THEN r.original ELSE failOpen

Finish(p, answer) ==
    /\ req' = [req EXCEPT ![p] = Idle(req[p].key)]
    /\ failOpen' = Restored(req[p])
    /\ reply' = [op |-> req[p].op, key |-> req[p].key, slot |-> req[p].slot,
                 value |-> answer.value, limited |-> answer.limited, failed |-> answer.failed]

Admit(k, w) ==
    admitted' = IF now < w + Period THEN [admitted EXCEPT ![k][w].inside = @ + 1]
                                    ELSE [admitted EXCEPT ![k][w].late = @ + 1]

\* The caller of a check learns the new count and whether it is over the limit.
Answer(p, n) ==
    LET over == req[p].op = "check" /\ Limited(n)
    IN  /\ Finish(p, [value |-> n, limited |-> over, failed |-> FALSE])
        /\ IF req[p].op = "check" /\ ~over THEN Admit(req[p].key, req[p].slot)
                                           ELSE UNCHANGED admitted

\* Redis: INCR (or INCRBY) and EXPIRE in one MULTI.
Bump(p) ==
    LET r == req[p]
        n == Value(r.key, r.slot) + 1
    IN  /\ backend = "redis" /\ r.pc = "call" /\ r.op \in {"check", "increment"}
        /\ Put(r.key, r.slot, n)
        /\ Answer(p, n)
        /\ Serve(r)
        /\ UNCHANGED <<backend, now, faults>>

\* Memcached: the counter is read ...
Get(p) ==
    LET r == req[p]
    IN  /\ backend = "memcached" /\ r.pc = "call" /\ r.op \in {"check", "increment"}
        /\ req' = [req EXCEPT ![p].pc = "set", ![p].count = Value(r.key, r.slot) + 1]
        /\ reply' = Silence(r.key)
        /\ Serve(r)
        /\ UNCHANGED <<backend, now, store, failOpen, admitted, faults>>

\* ... and the sum stored, whatever happened in between.
Set(p) ==
    /\ req[p].pc = "set"
    /\ Put(req[p].key, req[p].slot, req[p].count)
    /\ Answer(p, req[p].count)
    /\ UNCHANGED <<backend, now, served, faults>>

GetCount(p) ==
    /\ req[p].pc = "call" /\ req[p].op = "count"
    /\ Answer(p, Value(req[p].key, Bare))
    /\ UNCHANGED <<backend, now, store, served, faults>>

Reset(p) ==
    /\ req[p].pc = "call" /\ req[p].op \in {"reset", "delete"}
    /\ Delete(req[p].key)
    /\ Answer(p, 0)
    /\ UNCHANGED <<backend, now, served, faults>>

\* A check whose backend failed is limited unless the backend fails open.
Refuses == failOpen = "closed"

\* A command raises before it took effect, or after (the reply is lost).
Fail(p) ==
    LET r == req[p]
    IN  /\ r.pc # "idle" /\ faults < MaxFaults
        /\ \/ UNCHANGED <<store, served>>
           \/ /\ backend = "redis" /\ r.op \in {"check", "increment"}
              /\ Put(r.key, r.slot, Value(r.key, r.slot) + 1)
              /\ Serve(r)
           \/ r.pc = "set" /\ Put(r.key, r.slot, r.count) /\ UNCHANGED served
           \/ r.op \in {"reset", "delete"} /\ Delete(r.key) /\ UNCHANGED served
        /\ Finish(p, [value |-> 0, limited |-> r.op = "check" /\ Refuses, failed |-> TRUE])
        /\ faults' = faults + 1
        /\ UNCHANGED <<backend, now, admitted>>

Tick ==
    /\ now < MaxTime
    /\ \A p \in Proc : req[p].pc # "idle" => now < req[p].began + MaxLatency
    /\ now' = now + 1
    /\ reply' = Silence(reply.key)
    /\ UNCHANGED <<backend, store, failOpen, req, served, admitted, faults>>

Step(p) == Bump(p) \/ Get(p) \/ Set(p) \/ GetCount(p) \/ Reset(p)

Next == Tick \/ \E p \in Proc : Check(p) \/ Call(p) \/ Step(p) \/ Fail(p)

Spec == Init /\ [][Next]_vars

-----------------------------------------------------------------------------
(* Properties.                                                             *)

TypeOK ==
    /\ backend \in Backends
    /\ now \in 0 .. MaxTime /\ faults \in Nat
    /\ store \in [Key -> [Slot -> Counter]]
    /\ failOpen \in Policy
    /\ req \in [Proc -> Request] /\ reply \in Answers
    /\ served \in [Key -> [Window -> Nat]]
    /\ admitted \in [Key -> [Window -> Tally]]

\* increment_and_check "performs an atomic increment-and-check operation": however
\* calls interleave, on Redis a window admits no more than limit requests while it
\* lasts.  (Memcached loses increments.)
WindowLimit == backend = "redis" =>
    \A k \in Key, w \in Window : admitted[k][w].inside <= Limit

\* Requests that read the clock in a window and reach Redis after its end may find
\* the counter expired and start it again: they are limit at most too.
LateLimit == backend = "redis" =>
    \A k \in Key, w \in Window : admitted[k][w].late <= Limit

\* No request is refused by count before limit others were counted in its window,
\* also when Memcached lost some of the increments.
LimitedOnlyAfterLimit ==
    reply.op = "check" /\ reply.limited /\ ~reply.failed => served[reply.key][reply.slot] > Limit

\* "Supports temporary fail-open policy overrides" (provider.py:272): the override
\* is kept in the shared backend across an await, where overlapping calls find each
\* other's; yet once no call is in flight the backend has the policy it was
\* configured with.
OverridesAreTemporary == (\A p \in Proc : req[p].pc = "idle") => failOpen = Configured

=============================================================================
