--------------------------- MODULE LoginThrottle ---------------------------
(***************************************************************************)
(* The login endpoint and the counters that throttle it: login             *)
(* (api/v1/auth.py) calls track_login_attempt                              *)
(* (core/auth/session/manager.py) before it checks the password, and again *)
(* once it was right.  An attempt is counted under its address, then under *)
(* its user name; a successful one deletes the two counters in that order. *)
(* The counters live in the rate limiter's backend                         *)
(* (core/rate_limit/backends), and each command is awaited on its own.     *)
(***************************************************************************)
EXTENDS Integers, FiniteSets

CONSTANTS
    Ip, Name,      \* client addresses and user names, disjoint
    Proc,          \* login requests that may be in flight at once
    Backends,      \* the backends a deployment may choose
    FailOpen,      \* the fail_open policy of the backend
    MaxAttempts,   \* login_max_attempts
    LoginWindow,   \* login_window, in ticks
    Cap,           \* bound: counters stop at Cap, above MaxAttempts
    MaxFaults      \* bound: backend errors in a behaviour

ASSUME KeyAssumption     == Ip \cap Name = {}
ASSUME ProcAssumption    == IsFiniteSet(Proc)
ASSUME BackendAssumption == Backends \subseteq {"redis", "memcached"} /\ FailOpen \in BOOLEAN
ASSUME LimitAssumption   == MaxAttempts \in Nat \ {0} /\ LoginWindow \in Nat \ {0}
ASSUME BoundAssumption   == Cap \in Nat /\ Cap > MaxAttempts /\ MaxFaults \in Nat

VARIABLES
    backend,  \* "redis" or "memcached", from start to end
    counter,  \* counter[k]: attempts counted under k, and ticks it has left
    req,      \* req[p]: the login request in slot p
    reply,    \* what the last step answered, if it answered
    passed,   \* history: attempts in counter k that went on to the password check
    since,    \* history: attempts counted under k since p's password was right
    faults    \* errors so far

vars == <<backend, counter, req, reply, passed, since, faults>>

-----------------------------------------------------------------------------
Key     == Ip \cup Name
Counter == [count : 0 .. Cap, ttl : 0 .. LoginWindow]
Gone    == [count |-> 0, ttl |-> 0]

\* Counting from n, as far as the bound.
Plus(n) == IF n < Cap THEN n + 1 ELSE n

\* pc: "count" before a counter is incremented, "store" between the read and the
\* write of a Memcached increment, "verify" before the password is checked,
\* "clear" before a counter is deleted; at: the key the step is about.
Request == [pc : {"idle", "count", "store", "verify", "clear"}, at : {"ip", "name"},
            ip : Ip, name : Name, worst : 0 .. Cap, read : 0 .. Cap,
            counted : SUBSET Key]

Idle(i, n)  == [pc |-> "idle", at |-> "ip", ip |-> i, name |-> n, worst |-> 0, read |-> 0,
                counted |-> {}]

Reply   == [kind : {"none", "allowed", "refused", "wrong", "success"}, by : Proc,
            remaining : 0 .. MaxAttempts]
Silent(p)      == [kind |-> "none", by |-> p, remaining |-> 0]
Answer(p, a)   == reply' = [kind |-> a, by |-> p, remaining |-> 0]

KeyOf(r) == IF r.at = "ip" THEN r.ip ELSE r.name
Keys(r)  == {r.ip, r.name}

\* Mutant: INCR without EXPIRE, a counter without a TTL never goes.
TtlForever(k) == counter[k].ttl

\* Every attempt, refused or not, renews the time its counters have left.
Ttl(k) == LoginWindow

Put(k, n) == counter' = [counter EXCEPT ![k] = [count |-> n, ttl |-> Ttl(k)]]

\* Mutants: one attempt too many; the attempts left drop below zero.
AllowedOneMore(n)     == n <= MaxAttempts + 1
RemainingUnclamped(n) == MaxAttempts - n

Worst(ip, name) == IF ip > name THEN ip ELSE name
Allowed(n)      == n <= MaxAttempts
Remaining(n)    == IF n < MaxAttempts THEN MaxAttempts - n ELSE 0

Init ==
    /\ backend \in Backends
    /\ counter = [k \in Key |-> Gone]
    /\ \E i \in Ip, n \in Name : req = [p \in Proc |-> Idle(i, n)]
    /\ \E p \in Proc : reply = Silent(p)
    /\ passed = [k \in Key |-> 0]
    /\ since = [p \in Proc |-> [k \in Key |-> 0]]
    /\ faults = 0

\* Counter k has ended: later attempts belong to another one.
Detached(k) == [q \in Proc |-> [req[q] EXCEPT !.counted = @ \ {k}]]

\* An attempt has been counted under k.
Counted(k) == since' = [q \in Proc |->
    IF req[q].pc = "clear" /\ k \in Keys(req[q]) THEN [since[q] EXCEPT ![k] = Plus(@)] ELSE since[q]]

-----------------------------------------------------------------------------
\* A login request arrives.
Attempt(p) == \E i \in Ip, n \in Name :
    /\ req[p].pc = "idle"
    /\ req' = [req EXCEPT ![p] = [Idle(i, n) EXCEPT !.pc = "count"]]
    /\ reply' = Silent(p)
    /\ since' = [since EXCEPT ![p] = [k \in Key |-> 0]]
    /\ UNCHANGED <<counter, passed, faults>>

\* The attempt goes on to the password check.
PassOn(p, r) ==
    /\ req' = [req EXCEPT ![p] = [r EXCEPT !.pc = "verify", !.at = "ip", !.worst = 0, !.read = 0,
                                            !.counted = {}]]
    /\ passed' = [k \in Key |-> IF k \in r.counted THEN Plus(passed[k]) ELSE passed[k]]

\* The rest of track_login_attempt once increment returned n: the user name is
\* counted after the address, then the attempt goes on to the password or ends.
Returned(p, r, n) ==
    LET worst == Worst(r.worst, n)
    IN  \/ /\ r.at = "ip"
           /\ req' = [req EXCEPT ![p] = [r EXCEPT !.pc = "count", !.at = "name", !.worst = n, !.read = 0]]
           /\ reply' = Silent(p)
           /\ UNCHANGED passed
        \/ /\ r.at = "name" /\ Allowed(worst)
           /\ PassOn(p, r)
           /\ reply' = [kind |-> "allowed", by |-> p, remaining |-> Remaining(worst)]
        \/ /\ r.at = "name" /\ ~Allowed(worst)
           /\ req' = [req EXCEPT ![p] = Idle(r.ip, r.name)]
           /\ reply' = [kind |-> "refused", by |-> p, remaining |-> Remaining(worst)]
           /\ UNCHANGED passed

\* Redis: INCRBY and EXPIRE in one MULTI.
Count(p) ==
    LET k == KeyOf(req[p])
        n == Plus(counter[k].count)
    IN  /\ backend = "redis" /\ req[p].pc = "count"
        /\ Put(k, n)
        /\ Counted(k)
        /\ Returned(p, [req[p] EXCEPT !.counted = @ \cup {k}], n)
        /\ UNCHANGED faults

\* Memcached: the counter is read ...
Read(p) ==
    LET k == KeyOf(req[p])
    IN  /\ backend = "memcached" /\ req[p].pc = "count"
        /\ req' = [req EXCEPT ![p].pc = "store", ![p].read = Plus(counter[k].count),
                              ![p].counted = @ \cup {k}]
        /\ Counted(k)
        /\ reply' = Silent(p)
        /\ UNCHANGED <<counter, passed, faults>>

\* ... and the sum is stored.
Store(p) ==
    /\ req[p].pc = "store"
    /\ Put(KeyOf(req[p]), req[p].read)
    /\ Returned(p, req[p], req[p].read)
    /\ UNCHANGED <<since, faults>>

\* authenticate_user: the password is right or wrong.
Verify(p) ==
    LET r == req[p]
    IN  /\ r.pc = "verify"
        /\ \/ /\ req' = [req EXCEPT ![p] = Idle(r.ip, r.name)]
              /\ Answer(p, "wrong")
              /\ UNCHANGED since
           \/ /\ req' = [req EXCEPT ![p].pc = "clear"]
              /\ reply' = Silent(p)
              /\ since' = [since EXCEPT ![p] = [k \in Key |-> 0]]
        /\ UNCHANGED <<counter, passed, faults>>

\* Mutant: the counter of the user name is left alone.
LastClearedIp == "ip"

LastCleared == "name"

\* The request once a delete returned: the other counter, or create_session.
Cleared(p, requests) ==
    LET r == req[p]
    IN  IF r.at = LastCleared
        THEN /\ req' = [requests EXCEPT ![p] = Idle(r.ip, r.name)]
             /\ Answer(p, "success")
        ELSE /\ req' = [requests EXCEPT ![p] = [r EXCEPT !.at = "name"]]
             /\ reply' = Silent(p)

Clear(p) ==
    LET k == KeyOf(req[p])
    IN  /\ req[p].pc = "clear"
        /\ counter' = [counter EXCEPT ![k] = Gone]
        /\ passed' = [passed EXCEPT ![k] = 0]
        /\ Cleared(p, Detached(k))
        /\ UNCHANGED <<since, faults>>

-----------------------------------------------------------------------------
\* increment returns 0 when it fails, unless it is Redis's and fails closed.
Swallows == FailOpen \/ backend = "memcached"

\* increment fails, having taken effect or not.  When it raises, the attempt is
\* allowed at once: track_login_attempt turns the exception into (True, None).
FailCount(p) ==
    LET k == KeyOf(req[p])
        r == [req[p] EXCEPT !.counted = @ \ {k}]
    IN  /\ r.pc \in {"count", "store"} /\ faults < MaxFaults
        /\ \/ UNCHANGED <<counter, since>>
           \/ r.pc = "count" /\ backend = "redis" /\ Put(k, Plus(counter[k].count)) /\ Counted(k)
           \/ r.pc = "store" /\ Put(k, r.read) /\ UNCHANGED since
        /\ \/ Swallows /\ Returned(p, r, 0)
           \/ ~Swallows /\ PassOn(p, [r EXCEPT !.counted = {}]) /\ reply' = Silent(p)
        /\ faults' = faults + 1

\* A delete that fails returns False, which nobody looks at.
FailClear(p) ==
    LET k == KeyOf(req[p])
    IN  /\ req[p].pc = "clear" /\ faults < MaxFaults
        /\ Cleared(p, req)
        /\ faults' = faults + 1
        /\ UNCHANGED <<counter, passed, since>>

\* Time passes, and counters whose time is over are gone.
Tick ==
    LET ending == {k \in Key : counter[k].ttl = 1}
    IN  /\ \E k \in Key : counter[k].ttl > 0
        /\ counter' = [k \in Key |-> IF k \in ending THEN Gone
                                     ELSE IF counter[k].ttl = 0 THEN counter[k]
                                     ELSE [counter[k] EXCEPT !.ttl = @ - 1]]
        /\ passed' = [k \in Key |-> IF k \in ending THEN 0 ELSE passed[k]]
        /\ req' = [p \in Proc |-> [req[p] EXCEPT !.counted = @ \ ending]]
        /\ reply' = Silent(reply.by)
        /\ UNCHANGED <<since, faults>>

Step(p) == Count(p) \/ Read(p) \/ Store(p) \/ Verify(p) \/ Clear(p)

Next ==
    /\ Tick \/ \E p \in Proc : Attempt(p) \/ Step(p) \/ FailCount(p) \/ FailClear(p)
    /\ UNCHANGED backend

Spec == Init /\ [][Next]_vars

\* A coroutine whose reply has arrived is resumed, and time passes.
FairSpec ==
    /\ Spec
    /\ WF_vars(Tick /\ UNCHANGED backend)
    /\ \A p \in Proc : WF_vars(Step(p) /\ UNCHANGED backend)

-----------------------------------------------------------------------------
(* Properties.                                                             *)

TypeOK ==
    /\ backend \in Backends
    /\ counter \in [Key -> Counter]
    /\ req \in [Proc -> Request]
    /\ reply \in Reply
    /\ passed \in [Key -> 0 .. Cap] /\ since \in [Proc -> [Key -> 0 .. Cap]]
    /\ faults \in 0 .. MaxFaults

\* "login_max_attempts: Maximum failed login attempts before rate limiting": from the
\* moment a counter appears until it expires or is cleared, however requests
\* interleave, at most login_max_attempts of the attempts it counted without an
\* error reach the password check.  On Memcached concurrent attempts are lost.
AttemptsBounded == backend = "redis" => \A k \in Key : passed[k] <= MaxAttempts

\* A successful login forgives: when it answers, neither counter holds an attempt
\* that had been counted before the password was found right.  On Memcached an
\* increment in flight brings the counter back.
SuccessClears ==
    backend = "redis" /\ reply.kind = "success" /\ faults = 0 =>
        \A k \in Keys(req[reply.by]) : counter[k].count <= since[reply.by][k]

\* "further login attempts will be temporarily blocked": a counter nobody uses any
\* more goes away, so a block ends once the address and the name are left alone.
Uses(p, k)  == req[p].pc # "idle" /\ k \in Keys(req[p])
LockoutEnds == \A k \in Key : <>[](\A p \in Proc : ~Uses(p, k)) => <>[](counter[k].count = 0)

=============================================================================
