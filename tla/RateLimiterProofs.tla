------------------------- MODULE RateLimiterProofs -------------------------
(***************************************************************************)
(* Proofs about RateLimiter for every set of keys and calls, every limit,  *)
(* period and failure policy: type correctness, that nobody is refused too *)
(* early, and the bounds on what a window admits on Redis; and, when all    *)
(* callers that override the failure policy ask for the same one, that the *)
(* override is undone however their calls overlap.                         *)
(***************************************************************************)
EXTENDS RateLimiter, TLAPS

\* A running call started in the window it counts in and has not run too long.
Sound(r, t, b) ==
    r.pc # "idle" =>
        /\ r.began <= t /\ t <= r.began + MaxLatency
        /\ r.op = "check" => /\ r.slot \in Window
                             /\ r.slot <= r.began /\ r.began < r.slot + Period
        /\ r.op # "check" => r.slot = Bare
        /\ r.pc = "set" => b = "memcached" /\ r.op \in {"check", "increment"}

CallsSound == \A p \in Proc : Sound(req[p], now, backend)

\* No counter, stored or read and about to be stored, exceeds the checks counted.
StoredServed  == \A k \in Key, w \in Window : store[k][w].count <= served[k][w]
PendingServed == \A p \in Proc : req[p].pc = "set" /\ req[p].op = "check" =>
                     req[p].count <= served[req[p].key][req[p].slot]

\* While window w lasts (t < w + Period), counter c is there and covers tally a.
CoversInside(c, a, w, t) ==
    /\ a.inside <= Limit
    /\ t < w + Period => a.inside <= c.count /\ (c.count > 0 => c.exp >= w + Period)

\* Once a late request was let through, c covers the late ones for another period.
CoversLate(c, a, w, t) ==
    /\ a.late <= Limit
    /\ t < w + Period => a.late = 0
    /\ a.late > 0 => a.late <= c.count /\ c.exp >= w + Period + Period

InsideCovered == \A k \in Key, w \in Window : CoversInside(store[k][w], admitted[k][w], w, now)
LateCovered   == \A k \in Key, w \in Window : CoversLate(store[k][w], admitted[k][w], w, now)

SInv == TypeOK /\ CallsSound
CInv == SInv /\ StoredServed /\ PendingServed /\ LimitedOnlyAfterLimit

-----------------------------------------------------------------------------
(* Lemmas about the operators.                                             *)

\* The window a time falls in.
LEMMA WindowOf ==
  ASSUME NEW t \in 0 .. MaxTime
  PROVE  /\ WindowStart(t) \in Window
         /\ WindowStart(t) <= t /\ t < WindowStart(t) + Period
  <1>. DEFINE m == t % Period
              q == t \div Period
  <1>1. m \in 0 .. Period - 1 /\ t = Period * q + m /\ q \in Int
    BY LimitAssumption, BoundAssumption
  <1>2. t - m \in 0 .. MaxTime
    <2>1. m <= t
      <3>1. q >= 0
        <4>1. SUFFICES ASSUME q <= -1 PROVE FALSE
          BY <1>1
        <4>2. Period * q <= -Period
          BY <4>1, <1>1, LimitAssumption
        <4>3. QED
          BY <4>2, <1>1, LimitAssumption
      <3>2. Period * q >= 0
        BY <3>1, <1>1, LimitAssumption
      <3>3. QED
        BY <3>2, <1>1, LimitAssumption
    <2>2. QED
      BY <2>1, <1>1, BoundAssumption
  <1>3. (t - m) % Period = 0
    <2>1. t - m = Period * q
      BY <1>1, LimitAssumption
    <2>2. (Period * q) % Period = 0
      BY <1>1, LimitAssumption
    <2>3. QED
      BY <2>1, <2>2
  <1>4. QED
    BY <1>1, <1>2, <1>3, LimitAssumption, BoundAssumption DEF WindowStart, Window

LEMMA SlotFacts == Bare \in Slot /\ Bare \notin Window /\ Window \subseteq Slot /\ Window \subseteq Nat
  BY BoundAssumption DEF Bare, Slot, Window

LEMMA IdleType == ASSUME NEW k \in Key PROVE Idle(k) \in Request
  BY PolicyAssumption, SlotFacts DEF Idle, Request, Op, Policy

LEMMA SilenceType == ASSUME NEW k \in Key PROVE Silence(k) \in Answers
  BY PolicyAssumption, SlotFacts DEF Silence, Answers, Op, Policy

LEMMA ValueType ==
  ASSUME TypeOK, NEW k \in Key, NEW w \in Slot
  PROVE  Value(k, w) \in Nat /\ Value(k, w) <= store[k][w].count
  BY DEF TypeOK, Value, Counter

\* Storing n changes one counter and leaves every other one alone.
LEMMA PutEffect ==
  ASSUME TypeOK, NEW k \in Key, NEW w \in Slot, NEW n \in Nat, Put(k, w, n)
  PROVE  /\ store' \in [Key -> [Slot -> Counter]]
         /\ store'[k][w] = [count |-> n, exp |-> Expiry(w)]
         /\ \A l \in Key, v \in Slot : l # k \/ v # w => store'[l][v] = store[l][v]
  <1>1. Expiry(w) \in Nat
    BY LimitAssumption, BoundAssumption DEF TypeOK, Expiry
  <1>2. [count |-> n, exp |-> Expiry(w)] \in Counter
    BY <1>1 DEF Counter
  <1>3. QED
    BY <1>2 DEF TypeOK, Put

LEMMA DeleteEffect ==
  ASSUME TypeOK, NEW k \in Key, Delete(k)
  PROVE  /\ store' \in [Key -> [Slot -> Counter]]
         /\ \A l \in Key, v \in Window : store'[l][v] = store[l][v]
  <1>1. [count |-> 0, exp |-> 0] \in Counter
    BY DEF Counter
  <1>2. QED
    BY <1>1, SlotFacts DEF TypeOK, Delete

\* Counting a check changes one entry of the history.
LEMMA ServeEffect ==
  ASSUME TypeOK, NEW p \in Proc, req[p].op = "check" => req[p].slot \in Window, Serve(req[p])
  PROVE  /\ served' \in [Key -> [Window -> Nat]]
         /\ \A k \in Key, w \in Window : served'[k][w] >= served[k][w]
         /\ req[p].op = "check" =>
              served'[req[p].key][req[p].slot] = served[req[p].key][req[p].slot] + 1
  <1>. DEFINE k == req[p].key
              w == req[p].slot
  <1>1. k \in Key
    BY DEF TypeOK, Request
  <1>2. CASE req[p].op # "check"
    BY <1>2 DEF Serve, TypeOK
  <1>3. CASE req[p].op = "check"
    <2>1. w \in Window /\ served[k][w] \in Nat
      BY <1>1, <1>3 DEF TypeOK
    <2>2. served' = [served EXCEPT ![k][w] = served[k][w] + 1]
      BY <1>3 DEF Serve
    <2>3. QED
      BY <2>1, <2>2, <1>1, <1>3 DEF TypeOK
  <1>4. QED
    BY <1>2, <1>3

\* Ending a call keeps the types of the call, the policy and the answer.
LEMMA FinishEffect ==
  ASSUME TypeOK, NEW p \in Proc, NEW a, a.value \in Nat, a.limited \in BOOLEAN,
         a.failed \in BOOLEAN, Finish(p, a)
  PROVE  /\ req' \in [Proc -> Request] /\ failOpen' \in Policy /\ reply' \in Answers
         /\ req'[p].pc = "idle"
         /\ \A q \in Proc : q # p => req'[q] = req[q]
  <1>1. req[p] \in Request /\ req[p].key \in Key
    BY DEF TypeOK, Request
  <1>2. req' = [req EXCEPT ![p] = Idle(req[p].key)]
    BY DEF Finish
  <1>3. Idle(req[p].key) \in Request /\ Idle(req[p].key).pc = "idle"
    BY <1>1, IdleType DEF Idle
  <1>4. failOpen' \in Policy
    BY <1>1 DEF Finish, Restored, TypeOK, Request
  <1>5. reply' \in Answers
    BY <1>1 DEF Finish, Answers, Request
  <1>6. QED
    BY <1>2, <1>3, <1>4, <1>5 DEF TypeOK

\* Admitting a request adds one to its tally and leaves every other one alone.
LEMMA AdmitEffect ==
  ASSUME TypeOK, NEW k \in Key, NEW w \in Window, Admit(k, w)
  PROVE  /\ admitted' \in [Key -> [Window -> Tally]]
         /\ \A l \in Key, v \in Window : l # k \/ v # w => admitted'[l][v] = admitted[l][v]
         /\ now < w + Period =>
              /\ admitted'[k][w].inside = admitted[k][w].inside + 1
              /\ admitted'[k][w].late = admitted[k][w].late
         /\ ~(now < w + Period) =>
              /\ admitted'[k][w].inside = admitted[k][w].inside
              /\ admitted'[k][w].late = admitted[k][w].late + 1
  <1>. DEFINE a == admitted[k][w]
  <1>1. a \in Tally /\ a.inside \in Nat /\ a.late \in Nat
    BY DEF TypeOK, Tally
  <1>2. CASE now < w + Period
    <2>. DEFINE b == [a EXCEPT !.inside = a.inside + 1]
    <2>1. admitted' = [admitted EXCEPT ![k][w] = b]
      BY <1>2 DEF Admit
    <2>2. b \in Tally /\ b.inside = a.inside + 1 /\ b.late = a.late
      BY <1>1 DEF Tally
    <2>. HIDE DEF b
    <2>3. QED
      BY <2>1, <2>2, <1>2 DEF TypeOK
  <1>3. CASE ~(now < w + Period)
    <2>. DEFINE b == [a EXCEPT !.late = a.late + 1]
    <2>1. admitted' = [admitted EXCEPT ![k][w] = b]
      BY <1>3 DEF Admit
    <2>2. b \in Tally /\ b.inside = a.inside /\ b.late = a.late + 1
      BY <1>1 DEF Tally
    <2>. HIDE DEF b
    <2>3. QED
      BY <2>1, <2>2, <1>3 DEF TypeOK
  <1>4. QED
    BY <1>2, <1>3

\* Answering a call that counted n: who is admitted, and the types.
LEMMA AnswerEffect ==
  ASSUME TypeOK, CallsSound, NEW p \in Proc, NEW n \in Nat, req[p].pc # "idle", Answer(p, n)
  PROVE  /\ req' \in [Proc -> Request] /\ failOpen' \in Policy /\ reply' \in Answers
         /\ admitted' \in [Key -> [Window -> Tally]]
         /\ req'[p].pc = "idle"
         /\ \A q \in Proc : q # p => req'[q] = req[q]
         /\ IF req[p].op = "check" /\ n <= Limit THEN Admit(req[p].key, req[p].slot)
                                                ELSE UNCHANGED admitted
         /\ reply'.op = req[p].op /\ reply'.key = req[p].key /\ reply'.slot = req[p].slot
         /\ reply'.limited <=> req[p].op = "check" /\ n > Limit
  <1>. DEFINE a == [value |-> n, limited |-> req[p].op = "check" /\ Limited(n), failed |-> FALSE]
  <1>1. Finish(p, a)
    BY DEF Answer
  <1>2. a.value \in Nat /\ a.limited \in BOOLEAN /\ a.failed \in BOOLEAN
    BY DEF Limited
  <1>3. /\ req' \in [Proc -> Request] /\ failOpen' \in Policy /\ reply' \in Answers
        /\ req'[p].pc = "idle" /\ \A q \in Proc : q # p => req'[q] = req[q]
    <2>. HIDE DEF a
    <2>. QED
      BY <1>1, <1>2, FinishEffect
  <1>4. Limited(n) <=> ~(n <= Limit)
    BY LimitAssumption DEF Limited
  <1>5. IF req[p].op = "check" /\ n <= Limit THEN Admit(req[p].key, req[p].slot)
                                            ELSE UNCHANGED admitted
    BY <1>4 DEF Answer
  <1>6. admitted' \in [Key -> [Window -> Tally]]
    <2>1. req[p].key \in Key /\ (req[p].op = "check" => req[p].slot \in Window)
      BY DEF TypeOK, Request, CallsSound, Sound
    <2>2. QED
      BY <1>5, <2>1, AdmitEffect DEF TypeOK
  <1>7. /\ reply'.op = req[p].op /\ reply'.key = req[p].key /\ reply'.slot = req[p].slot
        /\ reply'.limited <=> req[p].op = "check" /\ n > Limit
    <2>1. /\ reply'.op = req[p].op /\ reply'.key = req[p].key /\ reply'.slot = req[p].slot
          /\ reply'.limited = a.limited
      <3>. HIDE DEF a
      <3>. QED
        BY <1>1 DEF Finish
    <2>2. n > Limit <=> ~(n <= Limit)
      BY LimitAssumption
    <2>3. QED
      BY <2>1, <2>2, <1>4
  <1>8. QED
    BY <1>3, <1>5, <1>6, <1>7

-----------------------------------------------------------------------------
(* Type correctness.                                                       *)

LEMMA InitSound == Init => SInv
  <1>1. SUFFICES ASSUME Init PROVE SInv
    OBVIOUS
  <1>2. PICK k \in Key : req = [p \in Proc |-> Idle(k)] /\ reply = Silence(k)
    BY <1>1 DEF Init
  <1>3. req \in [Proc -> Request] /\ reply \in Answers /\ CallsSound
    BY <1>2, IdleType, SilenceType DEF Idle, CallsSound, Sound
  <1>4. TypeOK
    BY <1>1, <1>3, PolicyAssumption, BoundAssumption DEF Init, TypeOK, Counter, Tally
  <1>5. QED
    BY <1>3, <1>4 DEF SInv

\* Each action keeps the types, and the calls in flight in their windows.
LEMMA StepSound == SInv /\ [Next]_vars => SInv'
  <1>. SUFFICES ASSUME SInv, [Next]_vars PROVE SInv'
    OBVIOUS
  <1>. USE DEF SInv
  <1>a. \A p \in Proc : req[p] \in Request /\ req[p].key \in Key
    BY DEF TypeOK, Request
  <1>b. \A q \in Proc : Sound(req[q], now, backend)
    BY DEF CallsSound
  <1>c. \A r : r.pc = "idle" => Sound(r, now, backend)
    BY DEF Sound
  <1>1. CASE Tick
    <2>1. now' \in 0 .. MaxTime /\ now' = now + 1
      BY <1>1, BoundAssumption DEF Tick, TypeOK
    <2>2. TypeOK'
      <3>1. reply.key \in Key
        BY DEF TypeOK, Answers
      <3>2. reply' \in Answers
        BY <1>1, <3>1, SilenceType DEF Tick
      <3>3. QED
        BY <1>1, <2>1, <3>2 DEF Tick, TypeOK
    <2>3. CallsSound'
      <3>1. SUFFICES ASSUME NEW p \in Proc PROVE Sound(req[p], now + 1, backend)
        BY <1>1, <2>1 DEF CallsSound, Tick
      <3>2. req[p].began \in Nat /\ now \in Nat
        BY <1>a, BoundAssumption DEF Request, TypeOK
      <3>3. req[p].pc # "idle" => now < req[p].began + MaxLatency
        BY <1>1 DEF Tick
      <3>4. QED
        BY <1>b, <3>2, <3>3, BoundAssumption DEF Sound
    <2>4. QED
      BY <2>2, <2>3
  <1>2. ASSUME NEW p \in Proc, Check(p) PROVE SInv'
    <2>1. PICK k \in Key, o \in Override :
             LET w == WindowStart(now)
             IN  /\ failOpen' = IF Overrides(o) THEN o ELSE failOpen
                 /\ req' = [req EXCEPT ![p] = [Idle(k) EXCEPT !.pc = "call", !.slot = w, !.began = now,
                        !.original = IF Overrides(o) THEN failOpen ELSE "none"]]
                 /\ reply' = Silence(k)
                 /\ UNCHANGED <<backend, now, store, served, admitted, faults>>
      BY <1>2 DEF Check
    <2>. DEFINE w == WindowStart(now)
                original == IF Overrides(o) THEN failOpen ELSE "none"
                r == [Idle(k) EXCEPT !.pc = "call", !.slot = w, !.began = now,
                                     !.original = original]
    <2>2. w \in Window /\ w <= now /\ now < w + Period
      BY WindowOf DEF TypeOK
    <2>3. /\ r \in Request /\ r.pc = "call" /\ r.op = "check" /\ r.slot = w /\ r.began = now
      <3>1. original \in Policy \cup {"none"}
        BY DEF TypeOK
      <3>2. w \in Slot /\ now \in Nat
        <4>. HIDE DEF w
        <4>1. w \in Slot
          BY <2>2, SlotFacts
        <4>2. now \in Nat
          BY BoundAssumption DEF TypeOK
        <4>3. QED
          BY <4>1, <4>2
      <3>3. Idle(k) \in Request /\ Idle(k).op = "check"
        <4>1. Idle(k) \in Request
          BY IdleType
        <4>2. QED
          BY <4>1 DEF Idle
      <3>. HIDE DEF w, original
      <3>4. QED
        BY <3>1, <3>2, <3>3 DEF Request
    <2>4. Sound(r, now, backend)
      <3>. HIDE DEF r, w
      <3>. QED
        BY <2>2, <2>3, BoundAssumption DEF Sound, TypeOK
    <2>5. failOpen' \in Policy
      BY <2>1, PolicyAssumption DEF TypeOK, Overrides
    <2>6. req' = [req EXCEPT ![p] = r] /\ reply' \in Answers
      BY <2>1, SilenceType
    <2>. HIDE DEF r, w
    <2>7. TypeOK'
      BY <2>1, <2>3, <2>5, <2>6 DEF TypeOK
    <2>8. CallsSound'
      BY <2>1, <2>4, <2>6, <1>b DEF CallsSound, TypeOK
    <2>9. QED
      BY <2>7, <2>8
  <1>3. ASSUME NEW p \in Proc, Call(p) PROVE SInv'
    <2>1. PICK k \in Key, op \in Ops \ {"check"} :
             /\ req' = [req EXCEPT ![p] = [Idle(k) EXCEPT !.pc = "call", !.op = op, !.began = now]]
             /\ reply' = Silence(k)
             /\ UNCHANGED <<backend, now, store, failOpen, served, admitted, faults>>
      BY <1>3 DEF Call
    <2>. DEFINE r == [Idle(k) EXCEPT !.pc = "call", !.op = op, !.began = now]
    <2>2. r \in Request /\ r.pc = "call" /\ r.op = op /\ r.began = now /\ r.slot = Bare
      <3>1. Idle(k) \in Request /\ op \in Op /\ now \in Nat
        BY IdleType, OpsAssumption, BoundAssumption DEF TypeOK
      <3>2. Idle(k).slot = Bare
        BY DEF Idle
      <3>3. QED
        BY <3>1, <3>2 DEF Request
    <2>3. Sound(r, now, backend)
      <3>. HIDE DEF r
      <3>. QED
        BY <2>2, BoundAssumption DEF Sound, TypeOK
    <2>4. req' = [req EXCEPT ![p] = r] /\ reply' \in Answers
      BY <2>1, SilenceType
    <2>. HIDE DEF r
    <2>5. TypeOK'
      BY <2>1, <2>2, <2>4 DEF TypeOK
    <2>6. CallsSound'
      BY <2>1, <2>3, <2>4, <1>b DEF CallsSound, TypeOK
    <2>7. QED
      BY <2>5, <2>6
  <1>4. ASSUME NEW p \in Proc, Bump(p) PROVE SInv'
    <2>. DEFINE r == req[p]
                n == Value(r.key, r.slot) + 1
    <2>1. r.key \in Key /\ r.slot \in Slot /\ (r.op = "check" => r.slot \in Window) /\ r.pc # "idle"
      BY <1>4, <1>a, <1>b DEF Request, Sound, Bump
    <2>2. n \in Nat
      BY <2>1, ValueType
    <2>3. store' \in [Key -> [Slot -> Counter]] /\ served' \in [Key -> [Window -> Nat]]
      <3>1. Put(r.key, r.slot, n) /\ Serve(r)
        BY <1>4 DEF Bump
      <3>2. QED
        BY <3>1, <2>1, <2>2, PutEffect, ServeEffect
    <2>4. Answer(p, n)
      BY <1>4 DEF Bump
    <2>. HIDE DEF n
    <2>5. /\ req' \in [Proc -> Request] /\ failOpen' \in Policy /\ reply' \in Answers
          /\ admitted' \in [Key -> [Window -> Tally]]
          /\ req'[p].pc = "idle" /\ \A q \in Proc : q # p => req'[q] = req[q]
      BY <2>1, <2>2, <2>4, AnswerEffect
    <2>6. QED
      BY <1>4, <1>b, <1>c, <2>3, <2>5 DEF Bump, TypeOK, CallsSound
  <1>5. ASSUME NEW p \in Proc, Get(p) PROVE SInv'
    <2>. DEFINE r == req[p]
                n == Value(r.key, r.slot) + 1
                s == [r EXCEPT !.pc = "set", !.count = n]
    <2>1. r.key \in Key /\ r.slot \in Slot /\ (r.op = "check" => r.slot \in Window)
      BY <1>5, <1>a, <1>b DEF Request, Sound, Get
    <2>2. n \in Nat
      BY <2>1, ValueType
    <2>3. served' \in [Key -> [Window -> Nat]]
      BY <1>5, <2>1, ServeEffect DEF Get
    <2>4. req' = [req EXCEPT ![p] = s]
      BY <1>5, <1>a DEF Get, TypeOK
    <2>5. s \in Request
      <3>. HIDE DEF n
      <3>. QED
        BY <1>a, <2>2 DEF Request
    <2>6. Sound(s, now, backend)
      <3>1. /\ r \in Request /\ r.pc = "call" /\ backend = "memcached"
            /\ r.op \in {"check", "increment"} /\ Sound(r, now, backend)
        BY <1>5, <1>a, <1>b DEF Get
      <3>2. s.began = r.began /\ s.op = r.op /\ s.slot = r.slot /\ s.pc = "set"
        BY <3>1 DEF Request
      <3>. HIDE DEF r, s
      <3>3. QED
        BY <3>1, <3>2 DEF Sound
    <2>7. reply' \in Answers
      BY <1>5, <2>1, SilenceType DEF Get
    <2>. HIDE DEF s
    <2>8. QED
      BY <1>5, <1>b, <2>3, <2>4, <2>5, <2>6, <2>7 DEF Get, TypeOK, CallsSound
  <1>6. ASSUME NEW p \in Proc, Set(p) PROVE SInv'
    <2>1. /\ req[p].key \in Key /\ req[p].slot \in Slot /\ req[p].count \in Nat
          /\ req[p].pc # "idle"
      BY <1>6, <1>a DEF Request, Set
    <2>2. store' \in [Key -> [Slot -> Counter]]
      BY <1>6, <2>1, PutEffect DEF Set
    <2>3. /\ req' \in [Proc -> Request] /\ failOpen' \in Policy /\ reply' \in Answers
          /\ admitted' \in [Key -> [Window -> Tally]]
          /\ req'[p].pc = "idle" /\ \A q \in Proc : q # p => req'[q] = req[q]
      BY <1>6, <2>1, AnswerEffect DEF Set
    <2>4. QED
      BY <1>6, <1>b, <1>c, <2>2, <2>3 DEF Set, TypeOK, CallsSound
  <1>7. ASSUME NEW p \in Proc, GetCount(p) PROVE SInv'
    <2>. DEFINE n == Value(req[p].key, Bare)
    <2>1. n \in Nat /\ req[p].pc # "idle"
      BY <1>7, <1>a, ValueType, SlotFacts DEF GetCount
    <2>2. Answer(p, n)
      BY <1>7 DEF GetCount
    <2>. HIDE DEF n
    <2>3. /\ req' \in [Proc -> Request] /\ failOpen' \in Policy /\ reply' \in Answers
          /\ admitted' \in [Key -> [Window -> Tally]]
          /\ req'[p].pc = "idle" /\ \A q \in Proc : q # p => req'[q] = req[q]
      BY <2>1, <2>2, AnswerEffect
    <2>4. QED
      BY <1>7, <1>b, <1>c, <2>3 DEF GetCount, TypeOK, CallsSound
  <1>8. ASSUME NEW p \in Proc, Reset(p) PROVE SInv'
    <2>1. store' \in [Key -> [Slot -> Counter]] /\ req[p].pc # "idle"
      BY <1>8, <1>a, DeleteEffect DEF Reset
    <2>2. /\ req' \in [Proc -> Request] /\ failOpen' \in Policy /\ reply' \in Answers
          /\ admitted' \in [Key -> [Window -> Tally]]
          /\ req'[p].pc = "idle" /\ \A q \in Proc : q # p => req'[q] = req[q]
      BY <1>8, <2>1, AnswerEffect DEF Reset
    <2>3. QED
      BY <1>8, <1>b, <1>c, <2>1, <2>2 DEF Reset, TypeOK, CallsSound
  <1>9. ASSUME NEW p \in Proc, Fail(p) PROVE SInv'
    <2>. DEFINE r == req[p]
                n == Value(r.key, r.slot) + 1
                a == [value |-> 0, limited |-> r.op = "check" /\ Refuses, failed |-> TRUE]
    <2>1. /\ r.key \in Key /\ r.slot \in Slot /\ r.count \in Nat /\ n \in Nat
          /\ (r.op = "check" => r.slot \in Window)
      BY <1>9, <1>a, <1>b, ValueType DEF Request, Sound, Fail
    <2>2. Finish(p, a)
      BY <1>9 DEF Fail
    <2>3. a.value \in Nat /\ a.limited \in BOOLEAN /\ a.failed \in BOOLEAN
      OBVIOUS
    <2>4. store' \in [Key -> [Slot -> Counter]] /\ served' \in [Key -> [Window -> Nat]]
      <3>1. CASE UNCHANGED <<store, served>>
        BY <3>1 DEF TypeOK
      <3>2. CASE Put(r.key, r.slot, n) /\ Serve(r)
        BY <3>2, <2>1, PutEffect, ServeEffect
      <3>3. CASE Put(r.key, r.slot, r.count) /\ UNCHANGED served
        BY <3>3, <2>1, PutEffect DEF TypeOK
      <3>4. CASE Delete(r.key) /\ UNCHANGED served
        BY <3>4, <2>1, DeleteEffect DEF TypeOK
      <3>5. QED
        BY <1>9, <3>1, <3>2, <3>3, <3>4 DEF Fail
    <2>. HIDE DEF a
    <2>5. /\ req' \in [Proc -> Request] /\ failOpen' \in Policy /\ reply' \in Answers
          /\ req'[p].pc = "idle" /\ \A q \in Proc : q # p => req'[q] = req[q]
      BY <2>2, <2>3, FinishEffect
    <2>6. QED
      BY <1>9, <1>b, <1>c, <2>4, <2>5 DEF Fail, TypeOK, CallsSound
  <1>10. CASE UNCHANGED vars
    BY <1>10, <1>b DEF vars, TypeOK, CallsSound
  <1>11. QED
    BY <1>1, <1>2, <1>3, <1>4, <1>5, <1>6, <1>7, <1>8, <1>9, <1>10 DEF Next, Step

\* Every state of the limiter has the types of the model, whatever the backend,
\* the policies, the keys and the number of calls in flight.
THEOREM TypeCorrect == Spec => []TypeOK
  <1>1. SInv => TypeOK
    BY DEF SInv
  <1>2. QED
    BY InitSound, StepSound, <1>1, PTL DEF Spec

-----------------------------------------------------------------------------
(* Nobody is refused before limit others were counted.                     *)

\* Storing a count the history covers keeps every counter covered.
LEMMA PutServed ==
  ASSUME TypeOK, StoredServed, NEW p \in Proc, Sound(req[p], now, backend), req[p].pc # "idle", NEW n \in Nat,
         Put(req[p].key, req[p].slot, n),
         served' \in [Key -> [Window -> Nat]],
         \A k \in Key, w \in Window : served'[k][w] >= served[k][w],
         req[p].op = "check" => n <= served'[req[p].key][req[p].slot]
  PROVE  StoredServed'
  <1>. DEFINE k == req[p].key
              w == req[p].slot
  <1>1. k \in Key /\ w \in Slot
    BY DEF TypeOK, Request
  <1>2. req[p].op = "check" \/ w = Bare
    BY DEF Sound
  <1>3. SUFFICES ASSUME NEW l \in Key, NEW v \in Window PROVE store'[l][v].count <= served'[l][v]
    BY DEF StoredServed
  <1>4. v \in Slot /\ v # Bare /\ store[l][v].count \in Nat /\ served[l][v] \in Nat /\ served'[l][v] \in Nat
    BY SlotFacts DEF TypeOK, Counter
  <1>p. /\ store'[k][w] = [count |-> n, exp |-> Expiry(w)]
        /\ \A m \in Key, u \in Slot : m # k \/ u # w => store'[m][u] = store[m][u]
    BY <1>1, PutEffect
  <1>5. CASE l # k \/ v # w
    <2>1. store'[l][v] = store[l][v]
      BY <1>4, <1>5, <1>p
    <2>2. QED
      BY <2>1, <1>4 DEF StoredServed
  <1>6. CASE l = k /\ v = w
    <2>1. store'[k][w].count = n
      BY <1>p
    <2>2. QED
      BY <2>1, <1>2, <1>4, <1>6
  <1>7. QED
    BY <1>5, <1>6

\* A step that ends call p, or makes it wait without a count, keeps the others'.
LEMMA PendingKept ==
  ASSUME TypeOK, PendingServed, CallsSound, NEW p \in Proc,
         served' \in [Key -> [Window -> Nat]],
         \A k \in Key, w \in Window : served'[k][w] >= served[k][w],
         req'[p].pc # "set",
         \A q \in Proc : q # p => req'[q] = req[q]
  PROVE  PendingServed'
  <1>1. SUFFICES ASSUME NEW q \in Proc, req'[q].pc = "set", req'[q].op = "check"
                 PROVE  req'[q].count <= served'[req'[q].key][req'[q].slot]
    BY DEF PendingServed
  <1>2. req'[q] = req[q] /\ req[q] \in Request /\ Sound(req[q], now, backend)
    BY <1>1 DEF TypeOK, CallsSound
  <1>3. req[q].key \in Key /\ req[q].slot \in Window /\ req[q].count \in Nat
    BY <1>1, <1>2 DEF Request, Sound
  <1>4. req[q].count <= served[req[q].key][req[q].slot]
    BY <1>1, <1>2 DEF PendingServed
  <1>5. QED
    BY <1>2, <1>3, <1>4 DEF TypeOK

LEMMA InitServed == Init => StoredServed /\ PendingServed /\ LimitedOnlyAfterLimit
  <1>1. SUFFICES ASSUME Init PROVE StoredServed /\ PendingServed /\ LimitedOnlyAfterLimit
    OBVIOUS
  <1>2. PICK k \in Key : req = [p \in Proc |-> Idle(k)] /\ reply = Silence(k)
    BY <1>1 DEF Init
  <1>3. StoredServed
    BY <1>1, SlotFacts DEF Init, StoredServed
  <1>4. QED
    BY <1>2, <1>3 DEF Idle, Silence, PendingServed, LimitedOnlyAfterLimit

\* Each action keeps the counters covered, and refuses only above the limit.
LEMMA StepServed ==
  ASSUME CInv, TypeOK', [Next]_vars
  PROVE  StoredServed' /\ PendingServed' /\ LimitedOnlyAfterLimit'
  <1>. USE DEF CInv, SInv
  <1>a. \A p \in Proc : /\ req[p] \in Request /\ req[p].key \in Key /\ req[p].slot \in Slot
                         /\ req[p].count \in Nat
    BY DEF TypeOK, Request
  <1>b. \A p \in Proc : Sound(req[p], now, backend)
    BY DEF CallsSound
  <1>c. served' \in [Key -> [Window -> Nat]]
    BY DEF TypeOK
  <1>d. \A k : Silence(k).op = "none"
    BY DEF Silence
  <1>e. ASSUME UNCHANGED served
        PROVE  \A k \in Key, w \in Window : served'[k][w] >= served[k][w]
    BY <1>e DEF TypeOK
  <1>1. CASE Tick
    BY <1>1, <1>d DEF Tick, StoredServed, PendingServed, LimitedOnlyAfterLimit
  <1>2. ASSUME NEW p \in Proc, Check(p) \/ Call(p)
        PROVE  StoredServed' /\ PendingServed' /\ LimitedOnlyAfterLimit'
    <2>1. req'[p].pc # "set" /\ \A q \in Proc : q # p => req'[q] = req[q]
      <3>1. CASE Check(p)
        <4>1. PICK k \in Key, o \in Override :
                 req' = [req EXCEPT ![p] = [Idle(k) EXCEPT !.pc = "call", !.slot = WindowStart(now),
                        !.began    = now,
                        !.original = IF Overrides(o) THEN failOpen ELSE "none"]]
          BY <3>1 DEF Check
        <4>. DEFINE original == IF Overrides(o) THEN failOpen ELSE "none"
        <4>2. req' = [req EXCEPT ![p] = [Idle(k) EXCEPT !.pc = "call", !.slot = WindowStart(now),
                        !.began = now, !.original = original]]
          BY <4>1
        <4>. HIDE DEF original
        <4>3. QED
          BY <4>2 DEF TypeOK, Idle
      <3>2. CASE Call(p)
        <4>1. PICK k \in Key, op \in Ops \ {"check"} :
                 req' = [req EXCEPT ![p] = [Idle(k) EXCEPT !.pc = "call", !.op = op, !.began = now]]
          BY <3>2 DEF Call
        <4>2. QED
          BY <4>1 DEF TypeOK, Idle
      <3>3. QED
        BY <1>2, <3>1, <3>2
    <2>2. UNCHANGED <<store, served>> /\ reply'.op = "none"
      BY <1>2, <1>d DEF Check, Call
    <2>3. PendingServed'
      BY <2>1, <2>2, <1>c, <1>e, PendingKept
    <2>4. QED
      BY <2>2, <2>3 DEF StoredServed, LimitedOnlyAfterLimit
  <1>3. ASSUME NEW p \in Proc, Bump(p)
        PROVE  StoredServed' /\ PendingServed' /\ LimitedOnlyAfterLimit'
    <2>. DEFINE r == req[p]
                n == Value(r.key, r.slot) + 1
    <2>1. n \in Nat /\ n <= store[r.key][r.slot].count + 1 /\ store[r.key][r.slot].count \in Nat
      BY <1>a, ValueType DEF TypeOK, Counter
    <2>2. /\ r.pc # "idle" /\ (r.op = "check" => r.slot \in Window)
          /\ Put(r.key, r.slot, n) /\ Serve(r) /\ Answer(p, n)
      BY <1>3, <1>b DEF Bump, Sound
    <2>3. /\ \A k \in Key, w \in Window : served'[k][w] >= served[k][w]
          /\ r.op = "check" => served'[r.key][r.slot] = served[r.key][r.slot] + 1
      BY <2>2, ServeEffect
    <2>4. r.op = "check" => n <= served'[r.key][r.slot]
      BY <1>a, <2>1, <2>2, <2>3 DEF StoredServed, TypeOK
    <2>. HIDE DEF n
    <2>5. StoredServed'
      BY <1>b, <1>c, <2>1, <2>2, <2>3, <2>4, PutServed
    <2>6. /\ req'[p].pc = "idle" /\ \A q \in Proc : q # p => req'[q] = req[q]
          /\ reply'.op = r.op /\ reply'.key = r.key /\ reply'.slot = r.slot
          /\ reply'.limited <=> r.op = "check" /\ n > Limit
      BY <2>1, <2>2, AnswerEffect
    <2>7. PendingServed'
      BY <2>3, <2>6, <1>c, PendingKept
    <2>8. LimitedOnlyAfterLimit'
      <3>1. r.op = "check" => served'[r.key][r.slot] \in Nat
        BY <1>a, <1>c, <2>2
      <3>2. QED
        BY <2>1, <2>4, <2>6, <3>1, LimitAssumption DEF LimitedOnlyAfterLimit
    <2>9. QED
      BY <2>5, <2>7, <2>8
  <1>4. ASSUME NEW p \in Proc, Get(p)
        PROVE  StoredServed' /\ PendingServed' /\ LimitedOnlyAfterLimit'
    <2>. DEFINE r == req[p]
                n == Value(r.key, r.slot) + 1
    <2>1. n \in Nat /\ n <= store[r.key][r.slot].count + 1 /\ store[r.key][r.slot].count \in Nat
      BY <1>a, ValueType DEF TypeOK, Counter
    <2>2. /\ r.op = "check" => r.slot \in Window
          /\ Serve(r) /\ store' = store /\ reply' = Silence(r.key)
          /\ req' = [req EXCEPT ![p] = [r EXCEPT !.pc = "set", !.count = n]]
      BY <1>4, <1>a, <1>b DEF Get, Sound, TypeOK
    <2>3. /\ \A k \in Key, w \in Window : served'[k][w] >= served[k][w]
          /\ r.op = "check" => served'[r.key][r.slot] = served[r.key][r.slot] + 1
      BY <2>2, ServeEffect
    <2>4. StoredServed'
      <3>1. SUFFICES ASSUME NEW k \in Key, NEW w \in Window PROVE store[k][w].count <= served'[k][w]
        BY <2>2 DEF StoredServed
      <3>2. store[k][w].count \in Nat /\ served[k][w] \in Nat /\ served'[k][w] \in Nat
        BY <1>c, SlotFacts DEF TypeOK, Counter
      <3>3. QED
        BY <2>3, <3>2 DEF StoredServed
    <2>5. PendingServed'
      <3>1. SUFFICES ASSUME NEW q \in Proc, req'[q].pc = "set", req'[q].op = "check"
                     PROVE  req'[q].count <= served'[req'[q].key][req'[q].slot]
        BY DEF PendingServed
      <3>2. CASE q = p
        <4>1. /\ req'[p].count = n /\ req'[p].key = r.key /\ req'[p].slot = r.slot /\ req'[p].op = r.op
          <5>. HIDE DEF n
          <5>. QED
            BY <2>2, <1>a DEF TypeOK, Request
        <4>2. n <= served'[r.key][r.slot]
          BY <3>1, <3>2, <4>1, <1>a, <2>1, <2>2, <2>3 DEF StoredServed, TypeOK
        <4>3. QED
          BY <3>2, <4>1, <4>2
      <3>3. CASE q # p
        <4>1. req'[q] = req[q]
          BY <2>2, <3>3 DEF TypeOK
        <4>2. /\ req[q].key \in Key /\ req[q].slot \in Window /\ req[q].count \in Nat
              /\ req[q].count <= served[req[q].key][req[q].slot]
          BY <3>1, <4>1, <1>a, <1>b DEF Sound, PendingServed
        <4>3. QED
          BY <4>1, <4>2, <2>3, <1>c DEF TypeOK
      <3>4. QED
        BY <3>2, <3>3
    <2>6. QED
      BY <2>2, <2>4, <2>5, <1>d DEF LimitedOnlyAfterLimit
  <1>5. ASSUME NEW p \in Proc, Set(p)
        PROVE  StoredServed' /\ PendingServed' /\ LimitedOnlyAfterLimit'
    <2>. DEFINE r == req[p]
    <2>1. /\ r.pc = "set" /\ Put(r.key, r.slot, r.count) /\ Answer(p, r.count)
          /\ served' = served
      BY <1>5 DEF Set
    <2>2. r.op = "check" => r.slot \in Window /\ r.count <= served'[r.key][r.slot]
      BY <2>1, <1>b DEF PendingServed, Sound
    <2>3. StoredServed'
      BY <1>a, <1>b, <1>c, <1>e, <2>1, <2>2, PutServed
    <2>4. /\ req'[p].pc = "idle" /\ \A q \in Proc : q # p => req'[q] = req[q]
          /\ reply'.op = r.op /\ reply'.key = r.key /\ reply'.slot = r.slot
          /\ reply'.limited <=> r.op = "check" /\ r.count > Limit
      BY <1>a, <2>1, AnswerEffect
    <2>5. PendingServed'
      BY <2>1, <2>4, <1>c, <1>e, PendingKept
    <2>6. LimitedOnlyAfterLimit'
      <3>1. r.op = "check" => served'[r.key][r.slot] \in Nat /\ r.count \in Nat
        BY <1>a, <1>c, <2>2
      <3>2. QED
        BY <2>2, <2>4, <3>1, LimitAssumption DEF LimitedOnlyAfterLimit
    <2>7. QED
      BY <2>3, <2>5, <2>6
  <1>6. ASSUME NEW p \in Proc, GetCount(p) \/ Reset(p)
        PROVE  StoredServed' /\ PendingServed' /\ LimitedOnlyAfterLimit'
    <2>1. PICK n \in Nat : Answer(p, n)
      BY <1>6, <1>a, ValueType, SlotFacts DEF GetCount, Reset
    <2>2. req[p].pc # "idle" /\ req[p].op # "check" /\ served' = served
      BY <1>6 DEF GetCount, Reset
    <2>3. \A k \in Key, w \in Window : store'[k][w] = store[k][w]
      <3>1. CASE GetCount(p)
        BY <3>1 DEF GetCount
      <3>2. CASE Reset(p)
        BY <3>2, <1>a, DeleteEffect DEF Reset
      <3>3. QED
        BY <1>6, <3>1, <3>2
    <2>4. /\ req'[p].pc = "idle" /\ \A q \in Proc : q # p => req'[q] = req[q]
          /\ reply'.op = req[p].op
      BY <2>1, <2>2, AnswerEffect
    <2>5. PendingServed'
      BY <2>2, <2>4, <1>c, <1>e, PendingKept
    <2>6. QED
      BY <2>2, <2>3, <2>4, <2>5 DEF StoredServed, LimitedOnlyAfterLimit
  <1>7. ASSUME NEW p \in Proc, Fail(p)
        PROVE  StoredServed' /\ PendingServed' /\ LimitedOnlyAfterLimit'
    <2>. DEFINE r == req[p]
                n == Value(r.key, r.slot) + 1
                a == [value |-> 0, limited |-> r.op = "check" /\ Refuses, failed |-> TRUE]
    <2>1. n \in Nat /\ n <= store[r.key][r.slot].count + 1 /\ store[r.key][r.slot].count \in Nat
      BY <1>a, ValueType DEF TypeOK, Counter
    <2>2. r.pc # "idle" /\ (r.op = "check" => r.slot \in Window) /\ Finish(p, a)
      BY <1>7, <1>b DEF Fail, Sound
    <2>3. /\ \A k \in Key, w \in Window : served'[k][w] >= served[k][w]
          /\ StoredServed'
      <3>1. CASE UNCHANGED <<store, served>>
        BY <3>1, <1>e DEF StoredServed
      <3>2. CASE Put(r.key, r.slot, n) /\ Serve(r)
        <4>1. /\ \A k \in Key, w \in Window : served'[k][w] >= served[k][w]
              /\ r.op = "check" => served'[r.key][r.slot] = served[r.key][r.slot] + 1
          BY <2>2, <3>2, ServeEffect
        <4>2. r.op = "check" => n <= served'[r.key][r.slot]
          BY <1>a, <2>1, <2>2, <4>1 DEF StoredServed, TypeOK
        <4>. HIDE DEF n
        <4>3. QED
          BY <1>b, <1>c, <2>1, <2>2, <3>2, <4>1, <4>2, PutServed
      <3>3. CASE r.pc = "set" /\ Put(r.key, r.slot, r.count) /\ UNCHANGED served
        <4>1. r.op = "check" => r.count <= served'[r.key][r.slot]
          BY <3>3 DEF PendingServed
        <4>2. QED
          BY <1>a, <1>b, <1>c, <1>e, <2>2, <3>3, <4>1, PutServed
      <3>4. CASE Delete(r.key) /\ UNCHANGED served
        BY <1>a, <1>e, <3>4, DeleteEffect DEF StoredServed
      <3>5. QED
        BY <1>7, <3>1, <3>2, <3>3, <3>4 DEF Fail
    <2>4. a.value \in Nat /\ a.limited \in BOOLEAN /\ a.failed \in BOOLEAN /\ a.failed
      OBVIOUS
    <2>. HIDE DEF a
    <2>5. req'[p].pc = "idle" /\ \A q \in Proc : q # p => req'[q] = req[q]
      BY <2>2, <2>4, FinishEffect
    <2>6. reply'.failed
      BY <2>2, <2>4 DEF Finish
    <2>7. PendingServed'
      BY <2>3, <2>5, <1>c, PendingKept
    <2>8. QED
      BY <2>3, <2>6, <2>7 DEF LimitedOnlyAfterLimit
  <1>8. CASE UNCHANGED vars
    BY <1>8 DEF vars, StoredServed, PendingServed, LimitedOnlyAfterLimit
  <1>9. QED
    BY <1>1, <1>2, <1>3, <1>4, <1>5, <1>6, <1>7, <1>8 DEF Next, Step

\* Concurrent calls, lost increments, errors and expiries may let too many
\* requests through, but they never make the limiter refuse one by count before
\* limit others were counted in its window, on Redis or on Memcached.
THEOREM NeverRefusedEarly == Spec => []LimitedOnlyAfterLimit
  <1>1. Init => CInv
    BY InitSound, InitServed DEF CInv
  <1>2. CInv /\ [Next]_vars => CInv'
    <2>1. SUFFICES ASSUME CInv, [Next]_vars PROVE CInv'
      OBVIOUS
    <2>2. SInv'
      BY <2>1, StepSound DEF CInv
    <2>3. QED
      BY <2>1, <2>2, StepServed DEF CInv, SInv
  <1>3. CInv => LimitedOnlyAfterLimit
    BY DEF CInv
  <1>4. QED
    BY <1>1, <1>2, <1>3, PTL DEF Spec

-----------------------------------------------------------------------------
(* What a window admits on Redis.                                          *)

\* One admitted request, counted at time t, on the tally of window w.
Tallied(a, b, w, t) ==
    IF t < w + Period THEN b.inside = a.inside + 1 /\ b.late = a.late
                      ELSE b.inside = a.inside /\ b.late = a.late + 1

\* INCR and EXPIRE at time t turn counter c into d; the answer, n, admits the
\* request (a becomes b) or does not (it is refused, or lost).
Counted(c, d, a, b, w, t) ==
    LET n == (IF c.exp > t THEN c.count ELSE 0) + 1
    IN  /\ d = [count |-> n, exp |-> t + Period]
        /\ b = a \/ (n <= Limit /\ Tallied(a, b, w, t))

LEMMA CountedInside ==
  ASSUME NEW c \in Counter, NEW d \in Counter, NEW a \in Tally, NEW b \in Tally,
         NEW w \in Nat, NEW t \in Nat, w <= t,
         CoversInside(c, a, w, t), Counted(c, d, a, b, w, t)
  PROVE  CoversInside(d, b, w, t)
  <1>. DEFINE n == (IF c.exp > t THEN c.count ELSE 0) + 1
  <1>1. /\ c.count \in Nat /\ c.exp \in Nat /\ a.inside \in Nat /\ b.inside \in Nat
        /\ d.count \in Nat /\ d.exp \in Nat /\ n \in Nat
    BY DEF Counter, Tally
  <1>2. d.count = n /\ d.exp = t + Period
    BY DEF Counted
  <1>3. t < w + Period => n = c.count + 1
    BY <1>1, LimitAssumption DEF CoversInside
  <1>4. b.inside = a.inside \/ (n <= Limit /\ t < w + Period /\ b.inside = a.inside + 1)
    BY DEF Counted, Tallied
  <1>. HIDE DEF n
  <1>5. QED
    BY <1>1, <1>2, <1>3, <1>4, LimitAssumption DEF CoversInside

LEMMA CountedLate ==
  ASSUME NEW c \in Counter, NEW d \in Counter, NEW a \in Tally, NEW b \in Tally,
         NEW w \in Nat, NEW t \in Nat, w <= t, t < w + Period + Period,
         CoversLate(c, a, w, t), Counted(c, d, a, b, w, t)
  PROVE  CoversLate(d, b, w, t)
  <1>. DEFINE n == (IF c.exp > t THEN c.count ELSE 0) + 1
  <1>1. /\ c.count \in Nat /\ c.exp \in Nat /\ a.late \in Nat /\ b.late \in Nat
        /\ d.count \in Nat /\ d.exp \in Nat /\ n \in Nat /\ n >= 1
    BY DEF Counter, Tally
  <1>2. d.count = n /\ d.exp = t + Period
    BY DEF Counted
  <1>3. a.late > 0 => n = c.count + 1
    BY <1>1, LimitAssumption DEF CoversLate
  <1>4. b.late = a.late \/ (n <= Limit /\ ~(t < w + Period) /\ b.late = a.late + 1)
    BY DEF Counted, Tallied
  <1>. HIDE DEF n
  <1>5. QED
    BY <1>1, <1>2, <1>3, <1>4, LimitAssumption DEF CoversLate

\* On Redis a step leaves a window's counter and tally alone, or counts a
\* request that read the clock in that window, at most MaxLatency ago.
LEMMA WindowStep ==
  ASSUME backend = "redis", SInv, [Next]_vars, NEW k \in Key, NEW w \in Window
  PROVE  \/ /\ store'[k][w] = store[k][w] /\ admitted'[k][w] = admitted[k][w]
            /\ now' = now \/ now' = now + 1
         \/ /\ now' = now /\ w <= now /\ now < w + Period + MaxLatency
            /\ Counted(store[k][w], store'[k][w], admitted[k][w], admitted'[k][w], w, now)
  <1>. DEFINE Idles  == /\ store'[k][w] = store[k][w] /\ admitted'[k][w] = admitted[k][w]
                        /\ now' = now \/ now' = now + 1
              Counts == /\ now' = now /\ w <= now /\ now < w + Period + MaxLatency
                        /\ Counted(store[k][w], store'[k][w], admitted[k][w], admitted'[k][w], w, now)
  <1>. SUFFICES Idles \/ Counts
    OBVIOUS
  <1>. USE DEF SInv
  <1>a. w \in Slot /\ w # Bare /\ w \in Nat /\ now \in Nat
    BY SlotFacts, BoundAssumption DEF TypeOK
  <1>b. \A p \in Proc : /\ req[p] \in Request /\ req[p].key \in Key /\ req[p].slot \in Slot
                         /\ req[p].began \in Nat
    BY DEF TypeOK, Request
  <1>c. \A p \in Proc : Sound(req[p], now, backend) /\ req[p].pc # "set"
    BY DEF CallsSound, Sound
  <1>d. ASSUME NEW p \in Proc, req[p].pc # "idle", now' = now,
               Put(req[p].key, req[p].slot, Value(req[p].key, req[p].slot) + 1),
               \/ UNCHANGED admitted
               \/ /\ req[p].op = "check" /\ Value(req[p].key, req[p].slot) + 1 <= Limit
                  /\ Admit(req[p].key, req[p].slot)
        PROVE  Idles \/ Counts
    <2>. DEFINE l == req[p].key
                v == req[p].slot
                n == Value(l, v) + 1
    <2>1. l \in Key /\ v \in Slot /\ n \in Nat
      BY <1>b, ValueType
    <2>2. /\ store'[l][v] = [count |-> n, exp |-> Expiry(v)]
          /\ \A m \in Key, u \in Slot : m # l \/ u # v => store'[m][u] = store[m][u]
      BY <1>d, <2>1, PutEffect
    <2>3. CASE l # k \/ v # w
      <3>1. store'[k][w] = store[k][w]
        BY <1>a, <2>2, <2>3
      <3>2. admitted'[k][w] = admitted[k][w]
        <4>1. CASE UNCHANGED admitted
          BY <4>1
        <4>2. CASE req[p].op = "check" /\ Admit(l, v)
          <5>1. v \in Window
            BY <4>2, <1>c, <1>d DEF Sound
          <5>2. \A m \in Key, u \in Window : m # l \/ u # v => admitted'[m][u] = admitted[m][u]
            BY <4>2, <5>1, <2>1, AdmitEffect
          <5>3. QED
            BY <5>2, <2>3
        <4>3. QED
          BY <1>d, <4>1, <4>2
      <3>3. QED
        BY <1>d, <3>1, <3>2
    <2>4. CASE l = k /\ v = w
      <3>1. req[p].op = "check" /\ w <= now /\ now < w + Period + MaxLatency
        <4>1. req[p].op = "check"
          BY <1>a, <1>c, <1>d, <2>4 DEF Sound
        <4>2. /\ w <= req[p].began /\ req[p].began < w + Period
              /\ req[p].began <= now /\ now <= req[p].began + MaxLatency
          BY <4>1, <1>c, <1>d, <2>4 DEF Sound
        <4>3. QED
          BY <4>1, <4>2, <1>a, <1>b, LimitAssumption, BoundAssumption
      <3>2. store'[k][w] = [count |-> Value(k, w) + 1, exp |-> now + Period]
        BY <2>2, <2>4 DEF Expiry
      <3>3. Value(k, w) = IF store[k][w].exp > now THEN store[k][w].count ELSE 0
        BY DEF Value
      <3>4. admitted'[k][w] = admitted[k][w]
            \/ (Value(k, w) + 1 <= Limit /\ Tallied(admitted[k][w], admitted'[k][w], w, now))
        <4>1. CASE UNCHANGED admitted
          BY <4>1
        <4>2. CASE Value(k, w) + 1 <= Limit /\ Admit(k, w)
          BY <4>2, AdmitEffect DEF Tallied
        <4>3. QED
          BY <1>d, <2>4, <4>1, <4>2
      <3>5. Counted(store[k][w], store'[k][w], admitted[k][w], admitted'[k][w], w, now)
        BY <3>2, <3>3, <3>4 DEF Counted
      <3>6. QED
        BY <1>d, <3>1, <3>5
    <2>5. QED
      BY <2>3, <2>4
  <1>1. CASE Tick
    BY <1>1 DEF Tick
  <1>2. ASSUME NEW p \in Proc, Check(p) PROVE Idles
    BY <1>2 DEF Check
  <1>3. ASSUME NEW p \in Proc, Call(p) PROVE Idles
    BY <1>3 DEF Call
  <1>4. ASSUME NEW p \in Proc, Bump(p) PROVE Idles \/ Counts
    <2>. DEFINE n == Value(req[p].key, req[p].slot) + 1
    <2>1. n \in Nat
      BY <1>b, ValueType
    <2>2. req[p].pc # "idle" /\ now' = now /\ Put(req[p].key, req[p].slot, n) /\ Answer(p, n)
      BY <1>4 DEF Bump
    <2>3. IF req[p].op = "check" /\ n <= Limit THEN Admit(req[p].key, req[p].slot)
                                               ELSE UNCHANGED admitted
      <3>. HIDE DEF n
      <3>. QED
        BY <2>1, <2>2, AnswerEffect
    <2>4. QED
      BY <1>d, <2>2, <2>3
  <1>5. ASSUME NEW p \in Proc, Get(p) \/ Set(p) PROVE FALSE
    BY <1>5, <1>c DEF Get, Set
  <1>6. ASSUME NEW p \in Proc, GetCount(p) PROVE Idles
    BY <1>6 DEF GetCount, Answer
  <1>7. ASSUME NEW p \in Proc, Reset(p) PROVE Idles
    <2>1. store'[k][w] = store[k][w]
      BY <1>7, <1>b, DeleteEffect DEF Reset
    <2>2. QED
      BY <1>7, <2>1 DEF Reset, Answer
  <1>8. ASSUME NEW p \in Proc, Fail(p) PROVE Idles \/ Counts
    <2>1. req[p].pc # "idle" /\ now' = now /\ UNCHANGED admitted
      BY <1>8 DEF Fail
    <2>2. CASE UNCHANGED <<store, served>>
      BY <2>1, <2>2
    <2>3. CASE Put(req[p].key, req[p].slot, Value(req[p].key, req[p].slot) + 1)
      BY <1>d, <2>1, <2>3
    <2>4. CASE Delete(req[p].key)
      BY <1>b, <2>1, <2>4, DeleteEffect
    <2>5. QED
      BY <1>8, <1>c, <2>2, <2>3, <2>4 DEF Fail
  <1>9. CASE UNCHANGED vars
    BY <1>9 DEF vars
  <1>10. QED
    BY <1>1, <1>2, <1>3, <1>4, <1>5, <1>6, <1>7, <1>8, <1>9 DEF Next, Step

LEMMA InitCovered == Init => InsideCovered /\ LateCovered
  <1>1. SUFFICES ASSUME Init, NEW k \in Key, NEW w \in Window
                 PROVE  /\ CoversInside(store[k][w], admitted[k][w], w, now)
                        /\ CoversLate(store[k][w], admitted[k][w], w, now)
    BY DEF InsideCovered, LateCovered
  <1>2. store[k][w] = [count |-> 0, exp |-> 0] /\ admitted[k][w] = [inside |-> 0, late |-> 0]
    BY <1>1, SlotFacts DEF Init
  <1>3. QED
    BY <1>2, LimitAssumption DEF CoversInside, CoversLate

LEMMA StepInside ==
  ASSUME backend = "redis", SInv, SInv', InsideCovered, [Next]_vars
  PROVE  InsideCovered'
  <1>1. SUFFICES ASSUME NEW k \in Key, NEW w \in Window
                 PROVE  CoversInside(store'[k][w], admitted'[k][w], w, now')
    BY DEF InsideCovered
  <1>. DEFINE c == store[k][w]
              d == store'[k][w]
              a == admitted[k][w]
              b == admitted'[k][w]
  <1>2. /\ c \in Counter /\ d \in Counter /\ a \in Tally /\ b \in Tally
        /\ w \in Nat /\ now \in Nat
    BY SlotFacts, BoundAssumption DEF SInv, TypeOK
  <1>3. CoversInside(c, a, w, now)
    BY DEF InsideCovered
  <1>4. \/ d = c /\ b = a /\ (now' = now \/ now' = now + 1)
        \/ now' = now /\ w <= now /\ Counted(c, d, a, b, w, now)
    BY WindowStep
  <1>. HIDE DEF a, b, c, d
  <1>5. CASE d = c /\ b = a /\ (now' = now \/ now' = now + 1)
    BY <1>2, <1>3, <1>5, LimitAssumption DEF CoversInside, c, d, a, b
  <1>6. CASE now' = now /\ w <= now /\ Counted(c, d, a, b, w, now)
    <2>1. CoversInside(d, b, w, now)
      BY <1>2, <1>3, <1>6, CountedInside
    <2>2. QED
      BY <1>6, <2>1 DEF b, d
  <1>7. QED
    BY <1>4, <1>5, <1>6

LEMMA StepLate ==
  ASSUME backend = "redis", MaxLatency <= Period, SInv, SInv', LateCovered, [Next]_vars
  PROVE  LateCovered'
  <1>1. SUFFICES ASSUME NEW k \in Key, NEW w \in Window
                 PROVE  CoversLate(store'[k][w], admitted'[k][w], w, now')
    BY DEF LateCovered
  <1>. DEFINE c == store[k][w]
              d == store'[k][w]
              a == admitted[k][w]
              b == admitted'[k][w]
  <1>2. /\ c \in Counter /\ d \in Counter /\ a \in Tally /\ b \in Tally
        /\ w \in Nat /\ now \in Nat
    BY SlotFacts, BoundAssumption DEF SInv, TypeOK
  <1>3. CoversLate(c, a, w, now)
    BY DEF LateCovered
  <1>4. \/ d = c /\ b = a /\ (now' = now \/ now' = now + 1)
        \/ /\ now' = now /\ w <= now /\ now < w + Period + MaxLatency
           /\ Counted(c, d, a, b, w, now)
    BY WindowStep
  <1>. HIDE DEF a, b, c, d
  <1>5. CASE d = c /\ b = a /\ (now' = now \/ now' = now + 1)
    BY <1>2, <1>3, <1>5, LimitAssumption DEF CoversLate, c, d, a, b
  <1>6. CASE /\ now' = now /\ w <= now /\ now < w + Period + MaxLatency
             /\ Counted(c, d, a, b, w, now)
    <2>1. now < w + Period + Period
      BY <1>2, <1>6, LimitAssumption, BoundAssumption
    <2>2. CoversLate(d, b, w, now)
      BY <1>2, <1>3, <1>6, <2>1, CountedLate
    <2>3. QED
      BY <1>6, <2>2 DEF b, d
  <1>7. QED
    BY <1>4, <1>5, <1>6

\* A deployment keeps the backend it has.
LEMMA BackendKept == [Next]_vars => backend' = backend
  BY DEF Next, Step, Check, Call, Bump, Get, Set, GetCount, Reset, Fail, Tick, vars

\* On Redis a window admits at most limit requests while it lasts, however many
\* calls are in flight, however long they take and whichever of them fail.
THEOREM WindowLimitHolds == Spec => []WindowLimit
  <1>. DEFINE Inv == SInv /\ (backend = "redis" => InsideCovered)
  <1>1. Init => Inv
    BY InitSound, InitCovered
  <1>2. Inv /\ [Next]_vars => Inv'
    BY StepSound, StepInside, BackendKept
  <1>3. Inv => WindowLimit
    BY DEF InsideCovered, CoversInside, WindowLimit
  <1>4. QED
    BY <1>1, <1>2, <1>3, PTL DEF Spec

\* When calls take no longer than a window, those that reach Redis after theirs has
\* ended get at most limit more through: the counter restarts once, not twice.
THEOREM LateLimitHolds == ASSUME MaxLatency <= Period PROVE Spec => []LateLimit
  <1>. DEFINE Inv == SInv /\ (backend = "redis" => LateCovered)
  <1>1. Init => Inv
    BY InitSound, InitCovered
  <1>2. Inv /\ [Next]_vars => Inv'
    BY StepSound, StepLate, BackendKept
  <1>3. Inv => LateLimit
    BY DEF LateCovered, CoversLate, LateLimit
  <1>4. QED
    BY <1>1, <1>2, <1>3, PTL DEF Spec

-----------------------------------------------------------------------------
(* The failure policy.  Every call writes the override it is given to the  *)
(* one backend object, where overlapping calls find it.                    *)

\* Whoever asks for a policy asks for the same one, as the rate check, the caller in
\* src, does: it always passes RATE_LIMITER_FAIL_OPEN (middleware/rate_limit.py:92).
OneOverride == \A a, b \in Override \ {"none"} : a = b

\* Nobody has a policy to put back: the configured one is in force.
Untouched == failOpen = Configured /\ \A p \in Proc : req[p].original = "none"

\* One call in flight will put the configured policy back; the one in force is what
\* every other call would ask for, so that none of them saves it.
Lent == /\ failOpen \in Override \ {"none"}
        /\ \E p \in Proc : /\ req[p].pc # "idle" /\ req[p].original = Configured
                           /\ \A q \in Proc : q # p => req[q].original = "none"

PolicyInv == Untouched \/ Lent

\* A step that neither begins nor ends a call.
Waits == /\ failOpen' = failOpen
         /\ \A p \in Proc : /\ (req'[p].pc = "idle" <=> req[p].pc = "idle")
                            /\ req'[p].original = req[p].original

\* A call begins, with override o or, which is the same, with none.
Begins(p, o) ==
    /\ req[p].pc = "idle" /\ req'[p].pc # "idle" /\ \A q \in Proc : q # p => req'[q] = req[q]
    /\ failOpen' = IF Overrides(o) THEN o ELSE failOpen
    /\ req'[p].original = IF Overrides(o) THEN failOpen ELSE "none"

\* A call ends: the policy it saved is put back.
Ends(p) ==
    /\ req[p].pc # "idle" /\ req'[p].pc = "idle" /\ \A q \in Proc : q # p => req'[q] = req[q]
    /\ req'[p].original = "none"
    /\ failOpen' = Restored(req[p])

LEMMA FinishEnds ==
  ASSUME TypeOK, NEW p \in Proc, NEW a, req[p].pc # "idle", Finish(p, a)
  PROVE  Ends(p)
  <1>. DEFINE i == Idle(req[p].key)
  <1>1. req' = [req EXCEPT ![p] = i] /\ req \in [Proc -> Request]
    BY DEF Finish, TypeOK
  <1>2. i.pc = "idle" /\ i.original = "none"
    BY DEF Idle
  <1>. HIDE DEF i
  <1>3. /\ req'[p].pc = "idle" /\ req'[p].original = "none"
        /\ \A q \in Proc : q # p => req'[q] = req[q]
    BY <1>1, <1>2
  <1>4. failOpen' = Restored(req[p])
    BY DEF Finish
  <1>5. QED
    BY <1>3, <1>4 DEF Ends

LEMMA AnswerEnds ==
  ASSUME TypeOK, NEW p \in Proc, NEW n, req[p].pc # "idle", Answer(p, n)
  PROVE  Ends(p)
  <1>. DEFINE a == [value |-> n, limited |-> req[p].op = "check" /\ Limited(n), failed |-> FALSE]
  <1>1. Finish(p, a)
    BY DEF Answer
  <1>. HIDE DEF a
  <1>2. QED
    BY <1>1, FinishEnds

\* What a step does to the policy.
LEMMA PolicyStep ==
  ASSUME SInv, [Next]_vars
  PROVE  Waits \/ \E p \in Proc : Ends(p) \/ \E o \in Override \cup {"none"} : Begins(p, o)
  <1>. DEFINE Started(p) == \E o \in Override \cup {"none"} : Begins(p, o)
  <1>. USE DEF SInv
  <1>a. \A p \in Proc : req[p] \in Request
    BY DEF TypeOK
  <1>b. req \in [Proc -> Request]
    BY DEF TypeOK
  <1>1. CASE Tick
    BY <1>1 DEF Tick, Waits
  <1>2. ASSUME NEW p \in Proc, Check(p) PROVE Started(p)
    <2>1. PICK k \in Key, o \in Override :
             /\ req[p].pc = "idle"
             /\ failOpen' = IF Overrides(o) THEN o ELSE failOpen
             /\ req' = [req EXCEPT ![p] = [Idle(k) EXCEPT !.pc = "call", !.slot = WindowStart(now),
                    !.began = now, !.original = IF Overrides(o) THEN failOpen ELSE "none"]]
      BY <1>2 DEF Check
    <2>. DEFINE r == [Idle(k) EXCEPT !.pc = "call", !.slot = WindowStart(now), !.began = now,
                        !.original = IF Overrides(o) THEN failOpen ELSE "none"]
    <2>2. r.pc = "call" /\ r.original = IF Overrides(o) THEN failOpen ELSE "none"
      BY DEF Idle
    <2>3. req' = [req EXCEPT ![p] = r]
      BY <2>1
    <2>. HIDE DEF r
    <2>4. req'[p] = r /\ \A q \in Proc : q # p => req'[q] = req[q]
      BY <1>b, <2>3
    <2>5. Begins(p, o)
      BY <2>1, <2>2, <2>4 DEF Begins
    <2>6. QED
      BY <2>5
  <1>3. ASSUME NEW p \in Proc, Call(p) PROVE Begins(p, "none")
    <2>1. PICK k \in Key, op \in Ops \ {"check"} :
             /\ req[p].pc = "idle" /\ failOpen' = failOpen
             /\ req' = [req EXCEPT ![p] = [Idle(k) EXCEPT !.pc = "call", !.op = op, !.began = now]]
      BY <1>3 DEF Call
    <2>. DEFINE r == [Idle(k) EXCEPT !.pc = "call", !.op = op, !.began = now]
    <2>2. r.pc = "call" /\ r.original = "none"
      BY DEF Idle
    <2>3. req' = [req EXCEPT ![p] = r]
      BY <2>1
    <2>. HIDE DEF r
    <2>4. req'[p] = r /\ \A q \in Proc : q # p => req'[q] = req[q]
      BY <1>b, <2>3
    <2>5. QED
      BY <2>1, <2>2, <2>4 DEF Begins, Overrides
  <1>4. ASSUME NEW p \in Proc, Bump(p) PROVE Ends(p)
    <2>1. PICK n : Answer(p, n)
      BY <1>4 DEF Bump
    <2>2. req[p].pc # "idle"
      BY <1>4 DEF Bump
    <2>3. QED
      BY <2>1, <2>2, AnswerEnds
  <1>5. ASSUME NEW p \in Proc, Get(p) PROVE Waits
    <2>. DEFINE n == Value(req[p].key, req[p].slot) + 1
                s == [req[p] EXCEPT !.pc = "set", !.count = n]
    <2>1. req' = [req EXCEPT ![p] = s] /\ req[p].pc = "call" /\ failOpen' = failOpen
      BY <1>5, <1>b DEF Get
    <2>2. s.pc = "set" /\ s.original = req[p].original
      <3>. HIDE DEF n
      <3>1. req[p] \in Request
        BY <1>a
      <3>2. QED
        BY <3>1 DEF Request
    <2>. HIDE DEF s
    <2>3. QED
      BY <1>b, <2>1, <2>2 DEF Waits
  <1>6. ASSUME NEW p \in Proc, Set(p) PROVE Ends(p)
    BY <1>6, AnswerEnds DEF Set
  <1>7. ASSUME NEW p \in Proc, GetCount(p) PROVE Ends(p)
    BY <1>7, AnswerEnds DEF GetCount
  <1>8. ASSUME NEW p \in Proc, Reset(p) PROVE Ends(p)
    BY <1>8, AnswerEnds DEF Reset
  <1>9. ASSUME NEW p \in Proc, Fail(p) PROVE Ends(p)
    <2>. DEFINE a == [value |-> 0, limited |-> req[p].op = "check" /\ Refuses, failed |-> TRUE]
    <2>1. Finish(p, a) /\ req[p].pc # "idle"
      BY <1>9 DEF Fail
    <2>. HIDE DEF a
    <2>2. QED
      BY <2>1, FinishEnds
  <1>10. CASE UNCHANGED vars
    BY <1>10 DEF vars, Waits
  <1>11. QED
    BY <1>1, <1>2, <1>3, <1>4, <1>5, <1>6, <1>7, <1>8, <1>9, <1>10 DEF Next, Step

LEMMA InitPolicy == Init => Untouched
  <1>1. SUFFICES ASSUME Init PROVE Untouched
    OBVIOUS
  <1>2. PICK k \in Key : req = [p \in Proc |-> Idle(k)]
    BY <1>1 DEF Init
  <1>3. QED
    BY <1>1, <1>2 DEF Init, Idle, Untouched

\* The first call to override saves the configured policy; the others find theirs in
\* force and save nothing; the first one puts it back, whoever is still in flight.
LEMMA StepPolicy ==
  ASSUME OneOverride, SInv, PolicyInv, [Next]_vars
  PROVE  PolicyInv'
  <1>a. Configured \in Policy /\ "none" \notin Policy
    BY PolicyAssumption DEF Policy
  <1>1. CASE Waits
    BY <1>1 DEF PolicyInv, Untouched, Lent, Waits
  <1>2. ASSUME NEW p \in Proc, NEW o \in Override \cup {"none"}, Begins(p, o)
        PROVE  PolicyInv'
    <2>1. CASE Untouched /\ Overrides(o)
      <3>1. req'[p].original = Configured /\ req'[p].pc # "idle" /\ failOpen' = o
        BY <1>2, <2>1 DEF Begins, Untouched
      <3>2. o \in Override \ {"none"} /\ \A q \in Proc : q # p => req'[q].original = "none"
        BY <1>2, <2>1 DEF Begins, Untouched, Overrides
      <3>3. QED
        BY <3>1, <3>2 DEF PolicyInv, Lent
    <2>2. CASE Untouched /\ ~Overrides(o)
      BY <1>2, <2>2 DEF Begins, Untouched, PolicyInv
    <2>3. CASE Lent
      <3>1. ~Overrides(o)
        BY <2>3 DEF OneOverride, Overrides, Lent
      <3>2. failOpen' = failOpen /\ req'[p].original = "none"
        BY <1>2, <3>1 DEF Begins
      <3>3. PICK h \in Proc : /\ req[h].pc # "idle" /\ req[h].original = Configured
                              /\ \A q \in Proc : q # h => req[q].original = "none"
        BY <2>3 DEF Lent
      <3>4. h # p /\ req'[h] = req[h] /\ \A q \in Proc : q # h => req'[q].original = "none"
        BY <1>2, <3>2, <3>3 DEF Begins
      <3>5. QED
        BY <2>3, <3>2, <3>3, <3>4 DEF PolicyInv, Lent
    <2>4. QED
      BY <2>1, <2>2, <2>3 DEF PolicyInv
  <1>3. ASSUME NEW p \in Proc, Ends(p) PROVE PolicyInv'
    <2>1. CASE req[p].original = "none"
      <3>1. failOpen' = failOpen /\ \A q \in Proc : req'[q].original = req[q].original
        BY <1>3, <2>1 DEF Ends, Restored
      <3>2. \A q \in Proc : q # p => req'[q].pc = req[q].pc
        BY <1>3 DEF Ends
      <3>3. QED
        BY <1>a, <2>1, <3>1, <3>2 DEF PolicyInv, Untouched, Lent
    <2>2. CASE req[p].original # "none"
      <3>1. req[p].original = Configured /\ \A q \in Proc : q # p => req[q].original = "none"
        BY <2>2 DEF PolicyInv, Untouched, Lent
      <3>2. failOpen' = Configured /\ \A q \in Proc : req'[q].original = "none"
        BY <1>3, <2>2, <3>1 DEF Ends, Restored
      <3>3. QED
        BY <3>2 DEF PolicyInv, Untouched
    <2>3. QED
      BY <2>1, <2>2
  <1>4. QED
    BY <1>1, <1>2, <1>3, PolicyStep

\* When all callers that override the policy ask for the same one, then however their
\* calls overlap and whichever of them fail, the backend is left with the policy it
\* was configured with whenever no call is in flight.
THEOREM OverridesRestored == ASSUME OneOverride PROVE Spec => []OverridesAreTemporary
  <1>1. Init => SInv /\ PolicyInv
    BY InitSound, InitPolicy DEF PolicyInv
  <1>2. SInv /\ PolicyInv /\ [Next]_vars => SInv' /\ PolicyInv'
    BY StepSound, StepPolicy
  <1>3. PolicyInv => OverridesAreTemporary
    BY DEF PolicyInv, Untouched, Lent, OverridesAreTemporary
  <1>4. QED
    BY <1>1, <1>2, <1>3, PTL DEF Spec

=============================================================================
