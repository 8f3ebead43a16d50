------------------------ MODULE LoginThrottleProofs ------------------------
(***************************************************************************)
(* Proofs about LoginThrottle for any number of logins in flight, any      *)
(* addresses and names, and any limits: type correctness, that on Redis no *)
(* counter lets more than login_max_attempts through to the password       *)
(* check, that a success clears what was counted before it, and that a     *)
(* block runs down once nobody prolongs it.                                *)
(***************************************************************************)
EXTENDS LoginThrottle, FiniteSetTheorems, TLAPS

\* Requests that were counted under k and may still go on to the password check.
Holders(k) == {q \in Proc : k \in req[q].counted /\ req[q].worst <= MaxAttempts}

\* Only a request about to count its user name holds an attempt, of its address.
Shape(r) ==
    /\ r.pc # "store" /\ r.counted \subseteq {r.ip}
    /\ r.counted # {} => r.pc = "count" /\ r.at = "name"
    /\ r.pc = "verify" => r.at = "ip"

\* An attempt that has passed, or may pass, was counted, and as one of the first.
Covered(k) ==
    /\ passed[k] + Cardinality(Holders(k)) <= counter[k].count
    /\ passed[k] + Cardinality(Holders(k)) <= MaxAttempts

\* A request between its two deletes.
AddressCleared(p) ==
    faults = 0 /\ req[p].pc = "clear" /\ req[p].at = "name"
        => counter[req[p].ip].count <= since[p][req[p].ip]

OnRedis ==
    /\ \A p \in Proc : Shape(req[p]) /\ AddressCleared(p)
    /\ \A k \in Key : Covered(k)

IInv == TypeOK /\ SuccessClears /\ (backend = "redis" => OnRedis)

-----------------------------------------------------------------------------
(* Lemmas about the operators.                                             *)

LEMMA PlusFacts ==
  ASSUME NEW n \in 0..Cap
  PROVE  /\ Plus(n) \in 0..Cap /\ n <= Plus(n) /\ Plus(n) <= n + 1
         /\ Plus(n) <= MaxAttempts => Plus(n) = n + 1
  BY BoundAssumption, LimitAssumption DEF Plus

LEMMA PlusMonotone ==
  ASSUME NEW m \in 0..Cap, NEW n \in 0..Cap, m <= n
  PROVE  Plus(m) <= Plus(n)
  BY BoundAssumption DEF Plus

LEMMA RemainingFacts ==
  ASSUME NEW n \in 0..Cap PROVE Remaining(n) \in 0..MaxAttempts
  BY LimitAssumption, BoundAssumption DEF Remaining

LEMMA WorstFacts ==
  ASSUME NEW m \in 0..Cap, NEW n \in 0..Cap
  PROVE  Worst(m, n) \in 0..Cap /\ m <= Worst(m, n) /\ n <= Worst(m, n)
  BY BoundAssumption DEF Worst

LEMMA IdleTyped ==
  ASSUME NEW i \in Ip, NEW n \in Name PROVE Idle(i, n) \in Request
  BY BoundAssumption DEF Idle, Request

LEMMA ReplyTyped ==
  ASSUME NEW p \in Proc, NEW a \in {"none", "allowed", "refused", "wrong", "success"}
  PROVE  [kind |-> a, by |-> p, remaining |-> 0] \in Reply
  BY LimitAssumption DEF Reply

LEMMA KeyTyped ==
  ASSUME NEW r \in Request PROVE KeyOf(r) \in Key /\ KeyOf(r) \in Keys(r) /\ Keys(r) \subseteq Key
  BY DEF KeyOf, Keys, Key, Request

\* Request p moves on: what that means for the holders of k.
LEMMA HoldersMove ==
  ASSUME NEW p \in Proc, NEW k, \A q \in Proc \ {p} : req'[q] = req[q]
  PROVE  /\ Cardinality(Holders(k)) \in Nat /\ Cardinality(Holders(k)') \in Nat
         /\ p \in Holders(k) => Cardinality(Holders(k)) >= 1
         /\ p \in Holders(k) /\ p \notin Holders(k)' =>
               Cardinality(Holders(k)') = Cardinality(Holders(k)) - 1
         /\ p \notin Holders(k) /\ p \in Holders(k)' =>
               Cardinality(Holders(k)') = Cardinality(Holders(k)) + 1
         /\ (p \in Holders(k) <=> p \in Holders(k)') =>
               Cardinality(Holders(k)') = Cardinality(Holders(k))
  <1>. DEFINE H == Holders(k)
              I == Holders(k)'
              B == H \ {p}
  <1>1. H \subseteq Proc /\ I \subseteq Proc /\ B = I \ {p}
    BY DEF Holders
  <1>2. IsFiniteSet(H) /\ IsFiniteSet(I) /\ IsFiniteSet(B)
    BY <1>1, ProcAssumption, FS_Subset
  <1>3. Cardinality(H) \in Nat /\ Cardinality(I) \in Nat /\ Cardinality(B) \in Nat
    BY <1>2, FS_CardinalityType
  <1>4. Cardinality(B \cup {p}) = Cardinality(B) + 1
    BY <1>2, FS_AddElement
  <1>5. /\ p \in H => H = B \cup {p}
        /\ p \notin H => H = B
        /\ p \in I => I = B \cup {p}
        /\ p \notin I => I = B
    BY <1>1
  <1>. HIDE DEF H, I, B
  <1>6. /\ p \in H => Cardinality(H) = Cardinality(B) + 1
        /\ p \notin H => Cardinality(H) = Cardinality(B)
        /\ p \in I => Cardinality(I) = Cardinality(B) + 1
        /\ p \notin I => Cardinality(I) = Cardinality(B)
    BY <1>4, <1>5
  <1>7. QED
    BY <1>3, <1>6 DEF H, I

LEMMA NoHolders ==
  ASSUME NEW k, Holders(k) = {} PROVE Cardinality(Holders(k)) = 0
  BY FS_EmptySet

-----------------------------------------------------------------------------
(* The initial states, and type correctness.                               *)

LEMMA InitIInv == ASSUME Init PROVE IInv
  <1>1. PICK i \in Ip, n \in Name : req = [p \in Proc |-> Idle(i, n)]
    BY DEF Init
  <1>2. PICK p \in Proc : reply = Silent(p)
    BY DEF Init
  <1>3. 0 \in 0..Cap /\ 0 \in 0..MaxAttempts /\ 0 \in 0..LoginWindow /\ 0 \in 0..MaxFaults
    BY BoundAssumption, LimitAssumption
  <1>4. TypeOK
    <2>1. counter \in [Key -> Counter]
      BY <1>3 DEF Init, Counter, Gone
    <2>2. req \in [Proc -> Request]
      BY <1>1, IdleTyped
    <2>3. reply \in Reply
      BY <1>2, <1>3 DEF Silent, Reply
    <2>4. QED
      BY <1>3, <2>1, <2>2, <2>3 DEF Init, TypeOK
  <1>5. SuccessClears
    BY <1>2 DEF SuccessClears, Silent
  <1>6. OnRedis
    <2>1. \A q \in Proc : Shape(req[q]) /\ AddressCleared(q)
      BY <1>1 DEF Shape, AddressCleared, Idle
    <2>2. ASSUME NEW k \in Key PROVE Covered(k)
      <3>1. Holders(k) = {}
        BY <1>1 DEF Holders, Idle
      <3>2. passed[k] = 0 /\ counter[k].count = 0
        BY <2>2 DEF Init, Gone
      <3>3. QED
        BY <3>1, <3>2, NoHolders, LimitAssumption DEF Covered
    <2>3. QED
      BY <2>1, <2>2 DEF OnRedis
  <1>7. QED
    BY <1>4, <1>5, <1>6 DEF IInv

\* The rest of track_login_attempt answers, counts and moves within the types.
LEMMA PassOnTyped ==
  ASSUME TypeOK, NEW p \in Proc, NEW r \in Request, PassOn(p, r)
  PROVE  req' \in [Proc -> Request] /\ passed' \in [Key -> 0..Cap]
  <1>1. [r EXCEPT !.pc = "verify", !.at = "ip", !.worst = 0, !.read = 0, !.counted = {}] \in Request
    <2>1. 0 \in 0..Cap /\ {} \in SUBSET Key
      BY BoundAssumption
    <2>2. QED
      BY <2>1 DEF Request
  <1>2. \A k \in Key : passed[k] \in 0..Cap /\ Plus(passed[k]) \in 0..Cap
    BY PlusFacts DEF TypeOK
  <1>3. QED
    BY <1>1, <1>2 DEF PassOn, TypeOK

LEMMA ReturnedTyped ==
  ASSUME TypeOK, NEW p \in Proc, NEW r \in Request, NEW n \in 0..Cap, Returned(p, r, n)
  PROVE  req' \in [Proc -> Request] /\ passed' \in [Key -> 0..Cap] /\ reply' \in Reply
  <1>1. r.worst \in 0..Cap /\ r.ip \in Ip /\ r.name \in Name
    BY DEF Request
  <1>2. Worst(r.worst, n) \in 0..Cap /\ Remaining(Worst(r.worst, n)) \in 0..MaxAttempts
    BY <1>1, WorstFacts, RemainingFacts
  <1>3. 0 \in 0..MaxAttempts /\ 0 \in 0..Cap
    BY LimitAssumption, BoundAssumption
  <1>4. CASE /\ req' = [req EXCEPT ![p] = [r EXCEPT !.pc = "count", !.at = "name", !.worst = n, !.read = 0]]
             /\ reply' = Silent(p) /\ UNCHANGED passed
    <2>1. [r EXCEPT !.pc = "count", !.at = "name", !.worst = n, !.read = 0] \in Request
      BY <1>3 DEF Request
    <2>2. QED
      BY <1>3, <1>4, <2>1 DEF TypeOK, Silent, Reply
  <1>5. CASE PassOn(p, r) /\ reply' = [kind |-> "allowed", by |-> p, remaining |-> Remaining(Worst(r.worst, n))]
    <2>1. req' \in [Proc -> Request] /\ passed' \in [Key -> 0..Cap]
      BY <1>5, PassOnTyped
    <2>2. reply' \in Reply
      BY <1>2, <1>5 DEF Reply
    <2>3. QED
      BY <2>1, <2>2
  <1>6. CASE /\ req' = [req EXCEPT ![p] = Idle(r.ip, r.name)] /\ UNCHANGED passed
             /\ reply' = [kind |-> "refused", by |-> p, remaining |-> Remaining(Worst(r.worst, n))]
    BY <1>1, <1>2, <1>6, IdleTyped DEF Reply, TypeOK
  <1>7. QED
    BY <1>4, <1>5, <1>6 DEF Returned

\* Counting and storing keep the counters typed.
LEMMA PutTyped ==
  ASSUME TypeOK, NEW k \in Key, NEW n \in 0..Cap, Put(k, n)
  PROVE  /\ counter' \in [Key -> Counter] /\ counter'[k].count = n
         /\ \A x \in Key \ {k} : counter'[x] = counter[x]
  <1>1. [count |-> n, ttl |-> Ttl(k)] \in Counter
    BY LimitAssumption DEF Ttl, Counter
  <1>2. QED
    BY <1>1 DEF Put, TypeOK

LEMMA CountedTyped ==
  ASSUME TypeOK, NEW k \in Key, Counted(k)
  PROVE  since' \in [Proc -> [Key -> 0..Cap]]
  <1>1. ASSUME NEW q \in Proc PROVE [since[q] EXCEPT ![k] = Plus(@)] \in [Key -> 0..Cap]
    BY PlusFacts DEF TypeOK
  <1>2. QED
    BY <1>1 DEF Counted, TypeOK

\* What the steps of a request read.
LEMMA Facts ==
  ASSUME TypeOK, NEW p \in Proc
  PROVE  /\ req[p] \in Request /\ KeyOf(req[p]) \in Key
         /\ req[p].ip \in Ip /\ req[p].name \in Name /\ req[p].at \in {"ip", "name"}
         /\ req[p].counted \in SUBSET Key /\ req[p].worst \in 0..Cap /\ req[p].read \in 0..Cap
         /\ \A k \in Key : /\ counter[k] \in Counter /\ counter[k].count \in 0..Cap /\ Plus(counter[k].count) \in 0..Cap
                           /\ passed[k] \in 0..Cap /\ since[p][k] \in 0..Cap
  <1>1. req[p] \in Request
    BY DEF TypeOK
  <1>2. \A k \in Key : /\ counter[k] \in Counter /\ counter[k].count \in 0..Cap /\ Plus(counter[k].count) \in 0..Cap
                      /\ passed[k] \in 0..Cap /\ since[p][k] \in 0..Cap
    BY PlusFacts DEF TypeOK, Counter
  <1>3. QED
    BY <1>1, <1>2, KeyTyped DEF Request

LEMMA ClearedTyped ==
  ASSUME TypeOK, NEW p \in Proc, NEW requests \in [Proc -> Request], Cleared(p, requests)
  PROVE  req' \in [Proc -> Request] /\ reply' \in Reply
  <1>1. Idle(req[p].ip, req[p].name) \in Request /\ [req[p] EXCEPT !.at = "name"] \in Request
    BY Facts, IdleTyped DEF Request
  <1>2. 0 \in 0..MaxAttempts
    BY LimitAssumption
  <1>3. QED
    BY <1>1, <1>2 DEF Cleared, Answer, Silent, Reply

LEMMA NextTyped == ASSUME TypeOK, Next PROVE TypeOK'
  <1>1. 0 \in 0..MaxAttempts /\ 0 \in 0..Cap /\ 0 \in 0..LoginWindow /\ backend' = backend
    BY LimitAssumption, BoundAssumption DEF Next
  <1>2. CASE Tick
    <2>. DEFINE ending == {k \in Key : counter[k].ttl = 1}
    <2>1. counter' \in [Key -> Counter]
      <3>1. ASSUME NEW k \in Key, counter[k].ttl # 0 PROVE [counter[k] EXCEPT !.ttl = @ - 1] \in Counter
        <4>0. counter[k] \in Counter
          BY <3>1 DEF TypeOK
        <4>1. counter[k] \in Counter /\ counter[k].ttl - 1 \in 0..LoginWindow
          BY <3>1, <4>0, LimitAssumption DEF Counter
        <4>2. PICK t \in 0..LoginWindow : t = counter[k].ttl - 1
          BY <4>1
        <4>3. [counter[k] EXCEPT !.ttl = t] \in Counter
          BY <4>1 DEF Counter
        <4>4. QED
          BY <4>2, <4>3
      <3>2. QED
        BY <1>1, <1>2, <3>1 DEF Tick, TypeOK, Gone, Counter
    <2>2. req' \in [Proc -> Request]
      <3>1. ASSUME NEW q \in Proc PROVE [req[q] EXCEPT !.counted = @ \ ending] \in Request
        <4>. HIDE DEF ending
        <4>1. req[q].counted \ ending \in SUBSET Key
          BY Facts
        <4>2. QED
          BY <4>1, Facts DEF Request
      <3>2. QED
        BY <1>2, <3>1 DEF Tick
    <2>3. passed' \in [Key -> 0..Cap] /\ reply' \in Reply
      BY <1>1, <1>2 DEF Tick, TypeOK, Silent, Reply
    <2>4. QED
      BY <1>1, <1>2, <2>1, <2>2, <2>3 DEF Tick, TypeOK
  <1>3. ASSUME NEW p \in Proc, Attempt(p) PROVE TypeOK'
    <2>1. PICK i \in Ip, n \in Name : req' = [req EXCEPT ![p] = [Idle(i, n) EXCEPT !.pc = "count"]]
      BY <1>3 DEF Attempt
    <2>2. [Idle(i, n) EXCEPT !.pc = "count"] \in Request
      BY IdleTyped DEF Request
    <2>3. req' \in [Proc -> Request] /\ reply' \in Reply
      <3>1. req' \in [Proc -> Request]
        BY <2>1, <2>2 DEF TypeOK
      <3>2. reply' \in Reply
        BY <1>3, ReplyTyped DEF Attempt, Silent
      <3>3. QED
        BY <3>1, <3>2
    <2>4. since' \in [Proc -> [Key -> 0..Cap]]
      <3>1. [k \in Key |-> 0] \in [Key -> 0..Cap]
        BY <1>1
      <3>2. since' = since \/ since' = [since EXCEPT ![p] = [k \in Key |-> 0]]
        BY <1>3 DEF Attempt
      <3>3. QED
        BY <3>1, <3>2 DEF TypeOK
    <2>5. QED
      BY <1>1, <1>3, <2>3, <2>4 DEF Attempt, TypeOK
  <1>4. ASSUME NEW p \in Proc, Count(p) PROVE TypeOK'
    <2>. DEFINE k == KeyOf(req[p])
                r == [req[p] EXCEPT !.counted = @ \cup {k}]
                n == Plus(counter[k].count)
    <2>1. k \in Key /\ n \in 0..Cap
      BY Facts
    <2>2. r \in Request
      BY <2>1, Facts DEF Request
    <2>3. Put(k, n) /\ Counted(k) /\ Returned(p, r, n) /\ UNCHANGED faults
      BY <1>4 DEF Count
    <2>. HIDE DEF k, r, n
    <2>4. QED
      BY <1>1, <2>1, <2>2, <2>3, PutTyped, CountedTyped, ReturnedTyped DEF TypeOK
  <1>5. ASSUME NEW p \in Proc, Read(p) PROVE TypeOK'
    <2>. DEFINE k == KeyOf(req[p])
                r == [req[p] EXCEPT !.pc = "store", !.read = Plus(counter[k].count), !.counted = @ \cup {k}]
    <2>1. k \in Key /\ Plus(counter[k].count) \in 0..Cap
      BY Facts
    <2>2. r \in Request
      BY <2>1, Facts DEF Request
    <2>3. req' = [req EXCEPT ![p] = r] /\ Counted(k) /\ reply' = Silent(p) /\ UNCHANGED <<counter, passed, faults>>
      BY <1>5 DEF Read, TypeOK
    <2>. HIDE DEF k, r
    <2>4. QED
      BY <1>1, <2>1, <2>2, <2>3, CountedTyped DEF TypeOK, Silent, Reply
  <1>6. ASSUME NEW p \in Proc, Store(p) PROVE TypeOK'
    <2>1. Put(KeyOf(req[p]), req[p].read) /\ Returned(p, req[p], req[p].read) /\ UNCHANGED <<since, faults>>
      BY <1>6 DEF Store
    <2>2. KeyOf(req[p]) \in Key /\ req[p].read \in 0..Cap /\ req[p] \in Request
      BY Facts
    <2>3. QED
      BY <1>1, <2>1, <2>2, PutTyped, ReturnedTyped DEF TypeOK
  <1>7. ASSUME NEW p \in Proc, Verify(p) PROVE TypeOK'
    <2>1. Idle(req[p].ip, req[p].name) \in Request /\ [req[p] EXCEPT !.pc = "clear"] \in Request
      BY Facts, IdleTyped DEF Request
    <2>2. req' \in [Proc -> Request] /\ reply' \in Reply
      <3>1. req' \in [Proc -> Request]
        BY <1>7, <2>1 DEF Verify, TypeOK
      <3>2. reply' \in Reply
        BY <1>7, ReplyTyped DEF Verify, Answer, Silent
      <3>3. QED
        BY <3>1, <3>2
    <2>3. since' \in [Proc -> [Key -> 0..Cap]]
      <3>1. [k \in Key |-> 0] \in [Key -> 0..Cap]
        BY <1>1
      <3>2. since' = since \/ since' = [since EXCEPT ![p] = [k \in Key |-> 0]]
        BY <1>7 DEF Verify
      <3>3. QED
        BY <3>1, <3>2 DEF TypeOK
    <2>4. QED
      BY <1>1, <1>7, <2>2, <2>3 DEF Verify, TypeOK
  <1>8. ASSUME NEW p \in Proc, Clear(p) PROVE TypeOK'
    <2>1. Detached(KeyOf(req[p])) \in [Proc -> Request]
      <3>1. ASSUME NEW q \in Proc, NEW k \in Key PROVE [req[q] EXCEPT !.counted = @ \ {k}] \in Request
        <4>1. req[q].counted \ {k} \in SUBSET Key
          BY Facts
        <4>2. QED
          BY <4>1, Facts DEF Request
      <3>2. QED
        BY <3>1, Facts DEF Detached
    <2>2. req' \in [Proc -> Request] /\ reply' \in Reply
      BY <1>8, <2>1, ClearedTyped DEF Clear
    <2>3. counter' \in [Key -> Counter] /\ passed' \in [Key -> 0..Cap] /\ UNCHANGED <<since, faults>>
      BY <1>1, <1>8 DEF Clear, TypeOK, Gone, Counter
    <2>4. QED
      BY <1>1, <2>2, <2>3 DEF TypeOK
  <1>9. ASSUME NEW p \in Proc, FailCount(p) PROVE TypeOK'
    <2>. DEFINE k == KeyOf(req[p])
                r == [req[p] EXCEPT !.counted = @ \ {k}]
                s == [r EXCEPT !.counted = {}]
    <2>1. k \in Key /\ Plus(counter[k].count) \in 0..Cap /\ req[p].read \in 0..Cap
      BY Facts
    <2>2. r \in Request /\ r.read = req[p].read
      <3>1. req[p].counted \ {k} \in SUBSET Key
        BY Facts
      <3>2. QED
        BY <3>1, Facts DEF Request
    <2>3. s \in Request
      <3>. HIDE DEF r
      <3>. QED
        BY <2>2 DEF Request
    <2>4. counter' \in [Key -> Counter] /\ since' \in [Proc -> [Key -> 0..Cap]]
      <3>1. \/ UNCHANGED <<counter, since>>
            \/ Put(k, Plus(counter[k].count)) /\ Counted(k)
            \/ Put(k, req[p].read) /\ UNCHANGED since
        BY <1>9, <2>2 DEF FailCount
      <3>. HIDE DEF k
      <3>2. QED
        BY <2>1, <3>1, PutTyped, CountedTyped DEF TypeOK
    <2>5. req' \in [Proc -> Request] /\ passed' \in [Key -> 0..Cap] /\ reply' \in Reply
      <3>1. CASE Returned(p, r, 0)
        BY <1>1, <2>2, <3>1, ReturnedTyped
      <3>2. CASE PassOn(p, s) /\ reply' = Silent(p)
        <4>1. req' \in [Proc -> Request] /\ passed' \in [Key -> 0..Cap]
          BY <2>3, <3>2, PassOnTyped
        <4>2. QED
          BY <1>1, <3>2, <4>1 DEF Silent, Reply
      <3>3. QED
        BY <1>9, <3>1, <3>2 DEF FailCount
    <2>6. faults' \in 0..MaxFaults
      BY <1>9, BoundAssumption DEF FailCount, TypeOK
    <2>7. QED
      BY <1>1, <2>4, <2>5, <2>6 DEF TypeOK
  <1>10. ASSUME NEW p \in Proc, FailClear(p) PROVE TypeOK'
    <2>1. req' \in [Proc -> Request] /\ reply' \in Reply
      BY <1>10, ClearedTyped DEF FailClear, TypeOK
    <2>2. faults' \in 0..MaxFaults
      BY <1>10, BoundAssumption DEF FailClear, TypeOK
    <2>3. QED
      BY <1>1, <1>10, <2>1, <2>2 DEF FailClear, TypeOK
  <1>11. QED
    BY <1>2, <1>3, <1>4, <1>5, <1>6, <1>7, <1>8, <1>9, <1>10 DEF Next, Step

-----------------------------------------------------------------------------
(* Redis: what a step does to the attempts counted under k.                *)

\* p is a holder before (a), or after (b), and at most d attempts are new.
LEMMA CoverMoves ==
  ASSUME TypeOK, TypeOK', OnRedis, NEW p \in Proc, NEW k \in Key, \A q \in Proc \ {p} : req'[q] = req[q],
         NEW a \in {0, 1}, NEW b \in {0, 1}, NEW d \in {0, 1},
         p \in Holders(k) <=> a = 1, p \in Holders(k)' <=> b = 1,
         passed'[k] + b <= passed[k] + a + d,
         counter[k].count + d <= counter'[k].count,
         d = 1 => counter[k].count < MaxAttempts
  PROVE  Covered(k)'
  <1>1. /\ passed[k] \in 0..Cap /\ passed'[k] \in 0..Cap
        /\ counter[k].count \in 0..Cap /\ counter'[k].count \in 0..Cap
    BY DEF TypeOK, Counter
  <1>2. /\ passed[k] \in Int /\ passed'[k] \in Int /\ counter[k].count \in Int /\ counter'[k].count \in Int
    BY <1>1
  <1>3. Covered(k)
    BY DEF OnRedis
  <1>4. /\ Cardinality(Holders(k)) \in Nat /\ Cardinality(Holders(k)') \in Nat
        /\ Cardinality(Holders(k)') = Cardinality(Holders(k)) + b - a
    <2>1. /\ Cardinality(Holders(k)) \in Nat /\ Cardinality(Holders(k)') \in Nat
          /\ p \in Holders(k) /\ p \notin Holders(k)' =>
                Cardinality(Holders(k)') = Cardinality(Holders(k)) - 1
          /\ p \notin Holders(k) /\ p \in Holders(k)' =>
                Cardinality(Holders(k)') = Cardinality(Holders(k)) + 1
          /\ (p \in Holders(k) <=> p \in Holders(k)') =>
                Cardinality(Holders(k)') = Cardinality(Holders(k))
      BY HoldersMove
    <2>2. QED
      BY <2>1
  <1>. DEFINE h == Cardinality(Holders(k))
              i == Cardinality(Holders(k)')
              x == passed[k]
              y == passed'[k]
              c == counter[k].count
              e == counter'[k].count
  <1>5. h \in Nat /\ i \in Nat /\ i = h + b - a /\ x + h <= c /\ x + h <= MaxAttempts
    BY <1>3, <1>4 DEF Covered
  <1>6. x \in Int /\ y \in Int /\ c \in Int /\ e \in Int /\ MaxAttempts \in Int
    BY <1>2, LimitAssumption
  <1>7. y + b <= x + a + d /\ c + d <= e /\ (d = 1 => c < MaxAttempts)
    OBVIOUS
  <1>. HIDE DEF h, i, x, y, c, e
  <1>8. y + i <= e /\ y + i <= MaxAttempts
    BY <1>5, <1>6, <1>7
  <1>9. QED
    BY <1>8 DEF Covered, h, i, x, y, c, e

\* A request goes on, and neither it nor the counters matter to what is covered.
LEMMA CoverStays ==
  ASSUME TypeOK, TypeOK', OnRedis, NEW p \in Proc, NEW r \in Request, r.counted = {},
         req' = [req EXCEPT ![p] = r], passed' = passed,
         \A k \in Key : counter[k].count <= counter'[k].count
  PROVE  \A k \in Key : Covered(k)'
  <1>. SUFFICES ASSUME NEW k \in Key PROVE Covered(k)'
    OBVIOUS
  <1>1. req'[p] = r /\ \A q \in Proc \ {p} : req'[q] = req[q]
    BY DEF TypeOK
  <1>2. p \notin Holders(k)'
    BY <1>1 DEF Holders
  <1>3. passed[k] \in Int /\ counter[k].count \in Int /\ counter'[k].count \in Int
    BY DEF TypeOK, Counter
  <1>. DEFINE a == IF p \in Holders(k) THEN 1 ELSE 0
  <1>4. a \in {0, 1} /\ (p \in Holders(k) <=> a = 1) /\ passed'[k] + 0 <= passed[k] + a + 0
    BY <1>3
  <1>5. counter[k].count + 0 <= counter'[k].count
    BY <1>3
  <1>. HIDE DEF a
  <1>6. QED
    BY <1>1, <1>2, <1>4, <1>5, CoverMoves

\* The attempt of r, counted in time, goes on to the password check.
LEMMA CoverPasses ==
  ASSUME TypeOK, TypeOK', OnRedis, NEW p \in Proc, NEW r \in Request, PassOn(p, r), NEW k0 \in Key,
         req[p].counted \cup {k0} = r.counted \/ r.counted = req[p].counted \/ r.counted = {},
         k0 \notin req[p].counted, req[p].worst <= MaxAttempts \/ r.counted = {},
         \A k \in Key : counter[k].count <= counter'[k].count,
         k0 \in r.counted => counter'[k0].count = counter[k0].count + 1 /\ counter'[k0].count <= MaxAttempts
  PROVE  \A k \in Key : Covered(k)'
  <1>. SUFFICES ASSUME NEW k \in Key PROVE Covered(k)'
    OBVIOUS
  <1>1. req'[p].counted = {} /\ \A q \in Proc \ {p} : req'[q] = req[q]
    BY DEF TypeOK, PassOn, Request
  <1>2. p \notin Holders(k)'
    BY <1>1 DEF Holders
  <1>3. /\ passed[k] \in Int /\ passed'[k] \in Int /\ counter[k].count \in Int /\ counter'[k].count \in Int
        /\ passed[k] \in 0..Cap
    BY DEF TypeOK, Counter
  <1>. DEFINE a == IF p \in Holders(k) THEN 1 ELSE 0
              d == IF k = k0 /\ k0 \in r.counted THEN 1 ELSE 0
  <1>4. a \in {0, 1} /\ d \in {0, 1} /\ (p \in Holders(k) <=> a = 1)
    OBVIOUS
  <1>5. passed'[k] = (IF k \in r.counted THEN Plus(passed[k]) ELSE passed[k]) /\ Plus(passed[k]) <= passed[k] + 1
    BY <1>3, PlusFacts DEF PassOn
  <1>6. passed'[k] + 0 <= passed[k] + a + d
    <2>1. CASE k \notin r.counted
      BY <1>3, <1>4, <1>5, <2>1
    <2>2. CASE k \in r.counted /\ k = k0
      BY <1>3, <1>4, <1>5, <2>2
    <2>3. CASE k \in r.counted /\ k # k0
      <3>1. p \in Holders(k)
        BY <2>3 DEF Holders
      <3>2. QED
        BY <1>3, <1>4, <1>5, <2>3, <3>1
    <2>4. QED
      BY <2>1, <2>2, <2>3
  <1>7. counter[k].count + d <= counter'[k].count /\ (d = 1 => counter[k].count < MaxAttempts)
    BY <1>3, LimitAssumption
  <1>. HIDE DEF a, d
  <1>8. QED
    BY <1>1, <1>2, <1>4, <1>6, <1>7, CoverMoves

-----------------------------------------------------------------------------
(* Redis: the steps.                                                       *)

\* The requests other than p stay as they were in shape and in what they know.
LEMMA OthersStay ==
  ASSUME TypeOK, TypeOK', OnRedis, NEW p \in Proc, \A q \in Proc \ {p} : req'[q] = req[q],
         faults' = 0 => faults = 0,
         \A q \in Proc \ {p} : req[q].pc = "clear" /\ req[q].at = "name"
             /\ counter[req[q].ip].count <= since[q][req[q].ip]
                => counter'[req[q].ip].count <= since'[q][req[q].ip]
  PROVE  \A q \in Proc \ {p} : Shape(req[q])' /\ AddressCleared(q)'
  BY DEF OnRedis, Shape, AddressCleared

\* An attempt that is counted is new to every request whose password was right.
LEMMA CountedOthers ==
  ASSUME TypeOK, TypeOK', NEW k \in Key, Counted(k), Put(k, Plus(counter[k].count)), NEW q \in Proc,
         req[q].pc = "clear", counter[req[q].ip].count <= since[q][req[q].ip]
  PROVE  counter'[req[q].ip].count <= since'[q][req[q].ip]
  <1>. DEFINE i == req[q].ip
  <1>1. i \in Key /\ i \in Keys(req[q])
    BY Facts DEF Keys, Key
  <1>2. counter[i].count \in 0..Cap /\ since[q][i] \in 0..Cap /\ Plus(counter[k].count) \in 0..Cap
    BY <1>1, Facts
  <1>3. /\ counter'[k].count = Plus(counter[k].count)
        /\ \A x \in Key \ {k} : counter'[x] = counter[x]
    BY <1>2, PutTyped
  <1>4. CASE i = k
    <2>1. since'[q][i] = Plus(since[q][i])
      BY <1>1, <1>4 DEF Counted, TypeOK
    <2>2. QED
      BY <1>2, <1>3, <1>4, <2>1, PlusMonotone
  <1>5. CASE i # k
    <2>1. since'[q][i] = since[q][i]
      BY <1>1, <1>5 DEF Counted, TypeOK
    <2>2. QED
      BY <1>1, <1>3, <1>5, <2>1
  <1>6. QED
    BY <1>4, <1>5

\* The counters after an increment.
LEMMA PutCounts ==
  ASSUME TypeOK, NEW k0 \in Key, Put(k0, Plus(counter[k0].count))
  PROVE  \A k \in Key : counter[k].count <= counter'[k].count
  <1>1. \A k \in Key : counter[k].count \in 0..Cap
    BY DEF TypeOK, Counter
  <1>2. /\ Plus(counter[k0].count) \in 0..Cap /\ counter[k0].count <= Plus(counter[k0].count)
    BY <1>1, PlusFacts
  <1>3. /\ counter'[k0].count = Plus(counter[k0].count)
        /\ \A x \in Key \ {k0} : counter'[x] = counter[x]
    BY <1>2, PutTyped
  <1>4. QED
    BY <1>1, <1>2, <1>3

\* increment has returned n for key k0, under which r is counted or not.
LEMMA ReturnedKeeps ==
  ASSUME TypeOK, TypeOK', OnRedis, NEW p \in Proc, req[p].pc = "count", NEW k0 \in Key, k0 = KeyOf(req[p]),
         NEW c \in SUBSET Key, c = req[p].counted \/ c = req[p].counted \cup {k0}, NEW n \in 0..Cap,
         Returned(p, [req[p] EXCEPT !.counted = c], n),
         \A k \in Key : counter[k].count <= counter'[k].count,
         k0 \in c => n = Plus(counter[k0].count) /\ counter'[k0].count = n
  PROVE  /\ \A k \in Key : Covered(k)'
         /\ Shape(req[p])' /\ req'[p].pc # "clear" /\ reply'.kind # "success"
         /\ \A q \in Proc \ {p} : req'[q] = req[q]
  <1>. PICK r \in Request : r = [req[p] EXCEPT !.counted = c]
    <2>1. [req[p] EXCEPT !.counted = c] \in Request
      BY Facts DEF Request
    <2>2. QED
      BY <2>1
  <1>1. /\ r.counted = c /\ r.at = req[p].at /\ r.ip = req[p].ip /\ r.name = req[p].name /\ r.worst = req[p].worst
        /\ r.pc = "count" /\ r.worst \in 0..Cap /\ r.ip \in Ip /\ r.name \in Name /\ req[p] \in Request
    BY Facts DEF Request
  <1>2. Shape(req[p])
    BY DEF OnRedis
  <1>3. req \in [Proc -> Request]
    BY DEF TypeOK
  <1>4. \A k \in Key : counter[k].count \in 0..Cap
    BY DEF TypeOK, Counter
  <1>5. CASE /\ r.at = "ip" /\ reply' = Silent(p) /\ UNCHANGED passed
             /\ req' = [req EXCEPT ![p] = [r EXCEPT !.pc = "count", !.at = "name", !.worst = n, !.read = 0]]
    <2>1. req[p].counted = {} /\ k0 = r.ip
      BY <1>1, <1>2, <1>5 DEF Shape, KeyOf
    <2>2. /\ req'[p].counted = c /\ req'[p].worst = n /\ req'[p].pc = "count" /\ req'[p].at = "name"
          /\ req'[p].ip = r.ip
          /\ \A q \in Proc \ {p} : req'[q] = req[q]
      BY <1>1, <1>3, <1>5 DEF Request
    <2>3. ASSUME NEW k \in Key PROVE Covered(k)'
      <3>. DEFINE b == IF k \in c /\ n <= MaxAttempts THEN 1 ELSE 0
      <3>1. b \in {0, 1} /\ (p \in Holders(k)' <=> b = 1)
        BY <2>2 DEF Holders
      <3>2. p \notin Holders(k)
        BY <2>1 DEF Holders
      <3>3. passed'[k] + b <= passed[k] + 0 + b
        BY <1>5, <3>1 DEF TypeOK
      <3>4. counter[k].count + b <= counter'[k].count /\ (b = 1 => counter[k].count < MaxAttempts)
        <4>1. CASE b = 0
          <5>1. counter[k].count \in Int /\ counter'[k].count \in Int
            BY DEF TypeOK, Counter
          <5>2. QED
            BY <4>1, <5>1
        <4>2. CASE b = 1
          <5>1. k = k0 /\ n <= MaxAttempts /\ n = Plus(counter[k].count) /\ counter'[k].count = n
            BY <2>1, <4>2
          <5>2. n = counter[k].count + 1
            BY <1>4, <5>1, PlusFacts
          <5>3. QED
            BY <1>4, <4>2, <5>1, <5>2, LimitAssumption
        <4>3. QED
          BY <3>1, <4>1, <4>2
      <3>. HIDE DEF b
      <3>5. QED
        BY <2>2, <3>1, <3>2, <3>3, <3>4, CoverMoves
    <2>4. Shape(req[p])'
      BY <2>1, <2>2 DEF Shape
    <2>5. QED
      BY <1>5, <2>2, <2>3, <2>4 DEF Silent
  <1>6. CASE /\ r.at = "name" /\ Allowed(Worst(r.worst, n)) /\ PassOn(p, r)
             /\ reply' = [kind |-> "allowed", by |-> p, remaining |-> Remaining(Worst(r.worst, n))]
    <2>1. n <= MaxAttempts /\ r.worst <= MaxAttempts
      BY <1>1, <1>6, WorstFacts, LimitAssumption DEF Allowed
    <2>2. k0 \notin req[p].counted
      BY <1>1, <1>2, <1>6, KeyAssumption DEF Shape, KeyOf
    <2>3. k0 \in c => counter'[k0].count = counter[k0].count + 1 /\ counter'[k0].count <= MaxAttempts
      BY <1>4, <2>1, PlusFacts
    <2>4. \A k \in Key : Covered(k)'
      BY <1>1, <1>6, <2>1, <2>2, <2>3, CoverPasses
    <2>5. req' = [req EXCEPT ![p] = [r EXCEPT !.pc = "verify", !.at = "ip", !.worst = 0, !.read = 0, !.counted = {}]]
      BY <1>6 DEF PassOn
    <2>6. /\ req'[p].pc = "verify" /\ req'[p].at = "ip" /\ req'[p].counted = {}
          /\ \A q \in Proc \ {p} : req'[q] = req[q]
      BY <1>3, <2>5 DEF Request
    <2>7. QED
      BY <1>6, <2>4, <2>6 DEF Shape
  <1>7. CASE /\ req' = [req EXCEPT ![p] = Idle(r.ip, r.name)] /\ UNCHANGED passed
             /\ reply' = [kind |-> "refused", by |-> p, remaining |-> Remaining(Worst(r.worst, n))]
    <2>1. Idle(r.ip, r.name) \in Request /\ Idle(r.ip, r.name).counted = {}
      BY <1>1, IdleTyped DEF Idle
    <2>2. \A k \in Key : Covered(k)'
      BY <1>7, <2>1, CoverStays
    <2>3. req'[p] = Idle(r.ip, r.name) /\ \A q \in Proc \ {p} : req'[q] = req[q]
      BY <1>3, <1>7
    <2>4. QED
      BY <1>7, <2>2, <2>3 DEF Shape, Idle
  <1>8. QED
    BY <1>1, <1>5, <1>6, <1>7 DEF Returned

LEMMA AttemptKeeps ==
  ASSUME TypeOK, TypeOK', OnRedis, NEW p \in Proc, Attempt(p)
  PROVE  OnRedis' /\ reply'.kind # "success"
  <1>1. PICK i \in Ip, n \in Name : req' = [req EXCEPT ![p] = [Idle(i, n) EXCEPT !.pc = "count"]]
    BY DEF Attempt
  <1>. DEFINE r == [Idle(i, n) EXCEPT !.pc = "count"]
  <1>2. r \in Request /\ r.counted = {} /\ r.pc = "count"
    BY IdleTyped DEF Idle, Request
  <1>. HIDE DEF r
  <1>3. req'[p] = r /\ \A q \in Proc \ {p} : req'[q] = req[q]
    BY <1>1 DEF TypeOK, r
  <1>4. \A k \in Key : counter[k].count <= counter'[k].count
    BY DEF Attempt, TypeOK, Counter
  <1>5. \A k \in Key : Covered(k)'
    BY <1>1, <1>2, <1>4, CoverStays DEF Attempt, r
  <1>6. \A q \in Proc \ {p} : since'[q] = since[q]
    BY DEF Attempt, TypeOK
  <1>7. \A q \in Proc \ {p} : Shape(req[q])' /\ AddressCleared(q)'
    BY <1>3, <1>6, OthersStay DEF Attempt
  <1>8. Shape(req[p])' /\ AddressCleared(p)'
    BY <1>2, <1>3 DEF Shape, AddressCleared
  <1>9. QED
    BY <1>5, <1>7, <1>8 DEF OnRedis, Attempt, Silent

LEMMA CountKeeps ==
  ASSUME TypeOK, TypeOK', OnRedis, NEW p \in Proc, Count(p)
  PROVE  OnRedis' /\ reply'.kind # "success"
  <1>. DEFINE k == KeyOf(req[p])
              n == Plus(counter[k].count)
              c == req[p].counted \cup {k}
  <1>1. k \in Key /\ n \in 0..Cap /\ c \in SUBSET Key /\ req[p] \in Request
    BY Facts
  <1>2. req[p].pc = "count" /\ Put(k, n) /\ Counted(k) /\ Returned(p, [req[p] EXCEPT !.counted = c], n)
          /\ UNCHANGED faults
    BY DEF Count
  <1>3. counter'[k].count = n
    BY <1>1, <1>2, PutTyped
  <1>4. \A x \in Key : counter[x].count <= counter'[x].count
    BY <1>1, <1>2, PutCounts
  <1>5. /\ \A x \in Key : Covered(x)'
        /\ Shape(req[p])' /\ req'[p].pc # "clear" /\ reply'.kind # "success"
        /\ \A q \in Proc \ {p} : req'[q] = req[q]
    <2>1. k = KeyOf(req[p]) /\ n = Plus(counter[k].count) /\ c = req[p].counted \cup {k}
      OBVIOUS
    <2>. HIDE DEF c, n, k
    <2>2. QED
      BY <1>1, <1>2, <1>3, <1>4, <2>1, ReturnedKeeps, SMTT(40)
  <1>6. \A q \in Proc \ {p} : Shape(req[q])' /\ AddressCleared(q)'
    BY <1>1, <1>2, <1>5, CountedOthers, OthersStay
  <1>7. AddressCleared(p)'
    BY <1>5 DEF AddressCleared
  <1>8. QED
    BY <1>5, <1>6, <1>7 DEF OnRedis

LEMMA VerifyKeeps ==
  ASSUME TypeOK, TypeOK', OnRedis, NEW p \in Proc, Verify(p)
  PROVE  OnRedis' /\ reply'.kind # "success"
  <1>1. req[p] \in Request /\ req[p].ip \in Ip /\ req[p].name \in Name /\ req[p].pc = "verify" /\ Shape(req[p])
    BY Facts DEF Verify, OnRedis
  <1>2. req[p].counted = {} /\ req[p].at = "ip"
    BY <1>1 DEF Shape
  <1>3. PICK r \in Request : /\ req' = [req EXCEPT ![p] = r] /\ r.counted = {} /\ r.at = "ip"
                             /\ r.pc \in {"idle", "clear"}
    <2>1. Idle(req[p].ip, req[p].name) \in Request /\ [req[p] EXCEPT !.pc = "clear"] \in Request
      BY <1>1, IdleTyped DEF Request
    <2>2. [req[p] EXCEPT !.pc = "clear"].counted = {} /\ [req[p] EXCEPT !.pc = "clear"].at = "ip"
            /\ [req[p] EXCEPT !.pc = "clear"].pc = "clear"
      BY <1>1, <1>2 DEF Request
    <2>3. \/ req' = [req EXCEPT ![p] = Idle(req[p].ip, req[p].name)]
          \/ req' = [req EXCEPT ![p] = [req[p] EXCEPT !.pc = "clear"]]
      BY DEF Verify, TypeOK
    <2>4. QED
      BY <2>1, <2>2, <2>3 DEF Idle
  <1>4. req'[p] = r /\ \A q \in Proc \ {p} : req'[q] = req[q]
    BY <1>3 DEF TypeOK
  <1>5. \A k \in Key : counter[k].count <= counter'[k].count
    BY DEF Verify, TypeOK, Counter
  <1>6. \A k \in Key : Covered(k)'
    BY <1>3, <1>5, CoverStays DEF Verify
  <1>7. \A q \in Proc \ {p} : since'[q] = since[q]
    BY DEF Verify, TypeOK
  <1>8. \A q \in Proc \ {p} : Shape(req[q])' /\ AddressCleared(q)'
    BY <1>4, <1>7, OthersStay DEF Verify
  <1>9. Shape(req[p])' /\ AddressCleared(p)'
    BY <1>3, <1>4 DEF Shape, AddressCleared
  <1>10. QED
    BY <1>6, <1>8, <1>9 DEF OnRedis, Verify, Answer, Silent

LEMMA FailCountKeeps ==
  ASSUME TypeOK, TypeOK', OnRedis, NEW p \in Proc, FailCount(p)
  PROVE  OnRedis' /\ reply'.kind # "success"
  <1>. DEFINE k == KeyOf(req[p])
              c == req[p].counted \ {k}
              r == [req[p] EXCEPT !.counted = c]
  <1>1. k \in Key /\ Plus(counter[k].count) \in 0..Cap /\ c \in SUBSET Key /\ req[p] \in Request
          /\ req[p].at \in {"ip", "name"}
    BY Facts
  <1>2. Shape(req[p])
    BY DEF OnRedis
  <1>3. r.pc = req[p].pc /\ r \in Request
    BY <1>1 DEF Request
  <1>4. req[p].pc = "count"
    BY <1>2, <1>3 DEF Shape, FailCount
  <1>5. \/ UNCHANGED <<counter, since>>
        \/ Put(k, Plus(counter[k].count)) /\ Counted(k)
    BY <1>3, <1>4 DEF FailCount
  <1>6. k \notin req[p].counted /\ c = req[p].counted
    <2>1. req[p].counted \subseteq {req[p].ip} /\ (req[p].counted # {} => req[p].at = "name")
      BY <1>2 DEF Shape
    <2>2. req[p].at = "name" => k # req[p].ip
      BY Facts, KeyAssumption DEF KeyOf
    <2>3. QED
      BY <2>1, <2>2
  <1>7. \A x \in Key : counter[x].count <= counter'[x].count
    <2>1. CASE UNCHANGED <<counter, since>>
      BY <2>1 DEF TypeOK, Counter
    <2>2. CASE Put(k, Plus(counter[k].count))
      BY <1>1, <2>2, PutCounts
    <2>3. QED
      BY <1>5, <2>1, <2>2
  <1>8. /\ \A x \in Key : Covered(x)'
        /\ Shape(req[p])' /\ req'[p].pc # "clear" /\ reply'.kind # "success"
        /\ \A q \in Proc \ {p} : req'[q] = req[q]
    <2>1. CASE Returned(p, r, 0)
      <3>1. 0 \in 0..Cap /\ k \notin c
        BY BoundAssumption
      <3>. HIDE DEF c, k
      <3>2. QED
        BY <1>1, <1>4, <1>6, <1>7, <2>1, <3>1, ReturnedKeeps DEF k
    <2>2. CASE PassOn(p, [r EXCEPT !.counted = {}]) /\ reply' = Silent(p)
      <3>1. PICK s \in Request : s = [r EXCEPT !.counted = {}]
        <4>. HIDE DEF r
        <4>1. [r EXCEPT !.counted = {}] \in Request
          BY <1>3 DEF Request
        <4>2. QED
          BY <4>1
      <3>2. PassOn(p, s) /\ s.counted = {}
        <4>. HIDE DEF r
        <4>. QED
          BY <1>3, <2>2, <3>1 DEF Request
      <3>3. \A x \in Key : Covered(x)'
        BY <1>1, <1>6, <1>7, <3>2, CoverPasses
      <3>4. /\ req'[p].pc = "verify" /\ req'[p].at = "ip" /\ req'[p].counted = {}
            /\ \A q \in Proc \ {p} : req'[q] = req[q]
        BY <3>2 DEF PassOn, TypeOK, Request
      <3>5. QED
        BY <2>2, <3>3, <3>4 DEF Shape, Silent
    <2>3. QED
      BY <2>1, <2>2 DEF FailCount
  <1>9. faults' # 0
    BY DEF FailCount, TypeOK
  <1>10. \A q \in Proc \ {p} : Shape(req[q])' /\ AddressCleared(q)'
    BY <1>8, <1>9 DEF OnRedis, Shape, AddressCleared
  <1>11. QED
    BY <1>8, <1>9, <1>10 DEF OnRedis, AddressCleared

LEMMA FailClearKeeps ==
  ASSUME TypeOK, TypeOK', OnRedis, NEW p \in Proc, FailClear(p)
  PROVE  OnRedis' /\ SuccessClears'
  <1>1. req[p] \in Request /\ req[p].ip \in Ip /\ req[p].name \in Name /\ req[p].pc = "clear" /\ Shape(req[p])
    BY Facts DEF FailClear, OnRedis
  <1>2. req[p].counted = {}
    BY <1>1 DEF Shape
  <1>3. PICK r \in Request : req' = [req EXCEPT ![p] = r] /\ r.counted = {} /\ r.pc \in {"idle", "clear"}
    <2>1. Idle(req[p].ip, req[p].name) \in Request /\ [req[p] EXCEPT !.at = "name"] \in Request
      BY <1>1, IdleTyped DEF Request
    <2>2. [req[p] EXCEPT !.at = "name"].counted = {} /\ [req[p] EXCEPT !.at = "name"].pc = "clear"
      BY <1>1, <1>2 DEF Request
    <2>3. \/ req' = [req EXCEPT ![p] = Idle(req[p].ip, req[p].name)]
          \/ req' = [req EXCEPT ![p] = [req[p] EXCEPT !.at = "name"]]
      BY DEF FailClear, Cleared
    <2>4. QED
      BY <2>1, <2>2, <2>3 DEF Idle
  <1>4. req'[p] = r /\ \A q \in Proc \ {p} : req'[q] = req[q]
    BY <1>3 DEF TypeOK
  <1>5. \A k \in Key : counter[k].count <= counter'[k].count
    BY DEF FailClear, TypeOK, Counter
  <1>6. \A k \in Key : Covered(k)'
    BY <1>3, <1>5, CoverStays DEF FailClear
  <1>7. faults' # 0
    BY DEF FailClear, TypeOK
  <1>8. \A q \in Proc : Shape(req[q])' /\ AddressCleared(q)'
    BY <1>3, <1>4, <1>7 DEF OnRedis, Shape, AddressCleared
  <1>9. QED
    BY <1>6, <1>7, <1>8 DEF OnRedis, SuccessClears

\* Attempts counted under K belong to nothing any more.
LEMMA CoverEnds ==
  ASSUME TypeOK, TypeOK', OnRedis, NEW K \in SUBSET Key,
         \A q \in Proc : req'[q].counted = req[q].counted \ K /\ req'[q].worst = req[q].worst,
         \A k \in K : passed'[k] = 0,
         \A k \in Key \ K : passed'[k] = passed[k] /\ counter'[k].count = counter[k].count
  PROVE  \A k \in Key : Covered(k)'
  <1>. SUFFICES ASSUME NEW k \in Key PROVE Covered(k)'
    OBVIOUS
  <1>1. CASE k \in K
    <2>1. Holders(k)' = {}
      BY <1>1 DEF Holders
    <2>2. Cardinality(Holders(k)') = 0
      BY <2>1, FS_EmptySet
    <2>3. counter'[k].count \in 0..Cap
      BY DEF TypeOK, Counter
    <2>4. QED
      BY <1>1, <2>2, <2>3, LimitAssumption DEF Covered
  <1>2. CASE k \notin K
    <2>1. Holders(k)' = Holders(k)
      BY <1>2 DEF Holders
    <2>2. Covered(k)
      BY DEF OnRedis
    <2>3. QED
      BY <1>2, <2>1, <2>2 DEF Covered
  <1>3. QED
    BY <1>1, <1>2

LEMMA ClearKeeps ==
  ASSUME TypeOK, TypeOK', OnRedis, NEW p \in Proc, Clear(p)
  PROVE  OnRedis' /\ SuccessClears'
  <1>. DEFINE k == KeyOf(req[p])
  <1>1. /\ req[p] \in Request /\ req[p].ip \in Ip /\ req[p].name \in Name /\ req[p].at \in {"ip", "name"}
        /\ req[p].pc = "clear" /\ Shape(req[p]) /\ AddressCleared(p) /\ k \in Key
    BY Facts DEF Clear, OnRedis
  <1>2. req[p].counted = {}
    BY <1>1 DEF Shape
  <1>3. /\ counter' = [counter EXCEPT ![k] = Gone] /\ passed' = [passed EXCEPT ![k] = 0]
        /\ Cleared(p, Detached(k)) /\ UNCHANGED <<since, faults>>
    BY DEF Clear
  <1>4. /\ counter'[k].count = 0 /\ passed'[k] = 0
        /\ \A x \in Key \ {k} : counter'[x] = counter[x] /\ passed'[x] = passed[x]
    BY <1>1, <1>3 DEF TypeOK, Gone
  <1>5. \A x \in Key : counter'[x].count <= counter[x].count
    <2>1. \A x \in Key : counter[x].count \in 0..Cap
      BY DEF TypeOK, Counter
    <2>2. QED
      BY <1>4, <2>1
  <1>6. /\ \A q \in Proc \ {p} : req'[q] = [req[q] EXCEPT !.counted = @ \ {k}]
        /\ req'[p] = IF req[p].at = "name" THEN Idle(req[p].ip, req[p].name) ELSE [req[p] EXCEPT !.at = "name"]
    BY <1>1, <1>3 DEF Cleared, LastCleared, Detached
  <1>7. /\ \A q \in Proc \ {p} : /\ req'[q].counted = req[q].counted \ {k} /\ req'[q].worst = req[q].worst
                                 /\ req'[q].pc = req[q].pc /\ req'[q].at = req[q].at /\ req'[q].ip = req[q].ip
        /\ req'[p].counted = {} /\ req'[p].ip = req[p].ip
        /\ req[p].at = "name" => req'[p].pc = "idle" /\ Keys(req'[p]) = {req[p].ip, req[p].name}
        /\ req[p].at = "ip" => req'[p].pc = "clear" /\ req'[p].at = "name"
    <2>1. \A q \in Proc : req[q] \in Request
      BY DEF TypeOK
    <2>2. ASSUME NEW q \in Proc \ {p}
          PROVE  /\ req'[q].counted = req[q].counted \ {k} /\ req'[q].worst = req[q].worst
                 /\ req'[q].pc = req[q].pc /\ req'[q].at = req[q].at /\ req'[q].ip = req[q].ip
      <3>. HIDE DEF k
      <3>. QED
        BY <1>6, <2>1 DEF Request
    <2>3. CASE req[p].at = "name"
      BY <1>6, <2>2, <2>3 DEF Idle, Keys
    <2>4. CASE req[p].at = "ip"
      <3>1. req'[p] = [req[p] EXCEPT !.at = "name"]
        BY <1>6, <2>4
      <3>2. req'[p].counted = {} /\ req'[p].ip = req[p].ip /\ req'[p].pc = "clear" /\ req'[p].at = "name"
        BY <1>1, <1>2, <3>1 DEF Request
      <3>3. QED
        BY <2>2, <2>4, <3>2
    <2>5. QED
      BY <1>1, <2>3, <2>4
  <1>8. \A x \in Key : Covered(x)'
    <2>. SUFFICES ASSUME NEW x \in Key PROVE Covered(x)'
      OBVIOUS
    <2>1. CASE x = k
      <3>1. Holders(x)' = {}
        BY <1>7, <2>1 DEF Holders
      <3>2. Cardinality(Holders(x)') = 0
        BY <3>1, FS_EmptySet
      <3>3. QED
        BY <1>4, <2>1, <3>2, LimitAssumption DEF Covered
    <2>2. CASE x # k
      <3>1. Holders(x)' = Holders(x)
        BY <1>2, <1>7, <2>2 DEF Holders
      <3>2. Covered(x)
        BY DEF OnRedis
      <3>3. QED
        BY <1>4, <2>2, <3>1, <3>2 DEF Covered
    <2>3. QED
      BY <2>1, <2>2
  <1>9. ASSUME NEW q \in Proc \ {p} PROVE Shape(req[q])' /\ AddressCleared(q)'
    <2>1. Shape(req[q]) /\ AddressCleared(q) /\ req[q].ip \in Key
      BY Facts DEF OnRedis, Key
    <2>2. Shape(req'[q])
      BY <1>7, <2>1 DEF Shape
    <2>3. counter[req[q].ip].count \in Int /\ counter'[req[q].ip].count \in Int /\ since[q][req[q].ip] \in Int
      BY <2>1 DEF TypeOK, Counter
    <2>4. AddressCleared(q)'
      BY <1>3, <1>5, <1>7, <2>1, <2>3 DEF AddressCleared
    <2>5. QED
      BY <2>2, <2>4 DEF Shape
  <1>10. Shape(req[p])' /\ AddressCleared(p)'
    <2>1. req[p].at = "ip" => k = req[p].ip
      BY DEF KeyOf
    <2>2. since[p][k] \in 0..Cap
      BY <1>1 DEF TypeOK
    <2>3. QED
      BY <1>1, <1>3, <1>4, <1>7, <2>1, <2>2 DEF Shape, AddressCleared
  <1>11. SuccessClears'
    <2>. SUFFICES ASSUME reply'.kind = "success", faults' = 0
                  PROVE  \A x \in Keys(req'[reply'.by]) : counter'[x].count <= since'[reply'.by][x]
      BY DEF SuccessClears
    <2>1. req[p].at = "name" /\ reply'.by = p
      BY <1>3 DEF Cleared, LastCleared, Answer, Silent
    <2>2. Keys(req'[p]) = {req[p].ip, req[p].name} /\ k = req[p].name /\ k # req[p].ip
      BY <1>1, <1>7, <2>1, KeyAssumption DEF KeyOf
    <2>3. counter'[req[p].name].count <= since'[p][req[p].name]
      BY <1>1, <1>3, <1>4, <2>2 DEF TypeOK
    <2>4. counter'[req[p].ip].count <= since'[p][req[p].ip]
      BY <1>1, <1>3, <1>4, <2>1, <2>2 DEF AddressCleared, Key
    <2>5. QED
      BY <2>1, <2>2, <2>3, <2>4
  <1>12. QED
    BY <1>8, <1>9, <1>10, <1>11 DEF OnRedis

LEMMA TickKeeps ==
  ASSUME TypeOK, TypeOK', OnRedis, Tick
  PROVE  OnRedis' /\ reply'.kind # "success"
  <1>. DEFINE ending == {k \in Key : counter[k].ttl = 1}
  <1>1. /\ \A k \in Key \ ending : counter'[k].count = counter[k].count /\ passed'[k] = passed[k]
        /\ \A k \in ending : counter'[k].count = 0 /\ passed'[k] = 0
    BY DEF Tick, TypeOK, Counter, Gone
  <1>2. \A q \in Proc : /\ req'[q].counted = req[q].counted \ ending /\ req'[q].worst = req[q].worst
                       /\ req'[q].pc = req[q].pc /\ req'[q].at = req[q].at /\ req'[q].ip = req[q].ip
    <2>1. \A q \in Proc : req'[q] = [req[q] EXCEPT !.counted = @ \ ending] /\ req[q] \in Request
      BY DEF Tick, TypeOK
    <2>. HIDE DEF ending
    <2>2. QED
      BY <2>1 DEF Request
  <1>. HIDE DEF ending
  <1>3. \A k \in Key : Covered(k)'
    <2>1. ending \in SUBSET Key
      BY DEF ending
    <2>2. QED
      BY <1>1, <1>2, <2>1, CoverEnds
  <1>4. ASSUME NEW q \in Proc PROVE Shape(req[q])' /\ AddressCleared(q)'
    <2>1. Shape(req[q]) /\ AddressCleared(q) /\ req[q].ip \in Key
      BY Facts DEF OnRedis, Key
    <2>2. Shape(req'[q])
      BY <1>2, <2>1 DEF Shape
    <2>3. counter[req[q].ip].count \in 0..Cap /\ since[q][req[q].ip] \in 0..Cap
      BY <2>1 DEF TypeOK, Counter
    <2>4. counter'[req[q].ip].count <= counter[req[q].ip].count
      BY <1>1, <2>1, <2>3
    <2>5. AddressCleared(q)'
      <3>1. faults' = faults /\ since' = since /\ counter'[req[q].ip].count \in 0..Cap
        BY <2>1 DEF Tick, TypeOK, Counter
      <3>2. QED
        BY <1>2, <2>1, <2>3, <2>4, <3>1 DEF AddressCleared
    <2>6. QED
      BY <2>2, <2>5 DEF Shape
  <1>5. QED
    BY <1>3, <1>4 DEF OnRedis, Tick, Silent

-----------------------------------------------------------------------------
LEMMA NextIInv == ASSUME IInv, [Next]_vars PROVE IInv'
  <1>1. CASE UNCHANGED vars
    <2>1. TypeOK' /\ SuccessClears'
      BY <1>1 DEF vars, IInv, TypeOK, SuccessClears
    <2>2. \A k : Holders(k)' = Holders(k)
      BY <1>1 DEF vars, Holders
    <2>3. OnRedis => OnRedis'
      BY <1>1, <2>2 DEF vars, OnRedis, Shape, AddressCleared, Covered
    <2>4. QED
      BY <1>1, <2>1, <2>3 DEF vars, IInv
  <1>2. CASE Next
    <2>1. TypeOK /\ TypeOK' /\ backend' = backend
      BY <1>2, NextTyped DEF IInv, Next
    <2>2. ASSUME backend = "redis" PROVE OnRedis' /\ SuccessClears'
      <3>1. OnRedis
        BY <2>2 DEF IInv
      <3>2. CASE Tick
        BY <2>1, <3>1, <3>2, TickKeeps DEF SuccessClears
      <3>3. ASSUME NEW p \in Proc, Attempt(p) PROVE OnRedis' /\ SuccessClears'
        BY <2>1, <3>1, <3>3, AttemptKeeps DEF SuccessClears
      <3>4. ASSUME NEW p \in Proc, Count(p) PROVE OnRedis' /\ SuccessClears'
        BY <2>1, <3>1, <3>4, CountKeeps DEF SuccessClears
      <3>5. ASSUME NEW p \in Proc, Verify(p) PROVE OnRedis' /\ SuccessClears'
        BY <2>1, <3>1, <3>5, VerifyKeeps DEF SuccessClears
      <3>6. ASSUME NEW p \in Proc, Clear(p) PROVE OnRedis' /\ SuccessClears'
        BY <2>1, <3>1, <3>6, ClearKeeps
      <3>7. ASSUME NEW p \in Proc, FailCount(p) PROVE OnRedis' /\ SuccessClears'
        BY <2>1, <3>1, <3>7, FailCountKeeps DEF SuccessClears
      <3>8. ASSUME NEW p \in Proc, FailClear(p) PROVE OnRedis' /\ SuccessClears'
        BY <2>1, <3>1, <3>8, FailClearKeeps
      <3>9. ASSUME NEW p \in Proc PROVE ~Read(p) /\ ~Store(p)
        BY <2>2, <3>1 DEF Read, Store, OnRedis, Shape
      <3>10. QED
        BY <1>2, <3>2, <3>3, <3>4, <3>5, <3>6, <3>7, <3>8, <3>9 DEF Next, Step
    <2>3. QED
      BY <2>1, <2>2 DEF IInv, SuccessClears
  <1>3. QED
    BY <1>1, <1>2

THEOREM Invariance == Spec => []IInv
  BY InitIInv, NextIInv, PTL DEF Spec

\* Every variable keeps its type, on both backends and whatever fails.
THEOREM TypeCorrect == Spec => []TypeOK
  <1>1. IInv => TypeOK
    BY DEF IInv
  <1>2. QED
    BY <1>1, Invariance, PTL

\* However many logins interleave, and whatever fails, no counter on Redis lets more
\* than login_max_attempts of the attempts it counted through to the password check.
THEOREM Bounded == Spec => []AttemptsBounded
  <1>1. ASSUME IInv, backend = "redis", NEW k \in Key PROVE passed[k] <= MaxAttempts
    <2>1. Covered(k) /\ passed[k] \in 0..Cap
      BY <1>1 DEF IInv, OnRedis, TypeOK
    <2>2. IsFiniteSet(Holders(k))
      BY ProcAssumption, FS_Subset DEF Holders
    <2>3. Cardinality(Holders(k)) \in Nat
      BY <2>2, FS_CardinalityType
    <2>4. QED
      BY <2>1, <2>3, LimitAssumption DEF Covered
  <1>2. IInv => AttemptsBounded
    BY <1>1 DEF AttemptsBounded
  <1>3. QED
    BY <1>2, Invariance, PTL

\* When a login without errors is answered with success, neither counter holds an
\* attempt counted before its password was found right.
THEOREM Forgiven == Spec => []SuccessClears
  <1>1. IInv => SuccessClears
    BY DEF IInv
  <1>2. QED
    BY <1>1, Invariance, PTL

-----------------------------------------------------------------------------
(* How a block ends, on both backends: the safety half of LockoutEnds.     *)

\* A counter that counts has a time to live.
Expiring == \A k \in Key : counter[k].count > 0 => counter[k].ttl > 0

\* What one step does to the counters: all are left alone, or those of one request.
OnlyOwn(p) == \A k \in Key : k \notin Keys(req[p]) => counter'[k] = counter[k]

LEMMA PutOwn ==
  ASSUME TypeOK, NEW p \in Proc, NEW n, Put(KeyOf(req[p]), n)
  PROVE  OnlyOwn(p) /\ (Expiring => Expiring')
  <1>1. KeyOf(req[p]) \in Key /\ KeyOf(req[p]) \in Keys(req[p])
    BY KeyTyped DEF TypeOK
  <1>2. counter' = [counter EXCEPT ![KeyOf(req[p])] = [count |-> n, ttl |-> LoginWindow]]
    BY DEF Put, Ttl
  <1>. DEFINE kk == KeyOf(req[p])
  <1>3. counter'[kk].ttl = LoginWindow /\ \A k \in Key : k # kk => counter'[k] = counter[k]
    BY <1>1, <1>2 DEF TypeOK
  <1>. HIDE DEF kk
  <1>4. LoginWindow > 0
    BY LimitAssumption
  <1>5. QED
    BY <1>1, <1>3, <1>4 DEF OnlyOwn, Expiring, kk

\* Every step of a request renews, deletes or leaves the request's own two counters.
LEMMA StepOwn ==
  ASSUME TypeOK, NEW p \in Proc, Attempt(p) \/ Step(p) \/ FailCount(p) \/ FailClear(p)
  PROVE  OnlyOwn(p) /\ (Expiring => Expiring') /\ (req[p].pc = "idle" => counter' = counter)
  <1>1. CASE counter' = counter
    BY <1>1 DEF OnlyOwn, Expiring
  <1>2. CASE Count(p)
    BY <1>2, PutOwn DEF Count
  <1>3. CASE Store(p)
    BY <1>3, PutOwn DEF Store
  <1>4. CASE Clear(p)
    <2>1. KeyOf(req[p]) \in Keys(req[p])
      BY KeyTyped DEF TypeOK
    <2>2. \A k \in Key : IF k = KeyOf(req[p]) THEN counter'[k].count = 0 ELSE counter'[k] = counter[k]
      BY <1>4 DEF Clear, TypeOK, Gone
    <2>3. QED
      BY <1>4, <2>1, <2>2 DEF OnlyOwn, Expiring, Clear
  <1>5. CASE FailCount(p)
    BY <1>1, <1>5, PutOwn DEF FailCount
  <1>6. QED
    BY <1>1, <1>2, <1>3, <1>4, <1>5 DEF Attempt, Step, Read, Verify, FailClear

LEMMA TickRuns ==
  ASSUME TypeOK, Tick
  PROVE  /\ \A k \in Key : counter[k].ttl > 0 => counter'[k].ttl = counter[k].ttl - 1
         /\ \A k \in Key : counter[k].ttl = 0 => counter'[k] = counter[k]
         /\ Expiring => Expiring'
  <1>1. ASSUME NEW k \in Key
        PROVE  /\ counter[k].ttl > 0 => counter'[k].ttl = counter[k].ttl - 1
               /\ counter[k].ttl = 0 => counter'[k] = counter[k]
               /\ counter'[k].count > 0 => counter'[k].ttl > 0 \/ counter[k].ttl = 0
    <2>1. counter[k] \in Counter
      BY DEF TypeOK
    <2>2. CASE counter[k].ttl = 1
      <3>1. counter'[k] = Gone
        BY <2>2 DEF Tick
      <3>2. QED
        BY <2>2, <3>1 DEF Gone
    <2>3. CASE counter[k].ttl = 0
      BY <2>3 DEF Tick
    <2>4. CASE counter[k].ttl \notin {0, 1}
      <3>1. counter'[k] = [counter[k] EXCEPT !.ttl = @ - 1]
        BY <2>4 DEF Tick
      <3>2. counter'[k].ttl = counter[k].ttl - 1 /\ counter[k].ttl \in Nat
        BY <2>1, <3>1 DEF Counter
      <3>3. QED
        BY <2>4, <3>2
    <2>5. QED
      BY <2>2, <2>3, <2>4
  <1>2. QED
    BY <1>1 DEF Expiring

\* Nobody is blocked for good: a counter that holds attempts always has time to live,
\* no more than login_window, whatever fails (Redis counts and sets the TTL in one MULTI).
THEOREM BlocksExpire == Spec => [](\A k \in Key : counter[k].count > 0 => counter[k].ttl \in 1..LoginWindow)
  <1>1. Init => Expiring
    BY DEF Init, Expiring, Gone
  <1>2. IInv /\ Expiring /\ [Next]_vars => Expiring'
    <2>1. UNCHANGED vars => (Expiring => Expiring')
      BY DEF vars, Expiring
    <2>2. QED
      BY <2>1, TickRuns, StepOwn DEF IInv, Next
  <1>3. IInv /\ Expiring => \A k \in Key : counter[k].count > 0 => counter[k].ttl \in 1..LoginWindow
    BY DEF IInv, TypeOK, Expiring, Counter
  <1>4. QED
    BY <1>1, <1>2, <1>3, Invariance, PTL DEF Spec

\* Only the logins that use an address or a name prolong its block: while none does, its
\* counter stays as it is, and each tick brings its end nearer.
THEOREM BlocksRunDown ==
  Spec => [][/\ \A k \in Key : (\A p \in Proc : ~Uses(p, k)) =>
                    counter'[k] = counter[k] \/ counter'[k].ttl = counter[k].ttl - 1
             /\ Tick => \A k \in Key : counter[k].ttl > 0 => counter'[k].ttl = counter[k].ttl - 1]_vars
  <1>. DEFINE Down == /\ \A k \in Key : (\A p \in Proc : ~Uses(p, k)) =>
                            counter'[k] = counter[k] \/ counter'[k].ttl = counter[k].ttl - 1
                      /\ Tick => \A k \in Key : counter[k].ttl > 0 => counter'[k].ttl = counter[k].ttl - 1
  <1>1. ASSUME IInv, [Next]_vars PROVE Down
    <2>1. TypeOK
      BY <1>1 DEF IInv
    <2>2. CASE UNCHANGED vars
      <3>1. ~Tick
        <4>1. SUFFICES ASSUME Tick PROVE FALSE
          OBVIOUS
        <4>2. PICK k \in Key : counter[k].ttl > 0
          BY <4>1 DEF Tick
        <4>3. counter'[k].ttl = counter[k].ttl - 1 /\ counter'[k].ttl = counter[k].ttl
          BY <2>1, <2>2, <4>1, <4>2, TickRuns DEF vars
        <4>4. QED
          BY <2>1, <4>3 DEF TypeOK, Counter
      <3>2. QED
        BY <2>2, <3>1 DEF vars
    <2>3. CASE Tick
      <3>1. \A k \in Key : counter[k].ttl \in Nat
        BY <2>1 DEF TypeOK, Counter
      <3>2. QED
        BY <2>1, <2>3, <3>1, TickRuns
    <2>4. ASSUME NEW p \in Proc, Attempt(p) \/ Step(p) \/ FailCount(p) \/ FailClear(p), ~Tick PROVE Down
      BY <2>1, <2>4, StepOwn DEF OnlyOwn, Uses
    <2>5. QED
      BY <1>1, <2>2, <2>3, <2>4 DEF Next
  <1>2. QED
    BY <1>1, Invariance, PTL DEF Spec
=============================================================================
