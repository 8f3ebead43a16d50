--------------------------- MODULE SessionsProofs ---------------------------
(***************************************************************************)
(* Proofs about Sessions for every set of sessions, users and requests and *)
(* every setting of the limits: type correctness, the coverage of the user *)
(* index and the bound on the life of an idle session; what a login that   *)
(* runs alone leaves behind; that a session that is over stays over; and   *)
(* that a request has few steps to take.                                   *)
(***************************************************************************)
EXTENDS Sessions, FiniteSetTheorems, TLAPS

\* What holds of the locals r of a running request when the clock reads t and
\* the storage holds st.
Sound(r, t, st) ==
    r.pc # "idle" =>
        /\ r.sid \in Sid
        /\ r.began <= t /\ t <= r.began + MaxLatency
        /\ r.pc \in {"terminate", "exists", "write"} => r.target \in Sid
        /\ r.pc \in {"exists", "write"} /\ r.copy.active => r.copy.last >= r.began
        /\ r.pc = "write" => st[r.target].exp > r.began

RequestsSound == \A p \in Proc : Sound(req[p], now, store)

\* No key is set to expire later than a full period from now.
ExpiriesBounded ==
    /\ \A s \in Sid : store[s].exp <= now + Timeout
    /\ \A u \in User : index[u].exp <= now + Timeout + Grace

\* A session stays in the index of its user until Grace after its expiry.
Indexed ==
    \A s \in Sid : store[s].exp > 0 /\ store[s].exp + Grace > now =>
        /\ s \in index[Owner[s]].ids
        /\ index[Owner[s]].exp >= store[s].exp + Grace

\* The same as TtlTracksActivity of records whose key has expired as well.
TtlBounded ==
    \A s \in Sid : store[s].active => store[s].exp <= store[s].last + Timeout + MaxLatency

IInv == TypeOK /\ RequestsSound /\ ExpiriesBounded /\ Indexed /\ TtlBounded

-----------------------------------------------------------------------------
(* Lemmas about the two ways the storage changes and about a request step. *)

LEMMA IdleType == Idle \in Request
  BY DEF Idle, Request, PC, Op, Back, SessionData, NoData

\* What a running request continues with is a well-formed request that keeps
\* its session and its start and awaits no storage write.
LEMMA AfterSound ==
  ASSUME TypeOK, NEW p \in Proc, NEW t, NEW st, req[p].pc # "idle",
         req[p].sid \in Sid, req[p].began <= t, t <= req[p].began + MaxLatency
  PROVE  After(p) \in Request /\ Sound(After(p), t, st)
  <1>1. req[p] \in Request
    BY DEF TypeOK
  <1>. DEFINE r == [req[p] EXCEPT !.target = NoSid, !.copy = NoData]
  <1>2. r \in Request /\ r.sid = req[p].sid /\ r.began = req[p].began
    BY <1>1 DEF Request, SessionData, NoData
  <1>3. CASE r.back = "sweep"
    <2>1. After(p) = [r EXCEPT !.pc = "sweep"]
      BY <1>3 DEF After
    <2>2. QED
      BY <2>1, <1>2 DEF Request, PC, Sound
  <1>4. CASE r.back = "evict"
    <2>1. After(p) = [r EXCEPT !.pc = "evict"]
      BY <1>4 DEF After
    <2>2. QED
      BY <2>1, <1>2 DEF Request, PC, Sound
  <1>5. CASE r.back = "admit" /\ r.op = "logout"
    <2>1. After(p) = [r EXCEPT !.pc = "terminate", !.target = r.sid, !.back = "out"]
      BY <1>5 DEF After
    <2>2. /\ After(p).pc = "terminate" /\ After(p).sid = r.sid /\ After(p).began = r.began
          /\ After(p).target = r.sid
      BY <2>1, <1>2 DEF Request
    <2>3. After(p) \in Request
      BY <2>1, <1>2 DEF Request, PC, Back
    <2>4. QED
      BY <2>2, <2>3, <1>2 DEF Sound
  <1>6. CASE r.back \notin {"sweep", "evict"} /\ ~(r.back = "admit" /\ r.op = "logout")
    <2>1. After(p) = Idle
      BY <1>6 DEF After
    <2>2. QED
      BY <2>1, IdleType DEF Idle, Sound
  <1>7. QED
    BY <1>3, <1>4, <1>5, <1>6

\* A step that moves one request keeps the others sound as long as the clock
\* stands still and no expiry is brought forward.
LEMMA GotoSound ==
  ASSUME TypeOK, RequestsSound, NEW p \in Proc, NEW r \in Request, Goto(p, r),
         UNCHANGED now, \A s \in Sid : store'[s].exp \in Nat /\ store'[s].exp >= store[s].exp,
         Sound(r, now, store')
  PROVE  req' \in [Proc -> Request] /\ RequestsSound'
  <1>1. req' = [req EXCEPT ![p] = r] /\ req \in [Proc -> Request]
    BY DEF Goto, TypeOK
  <1>2. req' \in [Proc -> Request] /\ req'[p] = r
    BY <1>1
  <1>3. ASSUME NEW q \in Proc
        PROVE  Sound(req'[q], now', store')
    <2>1. CASE q = p
      BY <2>1, <1>2
    <2>2. CASE q # p
      <3>1. req'[q] = req[q] /\ req[q] \in Request /\ Sound(req[q], now, store)
        BY <2>2, <1>1 DEF RequestsSound
      <3>2. req[q].pc = "write" => store'[req[q].target].exp > req[q].began
        BY <3>1 DEF Sound, Request, TypeOK, Record
      <3>3. QED
        BY <3>1, <3>2 DEF Sound
    <2>3. QED
      BY <2>1, <2>2
  <1>4. QED
    BY <1>2, <1>3 DEF RequestsSound

\* RedisSessionStorage.create keeps the storage invariants; the record it stores
\* was last active no longer than MaxLatency ago.
LEMMA CreateEffect ==
  ASSUME IInv, NEW s \in Sid, NEW d \in SessionData, StoreCreate(s, d), UNCHANGED now,
         d.active => now <= d.last + MaxLatency
  PROVE  /\ store' \in [Sid -> Record] /\ index' \in [User -> Index]
         /\ ExpiriesBounded' /\ Indexed' /\ TtlBounded'
         /\ \A x \in Sid : store'[x].exp \in Nat /\ store'[x].exp >= store[x].exp
  <1>. DEFINE u   == Owner[s]
              old == IF IndexLive(u) THEN index[u].ids ELSE {}
              rec == [active |-> d.active, last |-> d.last, exp |-> now + Timeout]
              idx == [ids |-> old \cup {s}, exp |-> now + Timeout + Grace]
  <1>1. /\ store' = [store EXCEPT ![s] = rec] /\ index' = [index EXCEPT ![u] = idx]
        /\ store \in [Sid -> Record] /\ index \in [User -> Index] /\ now \in Nat /\ u \in User
    BY OwnerAssumption DEF StoreCreate, Stored, IInv, TypeOK
  <1>2. rec \in Record /\ idx \in Index
    BY <1>1, TimeAssumption DEF Record, Index, SessionData
  <1>3. store' \in [Sid -> Record] /\ index' \in [User -> Index]
    BY <1>1, <1>2
  <1>4. /\ store'[s] = rec /\ index'[u] = idx
        /\ \A x \in Sid : x # s => store'[x] = store[x]
        /\ \A v \in User : v # u => index'[v] = index[v]
    BY <1>1
  <1>5. ExpiriesBounded'
    BY <1>1, <1>4, TimeAssumption DEF IInv, ExpiriesBounded, Record, Index
  <1>6. \A x \in Sid : store'[x].exp \in Nat /\ store'[x].exp >= store[x].exp
    BY <1>1, <1>4, TimeAssumption DEF IInv, ExpiriesBounded, Record
  <1>7. Indexed'
    <2>. SUFFICES ASSUME NEW x \in Sid, store'[x].exp > 0, store'[x].exp + Grace > now
                  PROVE  /\ x \in index'[Owner[x]].ids
                         /\ index'[Owner[x]].exp >= store'[x].exp + Grace
      BY DEF Indexed
    <2>1. CASE x = s
      BY <2>1, <1>4, <1>1, TimeAssumption
    <2>2. CASE x # s
      <3>1. x \in index[Owner[x]].ids /\ index[Owner[x]].exp >= store[x].exp + Grace
        BY <2>2, <1>4 DEF IInv, Indexed
      <3>2. CASE Owner[x] = u
        <4>1. IndexLive(u)
          BY <3>1, <3>2, <2>2, <1>4, <1>1, TimeAssumption DEF IndexLive, Record, Index
        <4>2. x \in index'[u].ids
          BY <4>1, <3>1, <3>2, <1>4
        <4>3. QED
          BY <4>2, <3>2, <2>2, <1>4, <1>1, TimeAssumption DEF IInv, ExpiriesBounded, Record
      <3>3. CASE Owner[x] # u
        BY <3>3, <3>1, <2>2, <1>4, OwnerAssumption
      <3>4. QED
        BY <3>2, <3>3
    <2>3. QED
      BY <2>1, <2>2
  <1>8. TtlBounded'
    BY <1>1, <1>4, TimeAssumption, LatencyAssumption DEF IInv, TtlBounded, Record, SessionData
  <1>9. QED
    BY <1>3, <1>5, <1>6, <1>7, <1>8

\* So does the second half of RedisSessionStorage.update, although the key may
\* have expired since EXISTS: the index outlives the key by Grace, and the
\* request that saw the key live cannot last that long.
LEMMA WriteEffect ==
  ASSUME IInv, NEW s \in Sid, NEW d \in SessionData, StoreWrite(s, d), UNCHANGED now,
         store[s].exp > 0, store[s].exp + Grace > now,
         d.active => now <= d.last + MaxLatency
  PROVE  /\ store' \in [Sid -> Record] /\ index' \in [User -> Index]
         /\ ExpiriesBounded' /\ Indexed' /\ TtlBounded'
         /\ \A x \in Sid : store'[x].exp \in Nat /\ store'[x].exp >= store[x].exp
  <1>. DEFINE u   == Owner[s]
              rec == [active |-> d.active, last |-> d.last, exp |-> now + Timeout]
  <1>1. /\ store' = [store EXCEPT ![s] = rec]
        /\ store \in [Sid -> Record] /\ index \in [User -> Index] /\ now \in Nat /\ u \in User
    BY OwnerAssumption DEF StoreWrite, Stored, IInv, TypeOK
  <1>2. s \in index[u].ids /\ index[u].exp >= store[s].exp + Grace
    BY DEF IInv, Indexed
  <1>3. IndexLive(u)
    BY <1>1, <1>2, TimeAssumption DEF IndexLive, Record, Index
  <1>4. index' = [index EXCEPT ![u].exp = now + Timeout + Grace]
    BY <1>3 DEF StoreWrite
  <1>5. /\ store'[s] = rec /\ index'[u].exp = now + Timeout + Grace /\ index'[u].ids = index[u].ids
        /\ \A x \in Sid : x # s => store'[x] = store[x]
        /\ \A v \in User : v # u => index'[v] = index[v]
    BY <1>1, <1>4 DEF Index
  <1>6. store' \in [Sid -> Record] /\ index' \in [User -> Index]
    BY <1>1, <1>4, TimeAssumption DEF Record, Index, SessionData
  <1>7. ExpiriesBounded'
    BY <1>1, <1>5, TimeAssumption DEF IInv, ExpiriesBounded, Record, Index
  <1>8. \A x \in Sid : store'[x].exp \in Nat /\ store'[x].exp >= store[x].exp
    BY <1>1, <1>5, TimeAssumption DEF IInv, ExpiriesBounded, Record
  <1>9. Indexed'
    <2>. SUFFICES ASSUME NEW x \in Sid, store'[x].exp > 0, store'[x].exp + Grace > now
                  PROVE  /\ x \in index'[Owner[x]].ids
                         /\ index'[Owner[x]].exp >= store'[x].exp + Grace
      BY DEF Indexed
    <2>1. CASE x = s
      BY <2>1, <1>2, <1>5, <1>1, TimeAssumption
    <2>2. CASE x # s
      <3>1. x \in index[Owner[x]].ids /\ index[Owner[x]].exp >= store[x].exp + Grace
        BY <2>2, <1>5 DEF IInv, Indexed
      <3>2. CASE Owner[x] = u
        BY <3>1, <3>2, <2>2, <1>5, <1>1, TimeAssumption DEF IInv, ExpiriesBounded, Record
      <3>3. CASE Owner[x] # u
        BY <3>3, <3>1, <2>2, <1>5, OwnerAssumption
      <3>4. QED
        BY <3>2, <3>3
    <2>3. QED
      BY <2>1, <2>2
  <1>10. TtlBounded'
    BY <1>1, <1>5, TimeAssumption, LatencyAssumption DEF IInv, TtlBounded, Record, SessionData
  <1>11. QED
    BY <1>6, <1>7, <1>8, <1>9, <1>10

-----------------------------------------------------------------------------
(* The invariant is inductive.                                             *)

BookkeepingOK ==
    /\ lastCleanup \in Nat /\ faults \in Nat
    /\ granted \in SUBSET Sid /\ loggedOut \in SUBSET Sid /\ solo \in SUBSET Proc

\* A request that takes a step which keeps the storage invariants keeps IInv.
LEMMA StorageStep ==
  ASSUME IInv, NEW p \in Proc, NEW r \in Request, Goto(p, r), UNCHANGED now,
         Sound(r, now, store'), BookkeepingOK',
         store' \in [Sid -> Record], index' \in [User -> Index],
         ExpiriesBounded', Indexed', TtlBounded',
         \A x \in Sid : store'[x].exp \in Nat /\ store'[x].exp >= store[x].exp
  PROVE  IInv'
  <1>1. req' \in [Proc -> Request] /\ RequestsSound'
    BY GotoSound DEF IInv
  <1>2. now' \in Nat
    BY DEF IInv, TypeOK
  <1>3. QED
    BY <1>1, <1>2 DEF IInv, TypeOK, BookkeepingOK

\* In particular a step that only reads the storage.
LEMMA ReadStep ==
  ASSUME IInv, NEW p \in Proc, NEW r \in Request, Goto(p, r), UNCHANGED <<now, store, index>>,
         Sound(r, now, store), BookkeepingOK'
  PROVE  IInv'
  <1>1. /\ store' \in [Sid -> Record] /\ index' \in [User -> Index]
        /\ \A x \in Sid : store'[x].exp \in Nat /\ store'[x].exp >= store[x].exp
    BY DEF IInv, TypeOK, Record
  <1>2. ExpiriesBounded' /\ Indexed' /\ TtlBounded'
    BY DEF IInv, ExpiriesBounded, Indexed, TtlBounded
  <1>3. Sound(r, now, store')
    OBVIOUS
  <1>4. QED
    BY <1>1, <1>2, <1>3, StorageStep

\* A request of a known session starts within its latency budget.
LEMMA ArriveStep ==
  ASSUME IInv, NEW p \in Proc, NEW r \in Request, Arrive(p, r), r.sid \in Sid, r.began = now,
         r.pc \notin {"terminate", "exists", "write"}
  PROVE  IInv'
  <1>1. Goto(p, r) /\ UNCHANGED <<now, store, index>>
    BY DEF Arrive
  <1>2. Sound(r, now, store)
    BY LatencyAssumption DEF Sound, IInv, TypeOK
  <1>3. BookkeepingOK'
    BY DEF Arrive, BookkeepingOK, IInv, TypeOK
  <1>4. QED
    BY <1>1, <1>2, <1>3, ReadStep

\* The facts about the running request of slot p that every step starts from.
LEMMA Running ==
  ASSUME IInv, NEW p \in Proc, req[p].pc # "idle"
  PROVE  /\ req[p] \in Request /\ Sound(req[p], now, store)
         /\ req[p].sid \in Sid /\ req[p].began <= now /\ now <= req[p].began + MaxLatency
         /\ After(p) \in Request
         /\ \A st : Sound(After(p), now, st)
         /\ BookkeepingOK /\ now \in Nat
  <1>1. req[p] \in Request /\ Sound(req[p], now, store) /\ TypeOK /\ BookkeepingOK /\ now \in Nat
    BY DEF IInv, TypeOK, RequestsSound, BookkeepingOK
  <1>2. req[p].sid \in Sid /\ req[p].began <= now /\ now <= req[p].began + MaxLatency
    BY <1>1 DEF Sound
  <1>3. \A st : After(p) \in Request /\ Sound(After(p), now, st)
    BY <1>1, <1>2, AfterSound
  <1>4. QED
    BY <1>1, <1>2, <1>3

LEMMA InitInv == Init => IInv
  <1>. SUFFICES ASSUME Init PROVE IInv
    OBVIOUS
  <1>1. TypeOK
    BY IdleType DEF Init, TypeOK, Record, Index, NoRecord
  <1>2. RequestsSound
    BY DEF Init, RequestsSound, Sound, Idle
  <1>3. ExpiriesBounded /\ Indexed /\ TtlBounded
    BY OwnerAssumption, TimeAssumption DEF Init, ExpiriesBounded, Indexed, TtlBounded, NoRecord
  <1>4. QED
    BY <1>1, <1>2, <1>3 DEF IInv

LEMMA ArrivalInv ==
  ASSUME IInv, NEW p \in Proc, Login(p) \/ Page(p) \/ Logout(p)
  PROVE  IInv'
  <1>1. Idle \in Request /\ now \in Nat /\ granted \in SUBSET Sid
    BY IdleType DEF IInv, TypeOK
  <1>2. CASE Login(p)
    <2>1. PICK s \in Sid : Arrive(p, [Idle EXCEPT !.pc = "ids", !.op = "login",
                                                  !.sid = s, !.began = now])
      BY <1>2 DEF Login
    <2>. DEFINE r == [Idle EXCEPT !.pc = "ids", !.op = "login", !.sid = s, !.began = now]
    <2>2. r \in Request /\ r.sid = s /\ r.began = now /\ r.pc = "ids"
      BY <1>1 DEF Request, PC, Op
    <2>3. QED
      BY <2>1, <2>2, ArriveStep
  <1>3. CASE Page(p)
    <2>. DEFINE start == IF now - lastCleanup < CleanupInterval THEN "validate" ELSE "scan"
    <2>1. PICK s \in granted : Arrive(p, [Idle EXCEPT !.op = "page", !.sid = s, !.began = now,
                                                      !.pc = start])
      BY <1>3 DEF Page
    <2>. DEFINE r == [Idle EXCEPT !.op = "page", !.sid = s, !.began = now, !.pc = start]
    <2>2. r \in Request /\ r.sid = s /\ r.began = now /\ r.pc \in {"validate", "scan"}
      BY <1>1 DEF Request, PC, Op
    <2>3. QED
      BY <1>1, <2>1, <2>2, ArriveStep
  <1>4. CASE Logout(p)
    <2>1. PICK s \in granted : Arrive(p, [Idle EXCEPT !.pc = "validate", !.op = "logout",
                                                      !.sid = s, !.began = now])
      BY <1>4 DEF Logout
    <2>. DEFINE r == [Idle EXCEPT !.pc = "validate", !.op = "logout", !.sid = s, !.began = now]
    <2>2. r \in Request /\ r.sid = s /\ r.began = now /\ r.pc = "validate"
      BY <1>1 DEF Request, PC, Op
    <2>3. QED
      BY <1>1, <2>1, <2>2, ArriveStep
  <1>5. QED
    BY <1>2, <1>3, <1>4

\* Resuming the coroutine that awaited an update or a terminate_session.
LEMMA ResumeStep ==
  ASSUME IInv, NEW p \in Proc, req[p].pc # "idle", Resume(p),
         UNCHANGED <<now, lastCleanup, granted, solo, faults>>
  PROVE  Goto(p, After(p)) /\ BookkeepingOK'
  BY Running DEF Resume, BookkeepingOK

\* The write of a request in update renews a record that was live after the
\* request began, hence one still covered by the index.
LEMMA PendingWrite ==
  ASSUME IInv, NEW p \in Proc, req[p].pc = "write"
  PROVE  LET s == req[p].target
             d == req[p].copy
         IN  /\ s \in Sid /\ d \in SessionData
             /\ store[s].exp > 0 /\ store[s].exp + Grace > now
             /\ d.active => now <= d.last + MaxLatency
  <1>1. req[p] \in Request /\ Sound(req[p], now, store) /\ now \in Nat
    BY Running
  <1>2. req[p].target \in Sid /\ req[p].copy \in SessionData
    BY <1>1 DEF Sound, Request
  <1>3. store[req[p].target].exp \in Nat
    BY <1>2 DEF IInv, TypeOK, Record
  <1>4. QED
    BY <1>1, <1>2, <1>3, TimeAssumption, LatencyAssumption DEF Sound, Request, SessionData

LEMMA ValidateInv ==
  ASSUME IInv, NEW p \in Proc, Validate(p)
  PROVE  IInv'
  <1>1. /\ req[p].pc = "validate" /\ UNCHANGED <<now, store, index>>
        /\ BookkeepingOK'
    BY Running DEF Validate, BookkeepingOK
  <1>2. req[p] \in Request /\ Sound(req[p], now, store) /\ req[p].sid \in Sid /\ now \in Nat
    BY <1>1, Running
  <1>3. CASE Goto(p, Idle)
    BY <1>3, <1>1, IdleType, ReadStep DEF Idle, Sound
  <1>4. CASE Goto(p, [req[p] EXCEPT !.pc = "terminate", !.target = req[p].sid, !.back = "deny"])
    <2>. DEFINE r == [req[p] EXCEPT !.pc = "terminate", !.target = req[p].sid, !.back = "deny"]
    <2>1. r \in Request /\ Sound(r, now, store)
      BY <1>1, <1>2 DEF Request, PC, Back, Sound
    <2>2. QED
      BY <2>1, <1>1, <1>4, ReadStep
  <1>5. CASE Goto(p, [req[p] EXCEPT !.pc = "exists", !.target = req[p].sid, !.back = "admit",
                                    !.copy = [active |-> TRUE, last |-> now]])
    <2>. DEFINE r == [req[p] EXCEPT !.pc = "exists", !.target = req[p].sid, !.back = "admit",
                                    !.copy = [active |-> TRUE, last |-> now]]
    <2>1. r \in Request /\ Sound(r, now, store)
      BY <1>1, <1>2 DEF Request, PC, Back, SessionData, Sound
    <2>2. QED
      BY <2>1, <1>1, <1>5, ReadStep
  <1>6. QED
    BY <1>3, <1>4, <1>5 DEF Validate

LEMMA TerminateInv ==
  ASSUME IInv, NEW p \in Proc, Terminate(p)
  PROVE  IInv'
  <1>1. /\ req[p].pc = "terminate" /\ UNCHANGED <<now, store, index>>
        /\ UNCHANGED <<lastCleanup, granted, solo, faults>>
    BY DEF Terminate
  <1>2. CASE Resume(p)
    <2>1. Goto(p, After(p)) /\ BookkeepingOK' /\ After(p) \in Request /\ Sound(After(p), now, store)
      BY <1>1, <1>2, ResumeStep, Running
    <2>2. QED
      BY <2>1, <1>1, ReadStep
  <1>3. CASE ~Resume(p)
    <2>. DEFINE r == [req[p] EXCEPT !.pc = "exists",
                        !.copy = Ended(req[p].target)]
    <2>1. Goto(p, r) /\ UNCHANGED loggedOut
      BY <1>3 DEF Terminate
    <2>2. req[p] \in Request /\ Sound(req[p], now, store) /\ BookkeepingOK'
      BY <1>1, <2>1, Running DEF BookkeepingOK
    <2>3. req[p].target \in Sid /\ store[req[p].target].last \in Nat
      BY <1>1, <2>2 DEF Sound, IInv, TypeOK, Record
    <2>4. r \in Request /\ Sound(r, now, store)
      BY <1>1, <2>2, <2>3 DEF Ended, Request, PC, SessionData, Sound
    <2>5. QED
      BY <2>1, <2>2, <2>4, <1>1, ReadStep
  <1>4. QED
    BY <1>2, <1>3

LEMMA ExistsInv ==
  ASSUME IInv, NEW p \in Proc, Exists(p)
  PROVE  IInv'
  <1>1. /\ req[p].pc = "exists" /\ UNCHANGED <<now, store, index>>
        /\ UNCHANGED <<lastCleanup, granted, solo, faults>>
    BY DEF Exists
  <1>2. CASE Resume(p)
    <2>1. Goto(p, After(p)) /\ BookkeepingOK' /\ After(p) \in Request /\ Sound(After(p), now, store)
      BY <1>1, <1>2, ResumeStep, Running
    <2>2. QED
      BY <2>1, <1>1, ReadStep
  <1>3. CASE ~Resume(p)
    <2>. DEFINE r == [req[p] EXCEPT !.pc = "write"]
    <2>1. Goto(p, r) /\ UNCHANGED loggedOut /\ Live(req[p].target)
      BY <1>3 DEF Exists
    <2>2. req[p] \in Request /\ Sound(req[p], now, store) /\ BookkeepingOK' /\ now \in Nat
      BY <1>1, <2>1, Running DEF BookkeepingOK
    <2>3. req[p].target \in Sid /\ store[req[p].target].exp > now /\ store[req[p].target].exp \in Nat
      BY <1>1, <2>1, <2>2 DEF Sound, Live, IInv, TypeOK, Record
    <2>4. r \in Request /\ Sound(r, now, store)
      BY <1>1, <2>2, <2>3 DEF Request, PC, Sound
    <2>5. QED
      BY <2>1, <2>2, <2>4, <1>1, ReadStep
  <1>4. QED
    BY <1>2, <1>3

LEMMA WriteInv ==
  ASSUME IInv, NEW p \in Proc, Write(p)
  PROVE  IInv'
  <1>1. /\ req[p].pc = "write" /\ Resume(p) /\ StoreWrite(req[p].target, req[p].copy)
        /\ UNCHANGED <<now, lastCleanup, granted, solo, faults>>
    BY DEF Write
  <1>2. Goto(p, After(p)) /\ BookkeepingOK' /\ After(p) \in Request /\ Sound(After(p), now, store')
    BY <1>1, ResumeStep, Running
  <1>3. QED
    BY <1>1, <1>2, PendingWrite, WriteEffect, StorageStep

LEMMA CleanupInv ==
  ASSUME IInv, NEW p \in Proc, Scan(p) \/ Sweep(p) \/ SweepDone(p)
  PROVE  IInv'
  <1>1. UNCHANGED <<now, store, index>> /\ req[p].pc \in {"scan", "sweep"}
    BY DEF Scan, Sweep, SweepDone
  <1>2. req[p] \in Request /\ Sound(req[p], now, store) /\ BookkeepingOK
    BY <1>1, Running
  <1>3. BookkeepingOK'
    BY <1>2 DEF Scan, Sweep, SweepDone, BookkeepingOK, Request
  <1>4. CASE Scan(p)
    <2>. DEFINE r == [req[p] EXCEPT !.pc = "sweep", !.ids = {s \in Sid : Live(s)}]
    <2>1. r \in Request /\ Sound(r, now, store)
      BY <1>1, <1>2 DEF Request, PC, Sound
    <2>2. QED
      BY <2>1, <1>1, <1>3, <1>4, ReadStep DEF Scan
  <1>5. CASE Sweep(p)
    <2>1. PICK s \in req[p].ids :
            LET r == [req[p] EXCEPT !.ids = Rest(p, s)]
            IN  Goto(p, r) \/ Goto(p, [r EXCEPT !.pc = "exists", !.target = s, !.back = "sweep",
                                         !.copy = Ended(s)])
      BY <1>5 DEF Sweep
    <2>. DEFINE r == [req[p] EXCEPT !.ids = Rest(p, s)]
                x == [r EXCEPT !.pc = "exists", !.target = s, !.back = "sweep",
                               !.copy = Ended(s)]
    <2>2. s \in Sid /\ store[s].last \in Nat
      BY <1>2 DEF Request, IInv, TypeOK, Record
    <2>3. r \in Request /\ Sound(r, now, store)
      BY <1>1, <1>2 DEF Rest, Request, Sound
    <2>4. x \in Request
      BY <2>2, <2>3 DEF Ended, Rest, Request, PC, Back, SessionData
    <2>5. Sound(x, now, store)
      BY <1>1, <1>2, <2>2 DEF Ended, Rest, Request, Sound
    <2>6. QED
      BY <2>1, <2>3, <2>4, <2>5, <1>1, <1>3, ReadStep
  <1>6. CASE SweepDone(p)
    <2>. DEFINE r == [req[p] EXCEPT !.pc = "validate"]
    <2>1. r \in Request /\ Sound(r, now, store)
      BY <1>1, <1>2 DEF Request, PC, Sound
    <2>2. QED
      BY <2>1, <1>1, <1>3, <1>6, ReadStep DEF SweepDone
  <1>7. QED
    BY <1>4, <1>5, <1>6

LEMMA VictimsSubset == ASSUME NEW F, NEW V \in Victims(F) PROVE V \subseteq F
  BY DEF Victims

LEMMA EnforceInv ==
  ASSUME IInv, NEW p \in Proc,
         UserSessions(p) \/ ScanAll(p) \/ Collect(p) \/ Decide(p) \/ Evict(p)
  PROVE  IInv'
  <1>1. UNCHANGED <<now, store, index>> /\ req[p].pc \in {"ids", "scanall", "collect", "evict"}
    BY DEF UserSessions, ScanAll, Collect, Decide, Evict
  <1>2. req[p] \in Request /\ Sound(req[p], now, store) /\ BookkeepingOK /\ req[p].sid \in Sid
    BY <1>1, Running
  <1>3. BookkeepingOK'
    BY <1>2 DEF UserSessions, ScanAll, Collect, Decide, Evict, BookkeepingOK
  <1>4. CASE UserSessions(p)
    <2>. DEFINE u == Owner[req[p].sid]
                r == [req[p] EXCEPT !.pc = "collect",
                                    !.ids = IF IndexLive(u) THEN index[u].ids ELSE {}]
    <2>1. index[u].ids \in SUBSET Sid
      BY <1>2, OwnerAssumption DEF IInv, TypeOK, Index
    <2>2. r \in Request /\ Sound(r, now, store)
      BY <1>1, <1>2, <2>1 DEF Request, PC, Sound
    <2>3. QED
      BY <2>2, <1>1, <1>3, <1>4, ReadStep DEF UserSessions
  <1>5. CASE ScanAll(p)
    <2>. DEFINE r == [req[p] EXCEPT !.pc = "collect",
                        !.ids = {s \in Sid : Live(s) /\ Owner[s] = Owner[req[p].sid]}]
    <2>1. r \in Request /\ Sound(r, now, store)
      BY <1>1, <1>2 DEF Request, PC, Sound
    <2>2. QED
      BY <2>1, <1>1, <1>3, <1>5, ReadStep DEF ScanAll
  <1>6. CASE Collect(p)
    <2>1. PICK s \in req[p].ids : Goto(p, [req[p] EXCEPT !.ids = Rest(p, s),
            !.seen = IF Usable(s) THEN @ \cup {[sid |-> s, last |-> store[s].last]} ELSE @])
      BY <1>6 DEF Collect
    <2>. DEFINE r == [req[p] EXCEPT !.ids = Rest(p, s),
            !.seen = IF Usable(s) THEN @ \cup {[sid |-> s, last |-> store[s].last]} ELSE @]
    <2>2. s \in Sid /\ store[s].last \in Nat
      BY <1>2 DEF Request, IInv, TypeOK, Record
    <2>3. (IF Usable(s) THEN req[p].seen \cup {[sid |-> s, last |-> store[s].last]}
                         ELSE req[p].seen) \in SUBSET [sid: Sid, last: Nat]
      BY <1>2, <2>2 DEF Request
    <2>4. r \in Request /\ Sound(r, now, store)
      BY <1>1, <1>2, <2>3 DEF Rest, Request, Sound
    <2>5. QED
      BY <2>1, <2>4, <1>1, <1>3, ReadStep
  <1>7. CASE Decide(p)
    <2>1. PICK V \in Victims(req[p].seen) :
            Goto(p, [req[p] EXCEPT !.pc = "evict", !.back = "evict", !.seen = V])
      BY <1>7 DEF Decide
    <2>. DEFINE r == [req[p] EXCEPT !.pc = "evict", !.back = "evict", !.seen = V]
    <2>2. V \subseteq req[p].seen
      BY VictimsSubset
    <2>3. r \in Request /\ Sound(r, now, store)
      BY <1>1, <1>2, <2>2 DEF Request, PC, Back, Sound
    <2>4. QED
      BY <2>1, <2>3, <1>1, <1>3, ReadStep
  <1>8. CASE Evict(p)
    <2>1. PICK v \in req[p].seen :
            Goto(p, [req[p] EXCEPT !.pc = "terminate", !.target = v.sid, !.seen = @ \ {v}])
      BY <1>8 DEF Evict
    <2>. DEFINE r == [req[p] EXCEPT !.pc = "terminate", !.target = v.sid, !.seen = @ \ {v}]
    <2>2. v.sid \in Sid
      BY <1>2 DEF Request
    <2>3. r \in Request /\ Sound(r, now, store)
      BY <1>1, <1>2, <2>2 DEF Request, PC, Sound
    <2>4. QED
      BY <2>1, <2>3, <1>1, <1>3, ReadStep
  <1>9. QED
    BY <1>4, <1>5, <1>6, <1>7, <1>8

\* The session a login creates was last active when the login began.
LEMMA NewSession ==
  ASSUME IInv, NEW p \in Proc, req[p].pc = "evict"
  PROVE  LET d == [active |-> TRUE, last |-> req[p].began]
         IN  d \in SessionData /\ now <= d.last + MaxLatency
  BY Running DEF Request, SessionData

LEMMA CreateInv ==
  ASSUME IInv, NEW p \in Proc, Create(p)
  PROVE  IInv'
  <1>. DEFINE d == [active |-> TRUE, last |-> req[p].began]
  <1>1. /\ req[p].pc = "evict" /\ StoreCreate(req[p].sid, d) /\ Goto(p, Idle)
        /\ granted' = granted \cup {req[p].sid}
        /\ UNCHANGED <<now, lastCleanup, loggedOut, solo, faults>>
    BY DEF Create
  <1>2. req[p].sid \in Sid /\ BookkeepingOK'
    BY <1>1, Running DEF BookkeepingOK
  <1>3. d \in SessionData /\ (d.active => now <= d.last + MaxLatency)
    BY <1>1, NewSession
  <1>4. Idle \in Request /\ Sound(Idle, now, store')
    BY IdleType DEF Idle, Sound
  <1>. HIDE DEF d
  <1>5. QED
    BY <1>1, <1>2, <1>3, <1>4, CreateEffect, StorageStep

\* Where a request whose storage call raised goes on.
LEMMA RaisedSound ==
  ASSUME IInv, NEW p \in Proc, NEW st, req[p].pc # "idle"
  PROVE  Raised(p) \in Request /\ Sound(Raised(p), now, st)
  <1>1. /\ req[p] \in Request /\ Sound(req[p], now, store)
        /\ After(p) \in Request /\ Sound(After(p), now, st)
        /\ Idle \in Request /\ Sound(Idle, now, st)
    BY Running, IdleType DEF Idle, Sound
  <1>2. CASE req[p].pc \in {"scan", "sweep"}
    <2>1. Raised(p) = [req[p] EXCEPT !.pc = "validate", !.ids = {}]
      BY <1>2 DEF Raised
    <2>2. QED
      BY <2>1, <1>1, <1>2 DEF Request, PC, Sound
  <1>3. CASE req[p].pc = "ids"
    <2>1. Raised(p) = [req[p] EXCEPT !.pc = "scanall"]
      BY <1>3 DEF Raised
    <2>2. QED
      BY <2>1, <1>1, <1>3 DEF Request, PC, Sound
  <1>4. CASE req[p].pc = "scanall"
    <2>1. Raised(p) = [req[p] EXCEPT !.pc = "evict", !.back = "evict"]
      BY <1>4 DEF Raised
    <2>2. QED
      BY <2>1, <1>1, <1>4 DEF Request, PC, Back, Sound
  <1>5. CASE req[p].pc \notin {"scan", "sweep", "ids", "scanall"}
    <2>1. Raised(p) = Idle \/ Raised(p) = After(p)
      BY <1>5 DEF Raised
    <2>2. QED
      BY <2>1, <1>1
  <1>6. QED
    BY <1>2, <1>3, <1>4, <1>5

LEMMA FaultInv ==
  ASSUME IInv, NEW p \in Proc, Fault(p)
  PROVE  IInv'
  <1>1. req[p].pc # "idle" /\ (Skips(p) \/ Raises(p)) /\ UNCHANGED <<now, lastCleanup, granted>>
    BY DEF Fault, Skips, Raises
  <1>2. /\ req[p] \in Request /\ Sound(req[p], now, store) /\ BookkeepingOK
        /\ req[p].sid \in Sid
    BY <1>1, Running
  <1>3. BookkeepingOK'
    BY <1>1, <1>2 DEF Fault, Skips, Raises, BookkeepingOK
  <1>4. CASE Skips(p)
    <2>1. PICK s \in req[p].ids : Goto(p, [req[p] EXCEPT !.ids = Rest(p, s)])
      BY <1>4 DEF Skips
    <2>. DEFINE r == [req[p] EXCEPT !.ids = Rest(p, s)]
    <2>2. r \in Request /\ Sound(r, now, store) /\ UNCHANGED <<now, store, index>>
      BY <1>1, <1>2, <1>4 DEF Rest, Request, Sound, Skips
    <2>3. QED
      BY <2>1, <2>2, <1>3, ReadStep
  <1>5. CASE Raises(p)
    <2>1. /\ Goto(p, Raised(p)) /\ Raised(p) \in Request
          /\ Sound(Raised(p), now, store) /\ Sound(Raised(p), now, store')
      BY <1>1, <1>5, RaisedSound DEF Raises
    <2>2. CASE UNCHANGED <<store, index>>
      BY <2>1, <2>2, <1>1, <1>3, ReadStep
    <2>3. CASE req[p].pc = "write" /\ StoreWrite(req[p].target, req[p].copy)
      BY <2>1, <2>3, <1>1, <1>3, PendingWrite, WriteEffect, StorageStep
    <2>4. CASE req[p].pc = "evict" /\ StoreCreate(req[p].sid, [active |-> TRUE, last |-> req[p].began])
      <3>. DEFINE d == [active |-> TRUE, last |-> req[p].began]
      <3>1. d \in SessionData /\ (d.active => now <= d.last + MaxLatency)
        BY <2>4, NewSession
      <3>2. StoreCreate(req[p].sid, d)
        BY <2>4
      <3>. HIDE DEF d
      <3>3. QED
        BY <3>1, <3>2, <2>1, <1>1, <1>2, <1>3, CreateEffect, StorageStep
    <2>5. QED
      BY <2>2, <2>3, <2>4, <1>5 DEF Raises
  <1>6. QED
    BY <1>1, <1>4, <1>5

\* The clock waits for the requests that have used up their latency.
LEMMA TickInv == IInv /\ Tick => IInv'
  <1>. SUFFICES ASSUME IInv, Tick PROVE IInv'
    OBVIOUS
  <1>1. /\ now \in Nat /\ now' = now + 1
        /\ UNCHANGED <<store, index, lastCleanup, req, granted, loggedOut, solo, faults>>
    BY DEF Tick, IInv, TypeOK
  <1>2. TypeOK'
    BY <1>1 DEF IInv, TypeOK
  <1>3. RequestsSound'
    <2>. SUFFICES ASSUME NEW p \in Proc PROVE Sound(req[p], now + 1, store)
      BY <1>1 DEF RequestsSound
    <2>1. req[p] \in Request /\ Sound(req[p], now, store)
      BY DEF IInv, TypeOK, RequestsSound
    <2>2. req[p].pc # "idle" => now < req[p].began + MaxLatency
      BY DEF Tick
    <2>3. QED
      BY <2>1, <2>2, <1>1, LatencyAssumption DEF Sound, Request
  <1>4. ExpiriesBounded'
    BY <1>1, TimeAssumption DEF IInv, TypeOK, ExpiriesBounded, Record, Index
  <1>5. Indexed' /\ TtlBounded'
    BY <1>1, TimeAssumption DEF IInv, TypeOK, Indexed, TtlBounded, Record
  <1>6. QED
    BY <1>2, <1>3, <1>4, <1>5 DEF IInv

LEMMA StutterInv == IInv /\ UNCHANGED vars => IInv'
  BY DEF vars, IInv, TypeOK, RequestsSound, ExpiriesBounded, Indexed, TtlBounded

LEMMA NextInv == IInv /\ [Next]_vars => IInv'
  <1>. SUFFICES ASSUME IInv, [Next]_vars PROVE IInv'
    OBVIOUS
  <1>1. ASSUME NEW p \in Proc, Step(p) PROVE IInv'
    BY <1>1, ValidateInv, TerminateInv, ExistsInv, WriteInv, CleanupInv, EnforceInv, CreateInv
       DEF Step
  <1>2. ASSUME NEW p \in Proc, Login(p) \/ Page(p) \/ Logout(p) PROVE IInv'
    BY <1>2, ArrivalInv
  <1>3. ASSUME NEW p \in Proc, Fault(p) PROVE IInv'
    BY <1>3, FaultInv
  <1>4. QED
    BY <1>1, <1>2, <1>3, TickInv, StutterInv DEF Next

THEOREM Invariance == Spec => []IInv
  BY InitInv, NextInv, PTL DEF Spec

-----------------------------------------------------------------------------
(* The theorems.                                                           *)

\* Every variable keeps its type.
THEOREM TypeCorrect == Spec => []TypeOK
  <1>1. IInv => TypeOK
    BY DEF IInv
  <1>2. QED
    BY <1>1, Invariance, PTL

\* _enforce_session_limit reads every live session of the user from the index,
\* for every session timeout and every grace period no shorter than a request.
THEOREM IndexCoverage == Spec => []IndexCoversLive
  <1>1. IInv => IndexCoversLive
    BY OwnerAssumption, TimeAssumption
       DEF IInv, TypeOK, Indexed, IndexCoversLive, Live, IndexLive, Record, Index
  <1>2. QED
    BY <1>1, Invariance, PTL

\* No usable session outlives its idle timeout by more than one request, even
\* though terminations renew the expiry of the keys they rewrite.
THEOREM IdleTimeout == Spec => []TtlTracksActivity
  <1>1. IInv => TtlTracksActivity
    BY DEF IInv, TtlBounded, TtlTracksActivity, Usable
  <1>2. QED
    BY <1>1, Invariance, PTL

-----------------------------------------------------------------------------
(* A login that runs alone.  What it has read of its user's sessions stays *)
(* true but for sessions that expire, until it evicts the oldest of them.  *)

\* The usable sessions of u when the storage holds st and the clock reads t.
UsableOf(u, st, t) == {s \in Sid : Owner[s] = u /\ st[s].exp > t /\ st[s].active}

AtMost(S, n) == IsFiniteSet(S) /\ Cardinality(S) <= n

\* Every index names sessions of its own user only.
IndexOwned == \A u \in User : \A s \in index[u].ids : Owner[s] = u

\* The records request r has seen are of its user's sessions, with their last activity.
Seen(r, st) == \A v \in r.seen : Owner[v.sid] = Owner[r.sid] /\ st[v.sid].last = v.last

\* The loop over the identifiers: every usable session is seen or still to come.
Collecting(r, st, t) ==
    /\ IsFiniteSet(r.seen) /\ Seen(r, st)
    /\ \A s \in r.ids : Owner[s] = Owner[r.sid]
    /\ \A s \in UsableOf(Owner[r.sid], st, t) :
           s \in r.ids \/ [sid |-> s, last |-> st[s].last] \in r.seen

InEviction(r) == r.pc = "evict" \/ (r.pc \in {"terminate", "exists", "write"} /\ r.back = "evict")

\* The usable sessions that eviction will leave: not a victim, nor the one it terminates now.
Spared(r, st, t) ==
    {s \in UsableOf(Owner[r.sid], st, t) :
        (\A v \in r.seen : v.sid # s) /\ (r.pc # "evict" => s # r.target)}

\* They leave room for one more, and none is older than a victim.
Evicting(r, st, t) ==
    /\ r.back = "evict" /\ Seen(r, st)
    /\ AtMost(Spared(r, st, t), MaxSessions - 1)
    /\ \A v \in r.seen, s \in Spared(r, st, t) : v.last <= st[s].last
    /\ r.pc # "evict" => /\ Owner[r.target] = Owner[r.sid]
                         /\ \A s \in UsableOf(Owner[r.sid], st, t) : st[r.target].last <= st[s].last
    /\ r.pc \in {"exists", "write"} => r.copy = [active |-> FALSE, last |-> st[r.target].last]

Enforcing(r, st, t) ==
    /\ r.pc \in {"ids", "scanall"} => r.seen = {}
    /\ r.pc = "collect" => Collecting(r, st, t)
    /\ InEviction(r) => Evicting(r, st, t)

\* Inductive together with IInv.
SoloSound ==
    \A p \in solo : /\ \A q \in Proc : q # p => req[q].pc = "idle"
                    /\ Enforcing(req[p], store, now)

SoloInv == IInv /\ IndexOwned /\ SoloSound

LEMMA AtMostSubset ==
  ASSUME NEW S, NEW T, T \subseteq S, NEW n \in Nat, AtMost(S, n)
  PROVE  AtMost(T, n)
  BY FS_Subset, FS_CardinalityType DEF AtMost

LEMMA AtMostAdd ==
  ASSUME NEW S, NEW x, NEW n \in Nat, AtMost(S, n)
  PROVE  AtMost(S \cup {x}, n + 1)
  <1>1. IsFiniteSet(S) /\ Cardinality(S) <= n /\ Cardinality(S) \in Nat
    BY FS_CardinalityType DEF AtMost
  <1>2. /\ IsFiniteSet(S \cup {x})
        /\ Cardinality(S \cup {x}) = IF x \in S THEN Cardinality(S) ELSE Cardinality(S) + 1
    BY <1>1, FS_AddElement
  <1>3. QED
    BY <1>1, <1>2 DEF AtMost

\* The identifiers in a finite set of session records are no more than the records.
LEMMA AtMostIds ==
  ASSUME NEW F, NEW n \in Nat, AtMost(F, n)
  PROVE  AtMost({v.sid : v \in F}, n)
  <1>. DEFINE T == {v.sid : v \in F}
              f == [v \in F |-> v.sid]
  <1>1. f \in [F -> T] /\ \A t \in T : \E v \in F : f[v] = t
    OBVIOUS
  <1>2. f \in Surjection(F, T)
    BY <1>1 DEF Surjection
  <1>. HIDE DEF f, T
  <1>3. IsFiniteSet(F) /\ Cardinality(F) <= n
    BY DEF AtMost
  <1>4. IsFiniteSet(T) /\ Cardinality(T) <= Cardinality(F)
    BY <1>2, <1>3, FS_Surjection
  <1>5. Cardinality(F) \in Nat /\ Cardinality(T) \in Nat
    BY <1>3, <1>4, FS_CardinalityType
  <1>6. AtMost(T, n)
    BY <1>3, <1>4, <1>5 DEF AtMost
  <1>7. QED
    BY <1>6 DEF T

\* _enforce_session_limit leaves room for one session and spares the younger ones.
LEMMA VictimsChosen ==
  ASSUME NEW F, IsFiniteSet(F), NEW V \in Victims(F)
  PROVE  /\ AtMost(F \ V, MaxSessions - 1)
         /\ \A v \in V, w \in F \ V : v.last <= w.last
  <1>1. Cardinality(F) \in Nat
    BY FS_CardinalityType
  <1>2. CASE Excess(F) <= 0
    <2>1. V = {} /\ F \ V = F
      BY <1>2 DEF Victims
    <2>2. Cardinality(F) <= MaxSessions - 1
      BY <1>1, <1>2, LimitAssumption DEF Excess
    <2>3. QED
      BY <2>1, <2>2 DEF AtMost
  <1>3. CASE ~(Excess(F) <= 0)
    <2>1. /\ V \in SUBSET F /\ Cardinality(V) = Excess(F)
          /\ \A v \in V, w \in F \ V : Older(v, w)
      BY <1>3 DEF Victims
    <2>2. F \cap V = V
      BY <2>1
    <2>3. IsFiniteSet(F \ V) /\ Cardinality(F \ V) = Cardinality(F) - Excess(F)
      BY <2>1, <2>2, FS_Difference
    <2>4. Cardinality(F) - Excess(F) = MaxSessions - 1
      BY <1>1, LimitAssumption DEF Excess
    <2>5. AtMost(F \ V, MaxSessions - 1)
      BY <2>3, <2>4, LimitAssumption DEF AtMost
    <2>6. QED
      BY <2>1, <2>5 DEF Older
  <1>4. QED
    BY <1>2, <1>3

LEMMA UsableIs == \A u : Sessions(u) = UsableOf(u, store, now)
  BY DEF Sessions, Usable, Live, UsableOf

\* A running request goes on with r: only it can be the one that runs alone.
LEMMA SoloGoto ==
  ASSUME TypeOK, SoloSound, NEW p \in Proc, req[p].pc # "idle", NEW r, Goto(p, r),
         solo' = solo, p \in solo => Enforcing(r, store', now')
  PROVE  SoloSound'
  <1>1. req' = [req EXCEPT ![p] = r] /\ req \in [Proc -> Request] /\ solo \in SUBSET Proc
    BY DEF Goto, TypeOK
  <1>2. req'[p] = r /\ \A q \in Proc : q # p => req'[q] = req[q]
    BY <1>1
  <1>3. SUFFICES ASSUME NEW q \in solo
                 PROVE  /\ \A x \in Proc : x # q => req'[x].pc = "idle"
                        /\ Enforcing(req'[q], store', now')
    BY DEF SoloSound
  <1>4. q = p
    BY <1>1 DEF SoloSound
  <1>5. \A x \in Proc : x # p => req[x].pc = "idle"
    BY <1>4 DEF SoloSound
  <1>6. QED
    BY <1>2, <1>4, <1>5

\* What is known of the request that runs alone when it takes a step.
LEMMA SoloRunning ==
  ASSUME IInv, SoloSound, NEW p \in Proc, req[p].pc # "idle"
  PROVE  /\ p \in solo => Enforcing(req[p], store, now)
         /\ req[p] \in Request /\ req[p].sid \in Sid /\ Owner[req[p].sid] \in User
         /\ req[p].pc \in {"terminate", "exists", "write"} => req[p].target \in Sid
         /\ store \in [Sid -> Record] /\ now \in Nat
  BY Running, OwnerAssumption DEF SoloSound, Sound, IInv, TypeOK

\* Nothing is asked of a request that is not creating a session.
LEMMA NotEnforcing ==
  ASSUME NEW r, NEW st, NEW t, r.pc \notin {"ids", "scanall", "collect"}, ~InEviction(r)
  PROVE  Enforcing(r, st, t)
  BY DEF Enforcing

LEMMA AfterNotEnforcing ==
  ASSUME TypeOK, NEW p \in Proc, req[p].back # "evict", NEW st, NEW t
  PROVE  Enforcing(After(p), st, t)
  <1>1. req[p] \in Request
    BY DEF TypeOK
  <1>. DEFINE r == [req[p] EXCEPT !.target = NoSid, !.copy = NoData]
  <1>2. r.back = req[p].back /\ r.op = req[p].op
    BY <1>1 DEF Request
  <1>3. CASE r.back = "sweep"
    <2>1. After(p) = [r EXCEPT !.pc = "sweep"]
      BY <1>3 DEF After
    <2>2. After(p).pc = "sweep"
      BY <2>1, <1>1 DEF Request
    <2>3. QED
      BY <2>2, NotEnforcing DEF InEviction
  <1>4. CASE r.back = "admit" /\ r.op = "logout"
    <2>1. After(p) = [r EXCEPT !.pc = "terminate", !.target = r.sid, !.back = "out"]
      BY <1>4 DEF After
    <2>2. After(p).pc = "terminate" /\ After(p).back = "out"
      BY <2>1, <1>1 DEF Request
    <2>3. QED
      BY <2>2, NotEnforcing DEF InEviction
  <1>5. CASE r.back # "sweep" /\ ~(r.back = "admit" /\ r.op = "logout")
    <2>1. After(p) = Idle
      BY <1>2, <1>5 DEF After
    <2>2. QED
      BY <2>1, NotEnforcing DEF Idle, InEviction
  <1>6. QED
    BY <1>3, <1>4, <1>5

LEMMA AfterEviction ==
  ASSUME TypeOK, NEW p \in Proc, req[p].back = "evict"
  PROVE  /\ After(p).pc = "evict" /\ After(p).back = "evict"
         /\ After(p).sid = req[p].sid /\ After(p).seen = req[p].seen
  <1>1. req[p] \in Request
    BY DEF TypeOK
  <1>. DEFINE r == [req[p] EXCEPT !.target = NoSid, !.copy = NoData]
  <1>2. After(p) = [r EXCEPT !.pc = "evict"]
    BY <1>1 DEF After, Request
  <1>3. QED
    BY <1>1, <1>2 DEF Request

\* Eviction goes on as r2 when no session became usable and no last activity moved.
LEMMA EvictionGoesOn ==
  ASSUME NEW r \in Request, NEW r2, NEW st, NEW st2, NEW t, NEW t2, Evicting(r, st, t),
         r2.sid = r.sid, r2.back = "evict", r2.seen = r.seen,
         UsableOf(Owner[r.sid], st2, t2) \subseteq UsableOf(Owner[r.sid], st, t),
         \A s \in Sid : st2[s].last = st[s].last,
         Spared(r2, st2, t2) \subseteq Spared(r, st, t),
         r2.pc # "evict" => r.pc # "evict" /\ r2.target = r.target /\ r.target \in Sid,
         r2.pc \in {"exists", "write"} => r2.copy = [active |-> FALSE, last |-> st2[r2.target].last]
  PROVE  Evicting(r2, st2, t2)
  <1>1. \A v \in r.seen : v.sid \in Sid
    BY DEF Request
  <1>2. Seen(r2, st2)
    BY <1>1 DEF Evicting, Seen
  <1>3. AtMost(Spared(r2, st2, t2), MaxSessions - 1)
    BY AtMostSubset, LimitAssumption DEF Evicting
  <1>4. \A s \in Spared(r2, st2, t2) : s \in Sid /\ s \in Spared(r, st, t)
    BY DEF Spared, UsableOf
  <1>5. \A v \in r2.seen, s \in Spared(r2, st2, t2) : v.last <= st2[s].last
    BY <1>4 DEF Evicting
  <1>6. ASSUME r2.pc # "evict"
        PROVE  /\ Owner[r2.target] = Owner[r2.sid]
               /\ \A s \in UsableOf(Owner[r2.sid], st2, t2) : st2[r2.target].last <= st2[s].last
    <2>1. \A s \in UsableOf(Owner[r.sid], st2, t2) : s \in Sid /\ s \in UsableOf(Owner[r.sid], st, t)
      BY DEF UsableOf
    <2>2. QED
      BY <1>6, <2>1 DEF Evicting
  <1>7. QED
    BY <1>2, <1>3, <1>5, <1>6 DEF Evicting

\* A termination that ends the eviction of one session, or finds it gone.
LEMMA VictimGone ==
  ASSUME TypeOK, NEW p \in Proc, req[p].pc \in {"terminate", "exists", "write"},
         NEW st, NEW t, Enforcing(req[p], store, now),
         UsableOf(Owner[req[p].sid], st, t) \subseteq
             UsableOf(Owner[req[p].sid], store, now) \ {req[p].target},
         req[p].back = "evict", \A s \in Sid : st[s].last = store[s].last
  PROVE  Enforcing(After(p), st, t)
  <1>. DEFINE r  == req[p]
              r2 == After(p)
  <1>1. r \in Request /\ Evicting(r, store, now)
    BY DEF TypeOK, Enforcing, InEviction
  <1>2. r2.pc = "evict" /\ r2.back = "evict" /\ r2.sid = r.sid /\ r2.seen = r.seen
    BY AfterEviction
  <1>3. Spared(r2, st, t) \subseteq Spared(r, store, now)
    BY <1>2 DEF Spared
  <1>4. UsableOf(Owner[r.sid], st, t) \subseteq UsableOf(Owner[r.sid], store, now)
    OBVIOUS
  <1>5. \A s \in Sid : st[s].last = store[s].last
    OBVIOUS
  <1>6. r2.pc # "evict" => r.pc # "evict" /\ r2.target = r.target /\ r.target \in Sid
    BY <1>2
  <1>7. r2.pc \in {"exists", "write"} => r2.copy = [active |-> FALSE, last |-> st[r2.target].last]
    BY <1>2
  <1>. HIDE DEF r, r2
  <1>8. r \in Request /\ r2.sid = r.sid /\ r2.back = "evict" /\ r2.seen = r.seen
    BY <1>1, <1>2
  <1>9. Evicting(r2, st, t)
    BY <1>1, <1>3, <1>4, <1>5, <1>6, <1>7, <1>8, EvictionGoesOn
  <1>10. QED
    BY <1>2, <1>9 DEF Enforcing, r2

-----------------------------------------------------------------------------
(* A step keeps what is known of a login that runs alone.                  *)

LEMMA ValidateSolo ==
  ASSUME IInv, SoloSound, NEW p \in Proc, Validate(p) PROVE SoloSound'
  <1>1. req[p].pc = "validate" /\ UNCHANGED solo /\ req[p] \in Request /\ TypeOK
    BY SoloRunning DEF Validate, IInv
  <1>. DEFINE d == [req[p] EXCEPT !.pc = "terminate", !.target = req[p].sid, !.back = "deny"]
              a == [req[p] EXCEPT !.pc = "exists", !.target = req[p].sid, !.back = "admit",
                                  !.copy = [active |-> TRUE, last |-> now]]
  <1>2. Goto(p, Idle) \/ Goto(p, d) \/ Goto(p, a)
    BY DEF Validate
  <1>3. /\ Idle.pc = "idle" /\ d.pc = "terminate" /\ d.back = "deny"
        /\ a.pc = "exists" /\ a.back = "admit"
    BY <1>1 DEF Idle, Request
  <1>. HIDE DEF d, a
  <1>4. \A st, t : Enforcing(Idle, st, t) /\ Enforcing(d, st, t) /\ Enforcing(a, st, t)
    BY <1>3, NotEnforcing DEF InEviction
  <1>5. QED
    BY <1>1, <1>2, <1>4, SoloGoto

LEMMA CleanupSolo ==
  ASSUME IInv, SoloSound, NEW p \in Proc, Scan(p) \/ Sweep(p) \/ SweepDone(p) PROVE SoloSound'
  <1>1. /\ req[p].pc \in {"scan", "sweep"} /\ UNCHANGED solo /\ req[p] \in Request /\ TypeOK
    BY SoloRunning DEF Scan, Sweep, SweepDone, IInv
  <1>2. CASE Scan(p)
    <2>. DEFINE r == [req[p] EXCEPT !.pc = "sweep", !.ids = {s \in Sid : Live(s)}]
    <2>1. Goto(p, r) /\ r.pc = "sweep"
      BY <1>1, <1>2 DEF Scan, Request
    <2>. HIDE DEF r
    <2>2. QED
      BY <1>1, <2>1, NotEnforcing, SoloGoto DEF InEviction
  <1>3. CASE Sweep(p)
    <2>1. PICK s \in req[p].ids :
            LET r == [req[p] EXCEPT !.ids = Rest(p, s)]
            IN  /\ req[p].pc = "sweep"
                /\ Goto(p, r) \/ Goto(p, [r EXCEPT !.pc = "exists", !.target = s, !.back = "sweep",
                                            !.copy = Ended(s)])
      BY <1>3 DEF Sweep
    <2>. DEFINE r == [req[p] EXCEPT !.ids = Rest(p, s)]
                x == [r EXCEPT !.pc = "exists", !.target = s, !.back = "sweep", !.copy = Ended(s)]
    <2>2. Goto(p, r) \/ Goto(p, x)
      BY <2>1
    <2>3. r.pc = "sweep" /\ x.pc = "exists" /\ x.back = "sweep"
      BY <1>1, <2>1 DEF Request
    <2>. HIDE DEF r, x
    <2>4. \A st, t : Enforcing(r, st, t) /\ Enforcing(x, st, t)
      BY <2>3, NotEnforcing DEF InEviction
    <2>5. QED
      BY <1>1, <2>2, <2>4, SoloGoto
  <1>4. CASE SweepDone(p)
    <2>. DEFINE r == [req[p] EXCEPT !.pc = "validate"]
    <2>1. Goto(p, r) /\ r.pc = "validate"
      BY <1>1, <1>4 DEF SweepDone, Request
    <2>. HIDE DEF r
    <2>2. QED
      BY <1>1, <2>1, NotEnforcing, SoloGoto DEF InEviction
  <1>5. QED
    BY <1>2, <1>3, <1>4

\* A termination or an update that finds its session gone resumes its caller.
LEMMA GoneSolo ==
  ASSUME IInv, SoloSound, NEW p \in Proc, req[p].pc \in {"terminate", "exists"},
         ~Live(req[p].target), Resume(p), UNCHANGED <<now, store, solo>>
  PROVE  SoloSound'
  <1>1. Goto(p, After(p)) /\ TypeOK
    BY DEF Resume, IInv
  <1>2. CASE req[p].back # "evict"
    BY <1>1, <1>2, AfterNotEnforcing, SoloGoto
  <1>3. CASE req[p].back = "evict"
    <2>1. UsableOf(Owner[req[p].sid], store, now) \subseteq
             UsableOf(Owner[req[p].sid], store, now) \ {req[p].target}
      BY DEF UsableOf, Live
    <2>2. p \in solo => Enforcing(After(p), store, now)
      BY <1>1, <1>3, <2>1, SoloRunning, VictimGone
    <2>3. QED
      BY <1>1, <2>2, SoloGoto
  <1>4. QED
    BY <1>2, <1>3

LEMMA TerminateSolo ==
  ASSUME IInv, SoloSound, NEW p \in Proc, Terminate(p) PROVE SoloSound'
  <1>1. /\ req[p].pc = "terminate" /\ UNCHANGED <<now, store, solo>> /\ TypeOK
        /\ req[p] \in Request /\ req[p].target \in Sid
    BY SoloRunning DEF Terminate, IInv
  <1>2. CASE ~Live(req[p].target)
    BY <1>1, <1>2, GoneSolo DEF Terminate
  <1>3. CASE Live(req[p].target)
    <2>. DEFINE r == [req[p] EXCEPT !.pc = "exists", !.copy = Ended(req[p].target)]
    <2>1. Goto(p, r)
      BY <1>3 DEF Terminate
    <2>2. /\ r.pc = "exists" /\ r.back = req[p].back /\ r.sid = req[p].sid /\ r.seen = req[p].seen
          /\ r.target = req[p].target /\ r.copy = [active |-> FALSE, last |-> store[r.target].last]
      BY <1>1 DEF Request, Ended
    <2>. HIDE DEF r
    <2>3. CASE r.back # "evict"
      BY <1>1, <2>1, <2>2, <2>3, NotEnforcing, SoloGoto DEF InEviction
    <2>4. CASE r.back = "evict"
      <3>1. Spared(r, store, now) = Spared(req[p], store, now)
        BY <1>1, <2>2 DEF Spared
      <3>2. ASSUME p \in solo PROVE Enforcing(r, store, now)
        <4>1. Evicting(req[p], store, now)
          BY <1>1, <2>2, <2>4, <3>2, SoloRunning DEF Enforcing, InEviction
        <4>2. Evicting(r, store, now)
          BY <1>1, <2>2, <2>4, <3>1, <4>1, EvictionGoesOn
        <4>3. QED
          BY <2>2, <4>2 DEF Enforcing
      <3>3. QED
        BY <1>1, <2>1, <3>2, SoloGoto
    <2>5. QED
      BY <2>3, <2>4
  <1>4. QED
    BY <1>2, <1>3

LEMMA ExistsSolo ==
  ASSUME IInv, SoloSound, NEW p \in Proc, Exists(p) PROVE SoloSound'
  <1>1. /\ req[p].pc = "exists" /\ UNCHANGED <<now, store, solo>> /\ TypeOK
        /\ req[p] \in Request /\ req[p].target \in Sid
    BY SoloRunning DEF Exists, IInv
  <1>2. CASE ~Live(req[p].target)
    BY <1>1, <1>2, GoneSolo DEF Exists
  <1>3. CASE Live(req[p].target)
    <2>. DEFINE r == [req[p] EXCEPT !.pc = "write"]
    <2>1. Goto(p, r)
      BY <1>3 DEF Exists
    <2>2. /\ r.pc = "write" /\ r.back = req[p].back /\ r.sid = req[p].sid /\ r.seen = req[p].seen
          /\ r.target = req[p].target /\ r.copy = req[p].copy
      BY <1>1 DEF Request
    <2>. HIDE DEF r
    <2>3. CASE r.back # "evict"
      BY <1>1, <2>1, <2>2, <2>3, NotEnforcing, SoloGoto DEF InEviction
    <2>4. CASE r.back = "evict"
      <3>1. Spared(r, store, now) = Spared(req[p], store, now)
        BY <1>1, <2>2 DEF Spared
      <3>2. ASSUME p \in solo PROVE Enforcing(r, store, now)
        <4>1. Evicting(req[p], store, now)
          BY <1>1, <2>2, <2>4, <3>2, SoloRunning DEF Enforcing, InEviction
        <4>2. r.copy = [active |-> FALSE, last |-> store[r.target].last]
          BY <1>1, <2>2, <4>1 DEF Evicting
        <4>3. Evicting(r, store, now)
          BY <1>1, <2>2, <2>4, <3>1, <4>1, <4>2, EvictionGoesOn
        <4>4. QED
          BY <2>2, <4>3 DEF Enforcing
      <3>3. QED
        BY <1>1, <2>1, <3>2, SoloGoto
    <2>5. QED
      BY <2>3, <2>4
  <1>4. QED
    BY <1>2, <1>3

\* Storing a deactivated copy takes one session out of the usable ones.
LEMMA WriteSolo ==
  ASSUME IInv, SoloSound, NEW p \in Proc, Write(p) PROVE SoloSound'
  <1>. DEFINE s == req[p].target
              c == req[p].copy
  <1>1. /\ req[p].pc = "write" /\ StoreWrite(s, c) /\ Goto(p, After(p))
        /\ UNCHANGED <<now, solo>> /\ TypeOK /\ req[p] \in Request /\ s \in Sid
        /\ store \in [Sid -> Record]
    BY SoloRunning DEF Write, Resume, IInv
  <1>2. CASE req[p].back # "evict"
    BY <1>1, <1>2, AfterNotEnforcing, SoloGoto
  <1>3. CASE req[p].back = "evict"
    <2>1. ASSUME p \in solo PROVE Enforcing(After(p), store', now)
      <3>1. Enforcing(req[p], store, now) /\ Evicting(req[p], store, now)
        BY <1>1, <1>3, <2>1, SoloRunning DEF Enforcing, InEviction
      <3>2. c.active = FALSE /\ c.last = store[s].last
        BY <1>1, <3>1 DEF Evicting
      <3>3. /\ store'[s].active = FALSE /\ store'[s].last = store[s].last
            /\ \A x \in Sid : x # s => store'[x] = store[x]
        BY <1>1, <3>2 DEF StoreWrite, Stored
      <3>4. UsableOf(Owner[req[p].sid], store', now) \subseteq
               UsableOf(Owner[req[p].sid], store, now) \ {s}
        BY <3>3 DEF UsableOf
      <3>5. \A x \in Sid : store'[x].last = store[x].last
        BY <3>3
      <3>6. QED
        BY <1>1, <1>3, <3>1, <3>4, <3>5, VictimGone
    <2>2. QED
      BY <1>1, <2>1, SoloGoto
  <1>4. QED
    BY <1>2, <1>3

\* Reading the identifiers finds every usable session of the user.
LEMMA UserSessionsSolo ==
  ASSUME SoloInv, NEW p \in Proc, UserSessions(p) \/ ScanAll(p) PROVE SoloSound'
  <1>. DEFINE u == Owner[req[p].sid]
  <1>1. /\ req[p].pc \in {"ids", "scanall"} /\ UNCHANGED <<now, store, solo>> /\ TypeOK
        /\ IInv /\ SoloSound /\ req[p] \in Request /\ u \in User
    BY SoloRunning DEF UserSessions, ScanAll, SoloInv, IInv
  <1>2. PICK I \in SUBSET Sid : /\ Goto(p, [req[p] EXCEPT !.pc = "collect", !.ids = I])
                                /\ \A s \in I : Owner[s] = u
                                /\ UsableOf(u, store, now) \subseteq I
    <2>1. CASE UserSessions(p)
      <3>. DEFINE I == IF IndexLive(u) THEN index[u].ids ELSE {}
      <3>1. I \in SUBSET Sid /\ \A s \in I : Owner[s] = u
        BY <1>1 DEF SoloInv, IndexOwned, IInv, TypeOK, Index
      <3>2. \A s \in UsableOf(u, store, now) : s \in index[u].ids /\ IndexLive(u)
        <4>1. IndexCoversLive
          BY <1>1, OwnerAssumption, TimeAssumption
             DEF IInv, TypeOK, Indexed, IndexCoversLive, Live, IndexLive, Record, Index
        <4>2. QED
          BY <4>1 DEF IndexCoversLive, UsableOf, Live
      <3>3. QED
        BY <2>1, <3>1, <3>2 DEF UserSessions
    <2>2. CASE ScanAll(p)
      <3>. DEFINE I == {s \in Sid : Live(s) /\ Owner[s] = u}
      <3>1. UsableOf(u, store, now) \subseteq I
        BY DEF UsableOf, Live
      <3>2. QED
        BY <2>2, <3>1 DEF ScanAll
    <2>3. QED
      BY <2>1, <2>2
  <1>. DEFINE r == [req[p] EXCEPT !.pc = "collect", !.ids = I]
  <1>3. r.pc = "collect" /\ r.ids = I /\ r.seen = req[p].seen /\ r.sid = req[p].sid
    BY <1>1 DEF Request
  <1>. HIDE DEF r
  <1>4. ASSUME p \in solo PROVE Enforcing(r, store, now)
    <2>1. r.seen = {} /\ IsFiniteSet(r.seen)
      BY <1>1, <1>3, <1>4, SoloRunning, FS_EmptySet DEF Enforcing
    <2>2. Collecting(r, store, now)
      BY <1>2, <1>3, <2>1 DEF Collecting, Seen
    <2>3. QED
      BY <1>3, <2>2 DEF Enforcing, InEviction
  <1>5. QED
    BY <1>1, <1>2, <1>4, SoloGoto DEF r

LEMMA CollectSolo ==
  ASSUME IInv, SoloSound, NEW p \in Proc, Collect(p) PROVE SoloSound'
  <1>1. /\ req[p].pc = "collect" /\ UNCHANGED <<now, store, solo>> /\ TypeOK
        /\ req[p] \in Request
    BY SoloRunning DEF Collect, IInv
  <1>2. PICK s \in req[p].ids : Goto(p, [req[p] EXCEPT !.ids = Rest(p, s),
            !.seen = IF Usable(s) THEN @ \cup {[sid |-> s, last |-> store[s].last]} ELSE @])
    BY DEF Collect
  <1>. DEFINE rec == [sid |-> s, last |-> store[s].last]
              F   == IF Usable(s) THEN req[p].seen \cup {rec} ELSE req[p].seen
              r   == [req[p] EXCEPT !.ids = Rest(p, s), !.seen = F]
  <1>3. Goto(p, r)
    BY <1>2
  <1>4. r.pc = "collect" /\ r.ids = req[p].ids \ {s} /\ r.seen = F /\ r.sid = req[p].sid
    BY <1>1 DEF Request, Rest
  <1>. HIDE DEF r
  <1>5. ASSUME p \in solo PROVE Enforcing(r, store, now)
    <2>1. Collecting(req[p], store, now)
      BY <1>1, <1>5, SoloRunning DEF Enforcing
    <2>2. IsFiniteSet(F)
      BY <2>1, FS_AddElement DEF Collecting
    <2>3. Seen(r, store)
      BY <1>4, <2>1 DEF Collecting, Seen
    <2>4. \A x \in UsableOf(Owner[r.sid], store, now) :
              x \in r.ids \/ [sid |-> x, last |-> store[x].last] \in r.seen
      <3>1. SUFFICES ASSUME NEW x \in UsableOf(Owner[r.sid], store, now), x = s
                     PROVE  [sid |-> x, last |-> store[x].last] \in F
        BY <1>4, <2>1 DEF Collecting
      <3>2. Usable(s)
        BY <3>1 DEF UsableOf, Usable, Live
      <3>3. QED
        BY <3>1, <3>2
    <2>5. Collecting(r, store, now)
      BY <1>4, <2>1, <2>2, <2>3, <2>4 DEF Collecting
    <2>6. QED
      BY <1>4, <2>5 DEF Enforcing, InEviction
  <1>6. QED
    BY <1>1, <1>3, <1>5, SoloGoto

LEMMA DecideSolo ==
  ASSUME IInv, SoloSound, NEW p \in Proc, Decide(p) PROVE SoloSound'
  <1>1. /\ req[p].pc = "collect" /\ req[p].ids = {} /\ UNCHANGED <<now, store, solo>> /\ TypeOK
        /\ req[p] \in Request
    BY SoloRunning DEF Decide, IInv
  <1>. DEFINE F == req[p].seen
              U == UsableOf(Owner[req[p].sid], store, now)
  <1>2. PICK V \in Victims(F) : Goto(p, [req[p] EXCEPT !.pc = "evict", !.back = "evict", !.seen = V])
    BY DEF Decide
  <1>. DEFINE r == [req[p] EXCEPT !.pc = "evict", !.back = "evict", !.seen = V]
  <1>3. r.pc = "evict" /\ r.back = "evict" /\ r.seen = V /\ r.sid = req[p].sid
    BY <1>1 DEF Request
  <1>. HIDE DEF r
  <1>4. ASSUME p \in solo PROVE Enforcing(r, store, now)
    <2>1. Collecting(req[p], store, now)
      BY <1>1, <1>4, SoloRunning DEF Enforcing
    <2>2. /\ V \subseteq F /\ AtMost(F \ V, MaxSessions - 1)
          /\ \A v \in V, w \in F \ V : v.last <= w.last
      BY <2>1, VictimsSubset, VictimsChosen DEF Collecting
    <2>3. \A s \in Spared(r, store, now) : [sid |-> s, last |-> store[s].last] \in F \ V
      <3>1. SUFFICES ASSUME NEW s \in Spared(r, store, now)
                     PROVE  [sid |-> s, last |-> store[s].last] \in F \ V
        OBVIOUS
      <3>2. s \in U /\ \A v \in V : v.sid # s
        BY <1>3 DEF Spared
      <3>3. [sid |-> s, last |-> store[s].last] \in F
        BY <1>1, <2>1, <3>2 DEF Collecting
      <3>4. [sid |-> s, last |-> store[s].last].sid = s
        OBVIOUS
      <3>5. QED
        BY <3>2, <3>3, <3>4
    <2>4. AtMost(Spared(r, store, now), MaxSessions - 1)
      <3>1. MaxSessions - 1 \in Nat
        BY LimitAssumption
      <3>2. AtMost({v.sid : v \in F \ V}, MaxSessions - 1)
        BY <2>2, <3>1, AtMostIds
      <3>3. Spared(r, store, now) \subseteq {v.sid : v \in F \ V}
        <4>1. SUFFICES ASSUME NEW s \in Spared(r, store, now)
                       PROVE  \E v \in F \ V : v.sid = s
          OBVIOUS
        <4>2. QED
          BY <2>3
      <3>4. QED
        BY <3>1, <3>2, <3>3, AtMostSubset
    <2>5. \A v \in r.seen, s \in Spared(r, store, now) : v.last <= store[s].last
      <3>1. SUFFICES ASSUME NEW v \in V, NEW s \in Spared(r, store, now)
                     PROVE  v.last <= store[s].last
        BY <1>3
      <3>2. v.last <= [sid |-> s, last |-> store[s].last].last
        BY <2>2, <2>3
      <3>3. QED
        BY <3>2
    <2>6. Seen(r, store)
      BY <1>3, <2>1, <2>2 DEF Collecting, Seen
    <2>7. Evicting(r, store, now)
      BY <1>3, <2>4, <2>5, <2>6 DEF Evicting
    <2>8. QED
      BY <1>3, <2>7 DEF Enforcing
  <1>5. QED
    BY <1>1, <1>2, <1>4, SoloGoto DEF r

LEMMA EvictSolo ==
  ASSUME IInv, SoloSound, NEW p \in Proc, Evict(p) PROVE SoloSound'
  <1>1. /\ req[p].pc = "evict" /\ UNCHANGED <<now, store, solo>> /\ TypeOK
        /\ req[p] \in Request /\ store \in [Sid -> Record]
    BY SoloRunning DEF Evict, IInv
  <1>. DEFINE u == Owner[req[p].sid]
              U == UsableOf(u, store, now)
  <1>2. PICK v \in req[p].seen :
          /\ \A w \in req[p].seen : Older(v, w)
          /\ Goto(p, [req[p] EXCEPT !.pc = "terminate", !.target = v.sid, !.seen = @ \ {v}])
    BY DEF Evict
  <1>. DEFINE r == [req[p] EXCEPT !.pc = "terminate", !.target = v.sid, !.seen = @ \ {v}]
  <1>3. /\ r.pc = "terminate" /\ r.back = req[p].back /\ r.target = v.sid
        /\ r.seen = req[p].seen \ {v} /\ r.sid = req[p].sid
    BY <1>1 DEF Request
  <1>. HIDE DEF r
  <1>4. ASSUME p \in solo PROVE Enforcing(r, store, now)
    <2>1. Evicting(req[p], store, now)
      BY <1>1, <1>4, SoloRunning DEF Enforcing, InEviction
    <2>2. Owner[v.sid] = u /\ store[v.sid].last = v.last /\ Seen(r, store)
      BY <1>3, <2>1 DEF Evicting, Seen
    <2>3. Spared(r, store, now) \subseteq Spared(req[p], store, now)
      BY <1>1, <1>3 DEF Spared
    <2>4. AtMost(Spared(r, store, now), MaxSessions - 1)
      BY <2>1, <2>3, AtMostSubset, LimitAssumption DEF Evicting
    <2>5. \A w \in r.seen, s \in Spared(r, store, now) : w.last <= store[s].last
      BY <1>3, <2>1, <2>3 DEF Evicting
    <2>6. \A s \in U : store[r.target].last <= store[s].last
      <3>1. SUFFICES ASSUME NEW s \in U PROVE v.last <= store[s].last
        BY <1>3, <2>2
      <3>2. CASE \E w \in req[p].seen : w.sid = s
        <4>1. PICK w \in req[p].seen : w.sid = s
          BY <3>2
        <4>2. store[s].last = w.last
          BY <2>1, <4>1 DEF Evicting, Seen
        <4>3. QED
          BY <1>2, <4>1, <4>2 DEF Older
      <3>3. CASE \A w \in req[p].seen : w.sid # s
        <4>1. s \in Spared(req[p], store, now)
          BY <1>1, <3>3 DEF Spared
        <4>2. QED
          BY <2>1, <4>1 DEF Evicting
      <3>4. QED
        BY <3>2, <3>3
    <2>7. Evicting(r, store, now)
      <3>1. r.back = "evict"
        BY <1>3, <2>1 DEF Evicting
      <3>2. Owner[r.target] = Owner[r.sid]
        BY <1>3, <2>2
      <3>3. \A s \in UsableOf(Owner[r.sid], store, now) : store[r.target].last <= store[s].last
        BY <1>3, <2>6
      <3>4. QED
        BY <1>3, <2>2, <2>4, <2>5, <3>1, <3>2, <3>3 DEF Evicting
    <2>8. QED
      BY <1>3, <2>7 DEF Enforcing
  <1>5. QED
    BY <1>1, <1>2, <1>4, SoloGoto DEF r

LEMMA CreateSolo ==
  ASSUME IInv, SoloSound, NEW p \in Proc, Create(p) PROVE SoloSound'
  <1>1. req[p].pc = "evict" /\ Goto(p, Idle) /\ UNCHANGED solo /\ TypeOK
    BY DEF Create, IInv
  <1>2. \A st, t : Enforcing(Idle, st, t)
    BY NotEnforcing DEF Idle, InEviction
  <1>3. QED
    BY <1>1, <1>2, SoloGoto

\* A request that arrives has read nothing yet: a login with a session that was
\* never stored, the others with one a cookie was issued for.
LEMMA ArrivesAt ==
  ASSUME NEW p \in Proc, Login(p) \/ Page(p) \/ Logout(p)
  PROVE  \E r : /\ Arrive(p, r) /\ r.seen = {}
               /\ \/ r.pc = "ids" /\ Fresh(r.sid)
                  \/ r.pc \in {"validate", "scan"} /\ r.sid \in granted
  <1>1. CASE Login(p)
    <2>1. PICK s \in Sid : Fresh(s) /\ Arrive(p, [Idle EXCEPT !.pc = "ids", !.op = "login",
                                                              !.sid = s, !.began = now])
      BY <1>1 DEF Login
    <2>. DEFINE r == [Idle EXCEPT !.pc = "ids", !.op = "login", !.sid = s, !.began = now]
    <2>2. r.pc = "ids" /\ r.sid = s /\ r.seen = {}
      BY DEF Idle
    <2>. HIDE DEF r
    <2>3. QED
      BY <2>1, <2>2 DEF r, Fresh
  <1>2. CASE Page(p)
    <2>. DEFINE start == IF now - lastCleanup < CleanupInterval THEN "validate" ELSE "scan"
    <2>1. PICK s \in granted : Arrive(p, [Idle EXCEPT !.op = "page", !.sid = s, !.began = now,
                                                      !.pc = start])
      BY <1>2 DEF Page
    <2>. DEFINE r == [Idle EXCEPT !.op = "page", !.sid = s, !.began = now, !.pc = start]
    <2>2. r.pc \in {"validate", "scan"} /\ r.sid = s /\ r.seen = {}
      BY DEF Idle
    <2>. HIDE DEF r
    <2>3. QED
      BY <2>1, <2>2 DEF r
  <1>3. CASE Logout(p)
    <2>1. PICK s \in granted : Arrive(p, [Idle EXCEPT !.pc = "validate", !.op = "logout",
                                                      !.sid = s, !.began = now])
      BY <1>3 DEF Logout
    <2>. DEFINE r == [Idle EXCEPT !.pc = "validate", !.op = "logout", !.sid = s, !.began = now]
    <2>2. r.pc = "validate" /\ r.sid = s /\ r.seen = {}
      BY DEF Idle
    <2>. HIDE DEF r
    <2>3. QED
      BY <2>1, <2>2 DEF r
  <1>4. QED
    BY <1>1, <1>2, <1>3

LEMMA ArrivalSolo ==
  ASSUME IInv, NEW p \in Proc, Login(p) \/ Page(p) \/ Logout(p) PROVE SoloSound'
  <1>1. PICK r : /\ Arrive(p, r) /\ r.pc \in {"ids", "validate", "scan"} /\ r.seen = {}
    BY ArrivesAt
  <1>2. req' = [req EXCEPT ![p] = r] /\ req \in [Proc -> Request]
    BY <1>1 DEF Arrive, Goto, IInv, TypeOK
  <1>3. req'[p] = r /\ \A q \in Proc : q # p => req'[q] = req[q]
    BY <1>2
  <1>4. Enforcing(r, store', now')
    BY <1>1 DEF Enforcing, InEviction
  <1>5. CASE \A q \in Proc : req[q].pc = "idle"
    BY <1>1, <1>3, <1>4, <1>5 DEF Arrive, SoloSound
  <1>6. CASE ~ \A q \in Proc : req[q].pc = "idle"
    BY <1>1, <1>6 DEF Arrive, SoloSound
  <1>7. QED
    BY <1>5, <1>6

\* While time passes sessions only expire.
LEMMA TickSolo ==
  ASSUME IInv, SoloSound, Tick PROVE SoloSound'
  <1>1. UNCHANGED <<store, req, solo>> /\ now' = now + 1 /\ now \in Nat /\ solo \in SUBSET Proc
    BY DEF Tick, IInv, TypeOK
  <1>2. SUFFICES ASSUME NEW p \in solo PROVE Enforcing(req[p], store, now + 1)
    BY <1>1 DEF SoloSound
  <1>. DEFINE r == req[p]
  <1>3. /\ Enforcing(r, store, now) /\ r \in Request /\ store \in [Sid -> Record]
    BY <1>1 DEF SoloSound, IInv, TypeOK
  <1>4. \A u : UsableOf(u, store, now + 1) \subseteq UsableOf(u, store, now)
    BY <1>1, <1>3 DEF UsableOf, Record
  <1>5. r.pc \in {"ids", "scanall"} => r.seen = {}
    BY <1>3 DEF Enforcing
  <1>6. r.pc = "collect" => Collecting(r, store, now + 1)
    BY <1>3, <1>4 DEF Enforcing, Collecting
  <1>7. ASSUME InEviction(r) PROVE Evicting(r, store, now + 1)
    <2>1. Evicting(r, store, now)
      BY <1>3, <1>7 DEF Enforcing
    <2>2. Spared(r, store, now + 1) \subseteq Spared(r, store, now)
      BY <1>4 DEF Spared
    <2>3. r.pc # "evict" => r.target \in Sid
      BY <1>1, <1>7 DEF InEviction, IInv, RequestsSound, Sound
    <2>4. r.back = "evict" /\ (r.pc \in {"exists", "write"} =>
             r.copy = [active |-> FALSE, last |-> store[r.target].last])
      BY <2>1 DEF Evicting
    <2>. HIDE DEF r
    <2>5. QED
      BY <1>3, <1>4, <2>1, <2>2, <2>3, <2>4, EvictionGoesOn
  <1>8. QED
    BY <1>5, <1>6, <1>7 DEF Enforcing

\* SADD is the only command that adds to an index.
LEMMA OwnedStep ==
  ASSUME IInv, IndexOwned, [Next]_vars PROVE IndexOwned'
  <1>. DEFINE Command == \/ UNCHANGED index
                         \/ \E s \in Sid : \E d : StoreCreate(s, d) \/ StoreWrite(s, d)
  <1>1. Command
    <2>1. ASSUME NEW p \in Proc, Create(p) \/ Write(p) PROVE Command
      BY <2>1, SoloRunning, Running DEF Create, Write, Sound
    <2>2. ASSUME NEW p \in Proc, Fault(p) PROVE Command
      BY <2>2, Running DEF Fault, Skips, Raises, Sound
    <2>3. QED
      BY <2>1, <2>2 DEF Next, vars, Step, Login, Page, Logout, Arrive, Validate, Terminate, Exists,
         Scan, Sweep, SweepDone, UserSessions, ScanAll, Collect, Decide, Evict, Tick
  <1>2. CASE UNCHANGED index
    BY <1>2 DEF IndexOwned
  <1>3. ASSUME NEW s \in Sid, NEW d, StoreCreate(s, d) PROVE IndexOwned'
    <2>. DEFINE old == IF IndexLive(Owner[s]) THEN index[Owner[s]].ids ELSE {}
                new == [ids |-> old \cup {s}, exp |-> now + Timeout + Grace]
    <2>1. index' = [index EXCEPT ![Owner[s]] = new] /\ index \in [User -> Index]
      BY <1>3 DEF StoreCreate, IInv, TypeOK
    <2>2. new.ids = old \cup {s} /\ Owner[s] \in User
      BY OwnerAssumption
    <2>3. \A x \in new.ids : Owner[x] = Owner[s]
      BY <2>2 DEF IndexOwned
    <2>. HIDE DEF new
    <2>4. QED
      BY <2>1, <2>2, <2>3 DEF IndexOwned
  <1>4. ASSUME NEW s \in Sid, NEW d, StoreWrite(s, d) PROVE IndexOwned'
    <2>1. \A u \in User : index'[u].ids = index[u].ids
      BY <1>4 DEF StoreWrite, IInv, TypeOK, Index
    <2>2. QED
      BY <2>1 DEF IndexOwned
  <1>5. QED
    BY <1>1, <1>2, <1>3, <1>4

LEMMA SoloInit == Init => SoloInv
  BY InitInv DEF Init, SoloInv, IndexOwned, SoloSound

LEMMA SoloNext == SoloInv /\ [Next]_vars => SoloInv'
  <1>. SUFFICES ASSUME SoloInv, [Next]_vars PROVE SoloInv'
    OBVIOUS
  <1>a. IInv /\ SoloSound /\ IndexOwned
    BY DEF SoloInv
  <1>1. ASSUME NEW p \in Proc, Step(p) PROVE SoloSound'
    BY <1>a, <1>1, ValidateSolo, TerminateSolo, ExistsSolo, WriteSolo, CleanupSolo,
       UserSessionsSolo, CollectSolo, DecideSolo, EvictSolo, CreateSolo DEF Step
  <1>2. ASSUME NEW p \in Proc, Login(p) \/ Page(p) \/ Logout(p) PROVE SoloSound'
    BY <1>a, <1>2, ArrivalSolo
  <1>3. ASSUME NEW p \in Proc, Fault(p) PROVE SoloSound'
    BY <1>3 DEF Fault, SoloSound
  <1>4. ASSUME Tick PROVE SoloSound'
    BY <1>a, <1>4, TickSolo
  <1>5. ASSUME UNCHANGED vars PROVE SoloSound'
    BY <1>a, <1>5 DEF vars, SoloSound
  <1>6. SoloSound'
    BY <1>1, <1>2, <1>3, <1>4, <1>5 DEF Next
  <1>7. QED
    BY <1>a, <1>6, NextInv, OwnedStep DEF SoloInv

THEOREM SoloInvariance == Spec => []SoloInv
  BY SoloInit, SoloNext, PTL DEF Spec

\* The session a login that runs alone stores is one more than those it has spared.
LEMMA CreateWithinLimit ==
  ASSUME SoloInv, NEW p \in Proc, Create(p), p \in solo, NEW s \in Sid, s = req[p].sid
  PROVE  AtMost(Sessions(Owner[s])', MaxSessions)
  <1>. DEFINE u == Owner[s]
  <1>1. /\ req[p].pc = "evict" /\ req[p].seen = {} /\ UNCHANGED now
        /\ \E d : StoreCreate(s, d)
    BY DEF Create
  <1>2. Evicting(req[p], store, now) /\ s \in Sid /\ store \in [Sid -> Record]
    BY <1>1, SoloRunning DEF SoloInv, Enforcing, InEviction
  <1>3. Spared(req[p], store, now) = UsableOf(u, store, now)
    BY <1>1 DEF Spared
  <1>4. AtMost(UsableOf(u, store, now), MaxSessions - 1)
    BY <1>2, <1>3 DEF Evicting
  <1>5. MaxSessions - 1 \in Nat /\ MaxSessions \in Nat /\ MaxSessions - 1 + 1 = MaxSessions
    BY LimitAssumption
  <1>6. AtMost(UsableOf(u, store, now) \cup {s}, MaxSessions)
    BY <1>4, <1>5, AtMostAdd
  <1>7. Sessions(u)' \subseteq UsableOf(u, store, now) \cup {s}
    <2>1. \A x \in Sid : x # s => store'[x] = store[x]
      BY <1>1, <1>2 DEF StoreCreate
    <2>2. QED
      BY <1>1, <2>1 DEF Sessions, Usable, Live, UsableOf
  <1>8. QED
    BY <1>5, <1>6, <1>7, AtMostSubset

\* Whatever happened before, a login that runs alone and meets no error leaves its
\* user with max_sessions_per_user usable sessions at most, the new one included.
THEOREM LimitRestored == Spec => SoloLoginRestoresLimit
  <1>. DEFINE Restores == \A s \in granted' \ granted :
                solo # {} => Cardinality(Sessions(Owner[s])') <= MaxSessions
  <1>1. SoloInv /\ [Next]_vars => Restores
    <2>1. SUFFICES ASSUME SoloInv, [Next]_vars, NEW s \in granted' \ granted, solo # {}
                   PROVE  Cardinality(Sessions(Owner[s])') <= MaxSessions
      OBVIOUS
    <2>2. PICK p \in Proc : Create(p)
      BY <2>1 DEF Next, vars, Step, Login, Page, Logout, Arrive, Validate, Terminate, Exists, Write,
         Scan, Sweep, SweepDone, UserSessions, ScanAll, Collect, Decide, Evict, Fault, Tick
    <2>3. s = req[p].sid /\ s \in Sid
      BY <2>1, <2>2, SoloRunning DEF Create, SoloInv
    <2>4. p \in solo
      <3>1. PICK q \in solo : TRUE
        BY <2>1
      <3>2. req[p].pc # "idle"
        BY <2>2 DEF Create
      <3>3. QED
        BY <2>1, <3>1, <3>2 DEF SoloInv, SoloSound
    <2>5. QED
      BY <2>1, <2>2, <2>3, <2>4, CreateWithinLimit DEF AtMost
  <1>2. QED
    BY <1>1, SoloInvariance, PTL DEF Spec, SoloLoginRestoresLimit

\* The sessions such a login terminates have been idle for the longest, each of
\* them at the moment it is written off.
THEOREM OldestFirst == Spec => EvictsOldestFirst
  <1>. DEFINE Longest == \A p \in solo :
                req[p].pc = "write" /\ req[p].back = "evict" =>
                  \A s \in Sessions(Owner[req[p].target]) : store[req[p].target].last <= store[s].last
  <1>1. SoloInv => Longest
    <2>1. SUFFICES ASSUME SoloInv, NEW p \in solo, req[p].pc = "write", req[p].back = "evict",
                          NEW s \in Sessions(Owner[req[p].target])
                   PROVE  store[req[p].target].last <= store[s].last
      OBVIOUS
    <2>2. Evicting(req[p], store, now)
      BY <2>1 DEF SoloInv, SoloSound, Enforcing, InEviction
    <2>3. QED
      BY <2>1, <2>2, UsableIs DEF Evicting
  <1>2. QED
    BY <1>1, SoloInvariance, PTL DEF EvictsOldestFirst

-----------------------------------------------------------------------------
(* What is over stays over, with any number of requests and storage errors. *)

InLogin(r) == r.pc \in {"ids", "scanall", "collect"} \/ InEviction(r)

\* A login that has not stored its session has one that was never stored, and
\* no other login has the same.
LoginsFresh ==
    \A p \in Proc : InLogin(req[p]) =>
        /\ store[req[p].sid] = NoRecord
        /\ \A q \in Proc : q # p /\ InLogin(req[q]) => req[q].sid # req[p].sid

\* Reading the user's sessions leads to the loop over them, or round it.
LEMMA CollectsNext ==
  ASSUME TypeOK, NEW p \in Proc, UserSessions(p) \/ ScanAll(p) \/ Collect(p)
  PROVE  \E r : Goto(p, r) /\ r.pc = "collect" /\ r.sid = req[p].sid
  <1>1. req[p] \in Request
    BY DEF TypeOK
  <1>2. PICK I, F : Goto(p, [req[p] EXCEPT !.pc = "collect", !.ids = I, !.seen = F])
    <2>1. CASE UserSessions(p) \/ ScanAll(p)
      <3>1. PICK I : Goto(p, [req[p] EXCEPT !.pc = "collect", !.ids = I])
        BY <2>1 DEF UserSessions, ScanAll
      <3>2. [req[p] EXCEPT !.pc = "collect", !.ids = I] =
               [req[p] EXCEPT !.pc = "collect", !.ids = I, !.seen = req[p].seen]
        BY <1>1 DEF Request
      <3>3. QED
        BY <3>1, <3>2
    <2>2. CASE Collect(p)
      <3>1. PICK I, F : Goto(p, [req[p] EXCEPT !.ids = I, !.seen = F]) /\ req[p].pc = "collect"
        BY <2>2 DEF Collect
      <3>2. [req[p] EXCEPT !.ids = I, !.seen = F] =
               [req[p] EXCEPT !.pc = "collect", !.ids = I, !.seen = F]
        BY <1>1, <3>1 DEF Request
      <3>3. QED
        BY <3>1, <3>2
    <2>3. QED
      BY <2>1, <2>2
  <1>. DEFINE r == [req[p] EXCEPT !.pc = "collect", !.ids = I, !.seen = F]
  <1>3. r.pc = "collect" /\ r.sid = req[p].sid
    BY <1>1 DEF Request
  <1>. HIDE DEF r
  <1>4. QED
    BY <1>2, <1>3 DEF r
\* Request p is about to store session s again, as an active one.
Updating(p, s) == req[p].pc \in {"exists", "write"} /\ req[p].copy.active /\ req[p].target = s

\* One request goes on with r; the others are about to store what they were.
LEMMA UpdatingGoesOn ==
  ASSUME TypeOK, NEW q \in Proc, NEW r, Goto(q, r), NEW p \in Proc, NEW s, Updating(p, s)',
         r.pc \in {"exists", "write"} /\ r.copy.active =>
             Updating(q, r.target) \/ (Usable(r.target) /\ UNCHANGED <<now, store>>)
  PROVE  Updating(p, s) \/ (Usable(s) /\ UNCHANGED <<now, store>>)
  <1>1. req'[q] = r /\ (p # q => req'[p] = req[p])
    BY DEF Goto, TypeOK
  <1>2. CASE p = q
    BY <1>1, <1>2 DEF Updating
  <1>3. CASE p # q
    BY <1>1, <1>3 DEF Updating
  <1>4. QED
    BY <1>2, <1>3

LEMMA AfterWritesNot ==
  ASSUME TypeOK, NEW p \in Proc PROVE After(p).pc \notin {"exists", "write"}
  <1>1. req[p] \in Request
    BY DEF TypeOK
  <1>. DEFINE r == [req[p] EXCEPT !.target = NoSid, !.copy = NoData]
  <1>2. /\ [r EXCEPT !.pc = "sweep"].pc = "sweep" /\ [r EXCEPT !.pc = "evict"].pc = "evict"
        /\ [r EXCEPT !.pc = "terminate", !.target = r.sid, !.back = "out"].pc = "terminate"
        /\ Idle.pc = "idle"
    BY <1>1 DEF Request, Idle
  <1>3. \/ After(p) = [r EXCEPT !.pc = "sweep"] \/ After(p) = [r EXCEPT !.pc = "evict"]
        \/ After(p) = [r EXCEPT !.pc = "terminate", !.target = r.sid, !.back = "out"]
        \/ After(p) = Idle
    BY DEF After
  <1>. HIDE DEF r
  <1>4. QED
    BY <1>2, <1>3

\* A request decides to renew a session only when it finds it usable.
LEMMA UpdatingFrom ==
  ASSUME IInv, [Next]_vars, NEW p \in Proc, NEW s, Updating(p, s)'
  PROVE  Updating(p, s) \/ (Usable(s) /\ UNCHANGED <<now, store>>)
  <1>1. TypeOK /\ req \in [Proc -> Request]
    BY DEF IInv, TypeOK
  <1>. DEFINE Goal == Updating(p, s) \/ (Usable(s) /\ UNCHANGED <<now, store>>)
  <1>a. ASSUME NEW q \in Proc, NEW r, Goto(q, r), r.pc \notin {"exists", "write"} PROVE Goal
    BY <1>1, <1>a, UpdatingGoesOn
  <1>b. ASSUME NEW q \in Proc, NEW r, Goto(q, r), ~r.copy.active PROVE Goal
    BY <1>1, <1>b, UpdatingGoesOn
  <1>c. ASSUME NEW q \in Proc, Goto(q, After(q)) PROVE Goal
    BY <1>1, <1>a, <1>c, AfterWritesNot
  <1>2. ASSUME NEW q \in Proc, Login(q) \/ Page(q) \/ Logout(q) PROVE Goal
    <2>1. PICK r : Arrive(q, r) /\ r.pc \in {"ids", "validate", "scan"}
      BY <1>2, ArrivesAt
    <2>2. QED
      BY <1>a, <2>1 DEF Arrive
  <1>3. ASSUME NEW q \in Proc, Validate(q) PROVE Goal
    <2>. DEFINE d == [req[q] EXCEPT !.pc = "terminate", !.target = req[q].sid, !.back = "deny"]
                a == [req[q] EXCEPT !.pc = "exists", !.target = req[q].sid, !.back = "admit",
                                    !.copy = [active |-> TRUE, last |-> now]]
    <2>1. /\ Goto(q, Idle) \/ Goto(q, d) \/ (Goto(q, a) /\ Usable(req[q].sid))
          /\ UNCHANGED <<now, store>>
      BY <1>3 DEF Validate
    <2>2. Idle.pc = "idle" /\ d.pc = "terminate" /\ a.target = req[q].sid
      BY <1>1 DEF Idle, Request
    <2>. HIDE DEF d, a
    <2>3. CASE Goto(q, Idle) \/ Goto(q, d)
      BY <1>a, <2>2, <2>3
    <2>4. CASE Goto(q, a) /\ Usable(req[q].sid)
      BY <1>1, <2>1, <2>2, <2>4, UpdatingGoesOn
    <2>5. QED
      BY <2>1, <2>3, <2>4
  <1>4. ASSUME NEW q \in Proc, Terminate(q) PROVE Goal
    <2>. DEFINE r == [req[q] EXCEPT !.pc = "exists", !.copy = Ended(req[q].target)]
    <2>1. Goto(q, After(q)) \/ Goto(q, r)
      BY <1>4 DEF Terminate, Resume
    <2>2. ~r.copy.active
      BY <1>1 DEF Request, Ended
    <2>. HIDE DEF r
    <2>3. QED
      BY <1>b, <1>c, <2>1, <2>2
  <1>5. ASSUME NEW q \in Proc, Exists(q) PROVE Goal
    <2>. DEFINE r == [req[q] EXCEPT !.pc = "write"]
    <2>1. Goto(q, After(q)) \/ Goto(q, r)
      BY <1>5 DEF Exists, Resume
    <2>2. r.copy = req[q].copy /\ r.target = req[q].target /\ req[q].pc = "exists"
      BY <1>1, <1>5 DEF Request, Exists
    <2>. HIDE DEF r
    <2>3. r.copy.active => Updating(q, r.target)
      BY <2>2 DEF Updating
    <2>4. CASE Goto(q, r)
      BY <1>1, <2>3, <2>4, UpdatingGoesOn
    <2>5. QED
      BY <1>c, <2>1, <2>4
  <1>6. ASSUME NEW q \in Proc, Write(q) PROVE Goal
    BY <1>6, <1>c DEF Write, Resume
  <1>7. ASSUME NEW q \in Proc, Scan(q) \/ Sweep(q) \/ SweepDone(q) PROVE Goal
    <2>1. CASE Scan(q)
      <3>. DEFINE r == [req[q] EXCEPT !.pc = "sweep", !.ids = {x \in Sid : Live(x)}]
      <3>1. Goto(q, r) /\ r.pc = "sweep"
        BY <1>1, <2>1 DEF Scan, Request
      <3>. HIDE DEF r
      <3>2. QED
        BY <1>a, <3>1
    <2>2. CASE Sweep(q)
      <3>1. PICK x \in req[q].ids :
              LET r == [req[q] EXCEPT !.ids = Rest(q, x)]
              IN  /\ req[q].pc = "sweep"
                  /\ Goto(q, r) \/ Goto(q, [r EXCEPT !.pc = "exists", !.target = x, !.back = "sweep",
                                              !.copy = Ended(x)])
        BY <2>2 DEF Sweep
      <3>. DEFINE r == [req[q] EXCEPT !.ids = Rest(q, x)]
                  e == [r EXCEPT !.pc = "exists", !.target = x, !.back = "sweep", !.copy = Ended(x)]
      <3>2. Goto(q, r) \/ Goto(q, e)
        BY <3>1
      <3>3. r.pc = "sweep" /\ ~e.copy.active
        BY <1>1, <3>1 DEF Request, Ended
      <3>. HIDE DEF r, e
      <3>4. QED
        BY <1>a, <1>b, <3>2, <3>3
    <2>3. CASE SweepDone(q)
      <3>. DEFINE r == [req[q] EXCEPT !.pc = "validate"]
      <3>1. Goto(q, r) /\ r.pc = "validate"
        BY <1>1, <2>3 DEF SweepDone, Request
      <3>. HIDE DEF r
      <3>2. QED
        BY <1>a, <3>1
    <2>4. QED
      BY <1>7, <2>1, <2>2, <2>3
  <1>8. ASSUME NEW q \in Proc,
               UserSessions(q) \/ ScanAll(q) \/ Collect(q) \/ Decide(q) \/ Evict(q) \/ Create(q)
        PROVE  Goal
    <2>1. PICK r : Goto(q, r) /\ r.pc \in {"collect", "evict", "terminate", "idle"}
      <3>1. CASE UserSessions(q) \/ ScanAll(q) \/ Collect(q)
        BY <1>1, <3>1, CollectsNext
      <3>2. CASE Decide(q)
        <4>1. PICK V : Goto(q, [req[q] EXCEPT !.pc = "evict", !.back = "evict", !.seen = V])
          BY <3>2 DEF Decide
        <4>2. [req[q] EXCEPT !.pc = "evict", !.back = "evict", !.seen = V].pc = "evict"
          BY <1>1 DEF Request
        <4>3. QED
          BY <4>1, <4>2
      <3>3. CASE Evict(q)
        <4>1. PICK v : Goto(q, [req[q] EXCEPT !.pc = "terminate", !.target = v.sid, !.seen = @ \ {v}])
          BY <3>3 DEF Evict
        <4>2. [req[q] EXCEPT !.pc = "terminate", !.target = v.sid, !.seen = @ \ {v}].pc = "terminate"
          BY <1>1 DEF Request
        <4>3. QED
          BY <4>1, <4>2
      <3>4. CASE Create(q)
        BY <3>4 DEF Create, Idle
      <3>5. QED
        BY <1>8, <3>1, <3>2, <3>3, <3>4
    <2>2. QED
      BY <1>a, <2>1
  <1>9. ASSUME NEW q \in Proc, Fault(q) PROVE Goal
    <2>1. CASE Skips(q)
      <3>1. PICK x \in req[q].ids : Goto(q, [req[q] EXCEPT !.ids = Rest(q, x)])
        BY <2>1 DEF Skips
      <3>. DEFINE r == [req[q] EXCEPT !.ids = Rest(q, x)]
      <3>2. Goto(q, r) /\ r.pc \notin {"exists", "write"}
        BY <1>1, <2>1, <3>1 DEF Skips, Request
      <3>. HIDE DEF r
      <3>3. QED
        BY <1>a, <3>2
    <2>2. CASE Raises(q)
      <3>1. Goto(q, Raised(q))
        BY <2>2 DEF Raises
      <3>2. Raised(q).pc \notin {"exists", "write"}
        <4>1. req[q] \in Request
          BY <1>1
        <4>2. /\ [req[q] EXCEPT !.pc = "validate", !.ids = {}].pc = "validate"
              /\ [req[q] EXCEPT !.pc = "scanall"].pc = "scanall"
              /\ [req[q] EXCEPT !.pc = "evict", !.back = "evict"].pc = "evict"
              /\ Idle.pc = "idle"
          BY <4>1 DEF Request, Idle
        <4>3. QED
          BY <1>1, <4>2, AfterWritesNot DEF Raised
      <3>3. QED
        BY <1>a, <3>1, <3>2
    <2>3. QED
      BY <1>9, <2>1, <2>2 DEF Fault
  <1>10. ASSUME UNCHANGED req PROVE Goal
    BY <1>10 DEF Updating
  <1>11. QED
    BY <1>2, <1>3, <1>4, <1>5, <1>6, <1>7, <1>8, <1>9, <1>10 DEF Next, Step, Tick, vars


\* One request goes on with r; the others are in the login they were in.
LEMMA LoginGoesOn ==
  ASSUME TypeOK, NEW q \in Proc, NEW r, Goto(q, r), NEW p \in Proc, InLogin(req'[p]),
         InLogin(r) => InLogin(req[q]) /\ r.sid = req[q].sid
  PROVE  InLogin(req[p]) /\ req'[p].sid = req[p].sid
  <1>1. req'[q] = r /\ (p # q => req'[p] = req[p])
    BY DEF Goto, TypeOK
  <1>2. QED
    BY <1>1

\* An update or a termination that returns resumes the login that awaits it.
LEMMA AfterLogin ==
  ASSUME TypeOK, NEW p \in Proc, req[p].pc \in {"terminate", "exists", "write"}, InLogin(After(p))
  PROVE  InLogin(req[p]) /\ After(p).sid = req[p].sid
  <1>1. req[p] \in Request
    BY DEF TypeOK
  <1>. DEFINE r == [req[p] EXCEPT !.target = NoSid, !.copy = NoData]
  <1>2. r.back = req[p].back
    BY <1>1 DEF Request
  <1>3. CASE req[p].back = "evict"
    BY <1>3, AfterEviction DEF InLogin, InEviction
  <1>4. CASE req[p].back # "evict"
    <2>1. /\ [r EXCEPT !.pc = "sweep"].pc = "sweep" /\ Idle.pc = "idle"
          /\ [r EXCEPT !.pc = "terminate", !.target = r.sid, !.back = "out"].pc = "terminate"
          /\ [r EXCEPT !.pc = "terminate", !.target = r.sid, !.back = "out"].back = "out"
      BY <1>1 DEF Request, Idle
    <2>2. \/ After(p) = [r EXCEPT !.pc = "sweep"] \/ After(p) = Idle
          \/ After(p) = [r EXCEPT !.pc = "terminate", !.target = r.sid, !.back = "out"]
      BY <1>2, <1>4 DEF After
    <2>. HIDE DEF r
    <2>3. QED
      BY <2>1, <2>2 DEF InLogin, InEviction
  <1>5. QED
    BY <1>3, <1>4

\* A request is in a login because it was, for the same session, or because it
\* has just arrived with a fresh one.
LEMMA LoginFrom ==
  ASSUME IInv, [Next]_vars, NEW p \in Proc, InLogin(req'[p])
  PROVE  \/ InLogin(req[p]) /\ req'[p].sid = req[p].sid
         \/ Fresh(req'[p].sid) /\ UNCHANGED store /\ \A q \in Proc : q # p => req'[q] = req[q]
  <1>1. TypeOK /\ req \in [Proc -> Request]
    BY DEF IInv, TypeOK
  <1>. DEFINE Goal == \/ InLogin(req[p]) /\ req'[p].sid = req[p].sid
                      \/ /\ Fresh(req'[p].sid) /\ UNCHANGED store
                         /\ \A q \in Proc : q # p => req'[q] = req[q]
  <1>a. ASSUME NEW q \in Proc, NEW r, Goto(q, r), InLogin(r) => InLogin(req[q]) /\ r.sid = req[q].sid
        PROVE  Goal
    BY <1>1, <1>a, LoginGoesOn
  <1>b. ASSUME NEW q \in Proc, NEW r, Goto(q, r), r.pc \in {"idle", "validate", "scan", "sweep"}
        PROVE  Goal
    BY <1>a, <1>b DEF InLogin, InEviction
  <1>c. ASSUME NEW q \in Proc, Goto(q, After(q)), req[q].pc \in {"terminate", "exists", "write"}
        PROVE  Goal
    BY <1>1, <1>a, <1>c, AfterLogin
  <1>2. ASSUME NEW q \in Proc, Login(q) \/ Page(q) \/ Logout(q) PROVE Goal
    <2>1. PICK r : /\ Arrive(q, r)
                   /\ \/ r.pc = "ids" /\ Fresh(r.sid)
                      \/ r.pc \in {"validate", "scan"} /\ r.sid \in granted
      BY <1>2, ArrivesAt
    <2>2. Goto(q, r) /\ UNCHANGED store
      BY <2>1 DEF Arrive
    <2>3. req'[q] = r /\ \A x \in Proc : x # q => req'[x] = req[x]
      BY <1>1, <2>2 DEF Goto
    <2>4. CASE r.pc \in {"validate", "scan"}
      BY <1>b, <2>2, <2>4
    <2>5. CASE Fresh(r.sid)
      BY <2>2, <2>3, <2>5
    <2>6. QED
      BY <2>1, <2>4, <2>5
  <1>3. ASSUME NEW q \in Proc, Validate(q) PROVE Goal
    <2>. DEFINE d == [req[q] EXCEPT !.pc = "terminate", !.target = req[q].sid, !.back = "deny"]
                a == [req[q] EXCEPT !.pc = "exists", !.target = req[q].sid, !.back = "admit",
                                    !.copy = [active |-> TRUE, last |-> now]]
    <2>1. Goto(q, Idle) \/ Goto(q, d) \/ Goto(q, a)
      BY <1>3 DEF Validate
    <2>2. /\ Idle.pc = "idle" /\ d.pc = "terminate" /\ d.back = "deny"
          /\ a.pc = "exists" /\ a.back = "admit"
      BY <1>1 DEF Idle, Request
    <2>. HIDE DEF d, a
    <2>3. ~InLogin(Idle) /\ ~InLogin(d) /\ ~InLogin(a)
      BY <2>2 DEF InLogin, InEviction
    <2>4. QED
      BY <1>a, <2>1, <2>3
  <1>4. ASSUME NEW q \in Proc, Terminate(q) \/ Exists(q) \/ Write(q) PROVE Goal
    <2>. DEFINE t == [req[q] EXCEPT !.pc = "exists", !.copy = Ended(req[q].target)]
                w == [req[q] EXCEPT !.pc = "write"]
    <2>1. /\ req[q].pc \in {"terminate", "exists", "write"}
          /\ Goto(q, After(q)) \/ Goto(q, t) \/ Goto(q, w)
      BY <1>4 DEF Terminate, Exists, Write, Resume
    <2>2. /\ t.pc = "exists" /\ t.back = req[q].back /\ t.sid = req[q].sid
          /\ w.pc = "write" /\ w.back = req[q].back /\ w.sid = req[q].sid
      BY <1>1 DEF Request
    <2>. HIDE DEF t, w
    <2>3. \A r : r = t \/ r = w => (InLogin(r) => InLogin(req[q]) /\ r.sid = req[q].sid)
      BY <2>1, <2>2 DEF InLogin, InEviction
    <2>4. QED
      BY <1>a, <1>c, <2>1, <2>3
  <1>5. ASSUME NEW q \in Proc, Scan(q) \/ Sweep(q) \/ SweepDone(q) PROVE Goal
    <2>1. PICK r : /\ Goto(q, r)
                   /\ \/ r.pc \in {"idle", "validate", "scan", "sweep"}
                      \/ r.pc = "exists" /\ r.back = "sweep"
      <3>1. CASE Scan(q)
        <4>. DEFINE r == [req[q] EXCEPT !.pc = "sweep", !.ids = {x \in Sid : Live(x)}]
        <4>1. Goto(q, r) /\ r.pc = "sweep"
          BY <1>1, <3>1 DEF Scan, Request
        <4>. HIDE DEF r
        <4>2. QED
          BY <4>1
      <3>2. CASE Sweep(q)
        <4>1. PICK x \in req[q].ids :
                LET r == [req[q] EXCEPT !.ids = Rest(q, x)]
                IN  /\ req[q].pc = "sweep"
                    /\ Goto(q, r) \/ Goto(q, [r EXCEPT !.pc = "exists", !.target = x, !.back = "sweep",
                                                !.copy = Ended(x)])
          BY <3>2 DEF Sweep
        <4>. DEFINE r == [req[q] EXCEPT !.ids = Rest(q, x)]
                    e == [r EXCEPT !.pc = "exists", !.target = x, !.back = "sweep", !.copy = Ended(x)]
        <4>2. Goto(q, r) \/ Goto(q, e)
          BY <4>1
        <4>3. r.pc = "sweep" /\ e.pc = "exists" /\ e.back = "sweep"
          BY <1>1, <4>1 DEF Request
        <4>. HIDE DEF r, e
        <4>4. QED
          BY <4>2, <4>3
      <3>3. CASE SweepDone(q)
        <4>. DEFINE r == [req[q] EXCEPT !.pc = "validate"]
        <4>1. Goto(q, r) /\ r.pc = "validate"
          BY <1>1, <3>3 DEF SweepDone, Request
        <4>. HIDE DEF r
        <4>2. QED
          BY <4>1
      <3>4. QED
        BY <1>5, <3>1, <3>2, <3>3
    <2>2. ~InLogin(r)
      BY <2>1 DEF InLogin, InEviction
    <2>3. QED
      BY <1>a, <2>1, <2>2
  <1>6. ASSUME NEW q \in Proc,
               UserSessions(q) \/ ScanAll(q) \/ Collect(q) \/ Decide(q) \/ Evict(q) \/ Create(q)
        PROVE  Goal
    <2>1. InLogin(req[q])
      BY <1>6 DEF UserSessions, ScanAll, Collect, Decide, Evict, Create, InLogin, InEviction
    <2>2. PICK r : Goto(q, r) /\ (r.sid = req[q].sid \/ r.pc = "idle")
      <3>1. CASE UserSessions(q) \/ ScanAll(q) \/ Collect(q)
        BY <1>1, <3>1, CollectsNext
      <3>2. CASE Decide(q)
        <4>1. PICK V : Goto(q, [req[q] EXCEPT !.pc = "evict", !.back = "evict", !.seen = V])
          BY <3>2 DEF Decide
        <4>2. [req[q] EXCEPT !.pc = "evict", !.back = "evict", !.seen = V].sid = req[q].sid
          BY <1>1 DEF Request
        <4>3. QED
          BY <4>1, <4>2
      <3>3. CASE Evict(q)
        <4>1. PICK v : Goto(q, [req[q] EXCEPT !.pc = "terminate", !.target = v.sid, !.seen = @ \ {v}])
          BY <3>3 DEF Evict
        <4>2. [req[q] EXCEPT !.pc = "terminate", !.target = v.sid, !.seen = @ \ {v}].sid = req[q].sid
          BY <1>1 DEF Request
        <4>3. QED
          BY <4>1, <4>2
      <3>4. CASE Create(q)
        BY <3>4 DEF Create, Idle
      <3>5. QED
        BY <1>6, <3>1, <3>2, <3>3, <3>4
    <2>3. CASE r.sid = req[q].sid
      BY <1>a, <2>1, <2>2, <2>3
    <2>4. CASE r.pc = "idle"
      BY <1>b, <2>2, <2>4
    <2>5. QED
      BY <2>2, <2>3, <2>4
  <1>7. ASSUME NEW q \in Proc, Fault(q) PROVE Goal
    <2>1. CASE Skips(q)
      <3>1. PICK x \in req[q].ids : Goto(q, [req[q] EXCEPT !.ids = Rest(q, x)])
        BY <2>1 DEF Skips
      <3>. DEFINE r == [req[q] EXCEPT !.ids = Rest(q, x)]
      <3>2. r.pc = req[q].pc /\ r.sid = req[q].sid /\ r.back = req[q].back
        BY <1>1 DEF Request
      <3>3. Goto(q, r)
        BY <3>1
      <3>. HIDE DEF r
      <3>4. InLogin(r) => InLogin(req[q]) /\ r.sid = req[q].sid
        BY <3>2 DEF InLogin, InEviction
      <3>5. QED
        BY <1>a, <3>3, <3>4
    <2>2. CASE Raises(q)
      <3>1. Goto(q, Raised(q)) /\ req[q].pc \notin {"idle", "collect"}
        BY <2>2 DEF Raises
      <3>2. CASE req[q].pc \in {"ids", "scanall"}
        <4>1. InLogin(req[q])
          BY <3>2 DEF InLogin
        <4>2. /\ [req[q] EXCEPT !.pc = "scanall"].sid = req[q].sid
              /\ [req[q] EXCEPT !.pc = "evict", !.back = "evict"].sid = req[q].sid
          BY <1>1 DEF Request
        <4>3. Raised(q).sid = req[q].sid
          BY <3>2, <4>2 DEF Raised
        <4>4. QED
          BY <1>a, <3>1, <4>1, <4>3
      <3>3. CASE req[q].pc \in {"scan", "sweep", "validate", "evict"}
        <4>1. /\ [req[q] EXCEPT !.pc = "validate", !.ids = {}].pc = "validate"
              /\ Idle.pc = "idle"
          BY <1>1 DEF Request, Idle
        <4>2. Raised(q).pc \in {"validate", "idle"}
          BY <3>3, <4>1 DEF Raised
        <4>3. QED
          BY <1>b, <3>1, <4>2
      <3>4. CASE req[q].pc \in {"terminate", "exists", "write"}
        <4>1. Raised(q) = Idle \/ Raised(q) = After(q)
          BY <3>4 DEF Raised
        <4>2. QED
          BY <1>b, <1>c, <3>1, <3>4, <4>1 DEF Idle
      <3>5. req[q].pc \in PC
        BY <1>1 DEF Request
      <3>6. QED
        BY <3>1, <3>2, <3>3, <3>4, <3>5 DEF PC
    <2>3. QED
      BY <1>7, <2>1, <2>2 DEF Fault
  <1>8. ASSUME UNCHANGED req PROVE Goal
    BY <1>8
  <1>9. QED
    BY <1>2, <1>3, <1>4, <1>5, <1>6, <1>7, <1>8 DEF Next, Step, Tick, vars

\* A record changes only when a pending write stores the copy of a request over
\* a record, or when a login stores its new session.
LEMMA RecordChange ==
  ASSUME IInv, [Next]_vars, NEW s \in Sid, store'[s] # store[s]
  PROVE  /\ UNCHANGED now
         /\ \E p \in Proc :
               \/ /\ req[p].pc = "write" /\ req[p].target = s
                  /\ store[s].exp > 0 /\ store'[s] = Stored(req[p].copy)
               \/ req[p].pc = "evict" /\ req[p].sid = s /\ req'[p] = Idle
  <1>1. store \in [Sid -> Record] /\ req \in [Proc -> Request]
    BY DEF IInv, TypeOK
  <1>2. PICK p \in Proc :
          /\ UNCHANGED now
          /\ \/ req[p].pc = "write" /\ StoreWrite(req[p].target, req[p].copy)
             \/ /\ req[p].pc = "evict" /\ Goto(p, Idle)
                /\ StoreCreate(req[p].sid, [active |-> TRUE, last |-> req[p].began])
    <2>1. ASSUME NEW p \in Proc, Login(p) \/ Page(p) \/ Logout(p) PROVE FALSE
      BY <2>1 DEF Login, Page, Logout, Arrive
    <2>2. ASSUME NEW p \in Proc, Step(p), ~Write(p), ~Create(p) PROVE FALSE
      BY <2>2 DEF Step, Validate, Terminate, Exists, Scan, Sweep, SweepDone, UserSessions,
         ScanAll, Collect, Decide, Evict
    <2>3. ASSUME Tick \/ UNCHANGED vars PROVE FALSE
      BY <2>3 DEF Tick, vars
    <2>4. PICK p \in Proc : Write(p) \/ Create(p) \/ Fault(p)
      BY <2>1, <2>2, <2>3 DEF Next
    <2>5. CASE Write(p)
      BY <2>5 DEF Write
    <2>6. CASE Create(p)
      BY <2>6 DEF Create
    <2>7. CASE Fault(p)
      <3>1. Raises(p) /\ UNCHANGED now
        BY <2>7 DEF Fault, Skips
      <3>2. req[p].pc = "evict" => Raised(p) = Idle
        BY DEF Raised
      <3>3. QED
        BY <3>1, <3>2 DEF Raises
    <2>8. QED
      BY <2>4, <2>5, <2>6, <2>7
  <1>3. CASE req[p].pc = "write" /\ StoreWrite(req[p].target, req[p].copy)
    <2>1. req[p].target \in Sid /\ store[req[p].target].exp > 0
      BY <1>3, PendingWrite
    <2>2. store' = [store EXCEPT ![req[p].target] = Stored(req[p].copy)]
      BY <1>3 DEF StoreWrite
    <2>3. QED
      BY <1>1, <1>2, <1>3, <2>1, <2>2
  <1>4. CASE /\ req[p].pc = "evict" /\ Goto(p, Idle)
             /\ StoreCreate(req[p].sid, [active |-> TRUE, last |-> req[p].began])
    <2>1. req[p].sid = s
      BY <1>1, <1>4 DEF StoreCreate
    <2>2. req'[p] = Idle
      BY <1>1, <1>4 DEF Goto
    <2>3. QED
      BY <1>2, <1>4, <2>1, <2>2
  <1>5. QED
    BY <1>2, <1>3, <1>4

LEMMA LoginsNext ==
  ASSUME IInv, LoginsFresh, [Next]_vars
  PROVE  LoginsFresh'
  <1>1. SUFFICES ASSUME NEW p \in Proc, InLogin(req'[p])
                 PROVE  /\ store'[req'[p].sid] = NoRecord
                        /\ \A q \in Proc : q # p /\ InLogin(req'[q]) => req'[q].sid # req'[p].sid
    BY DEF LoginsFresh
  <1>2. ASSUME NEW q \in Proc, q # p, InLogin(req'[q]) PROVE req'[q].sid # req'[p].sid
    <2>1. CASE Fresh(req'[p].sid) /\ \A x \in Proc : x # p => req'[x] = req[x]
      BY <1>2, <2>1 DEF Fresh
    <2>2. CASE Fresh(req'[q].sid) /\ \A x \in Proc : x # q => req'[x] = req[x]
      BY <1>2, <2>2 DEF Fresh
    <2>3. CASE /\ InLogin(req[p]) /\ req'[p].sid = req[p].sid
               /\ InLogin(req[q]) /\ req'[q].sid = req[q].sid
      BY <1>2, <2>3 DEF LoginsFresh
    <2>4. QED
      BY <1>1, <1>2, <2>1, <2>2, <2>3, LoginFrom
  <1>3. store'[req'[p].sid] = NoRecord
    <2>1. CASE Fresh(req'[p].sid) /\ UNCHANGED store
      BY <2>1 DEF Fresh
    <2>2. CASE InLogin(req[p]) /\ req'[p].sid = req[p].sid
      <3>. DEFINE s == req[p].sid
      <3>1. store[s] = NoRecord /\ s \in Sid /\ store[s].exp = 0
        BY <2>2, Running DEF LoginsFresh, InLogin, InEviction, NoRecord
      <3>2. ASSUME NEW q \in Proc, req[q].pc = "evict", req[q].sid = s, req'[q] = Idle PROVE FALSE
        <4>1. q # p
          BY <1>1, <3>2 DEF Idle, InLogin, InEviction
        <4>2. QED
          BY <2>2, <3>2, <4>1 DEF LoginsFresh, InLogin, InEviction
      <3>3. store'[s] = store[s]
        BY <3>1, <3>2, RecordChange
      <3>4. QED
        BY <2>2, <3>1, <3>3
    <2>3. QED
      BY <1>1, <2>1, <2>2, LoginFrom
  <1>4. QED
    BY <1>2, <1>3

\* What is over is not usable, and no one is about to store it as active.
LEMMA OverIs ==
  /\ \A s : Over(s) <=> store[s] # NoRecord /\ ~Usable(s) /\ \A p \in Proc : ~Updating(p, s)
  /\ \A s : Over(s)' <=>
        store'[s] # NoRecord /\ ~Usable(s)' /\ \A p \in Proc : ~Updating(p, s)'
  BY DEF Over, Usable, Live, Updating

LEMMA OverNext ==
  ASSUME IInv, LoginsFresh, [Next]_vars, NEW s \in Sid, Over(s)
  PROVE  Over(s)'
  <1>1. store[s] # NoRecord /\ ~Usable(s) /\ \A p \in Proc : ~Updating(p, s)
    BY OverIs
  <1>2. ASSUME NEW p \in Proc PROVE ~Updating(p, s)'
    BY <1>1, UpdatingFrom
  <1>3. store'[s] # NoRecord /\ ~Usable(s)'
    <2>0. now \in Nat /\ now' \in Nat /\ now' >= now /\ store[s] \in Record
      <3>1. now \in Nat /\ store[s] \in Record
        BY DEF IInv, TypeOK
      <3>2. now' = now \/ now' = now + 1
        BY DEF Next, Step, Login, Page, Logout, Arrive, Validate, Terminate, Exists, Write, Scan,
           Sweep, SweepDone, UserSessions, ScanAll, Collect, Decide, Evict, Create, Fault, Tick, vars
      <3>3. QED
        BY <3>1, <3>2
    <2>1. CASE store'[s] = store[s]
      <3>1. ~(store[s].exp > now /\ store[s].active) /\ store[s].exp \in Nat
        BY <1>1, <2>0 DEF Usable, Live, Record
      <3>2. ~(store'[s].exp > now' /\ store'[s].active)
        BY <2>0, <2>1, <3>1
      <3>3. QED
        BY <1>1, <2>1, <3>2 DEF Usable, Live
    <2>2. CASE store'[s] # store[s]
      <3>1. PICK p \in Proc :
              \/ /\ req[p].pc = "write" /\ req[p].target = s
                 /\ store'[s] = Stored(req[p].copy)
              \/ req[p].pc = "evict" /\ req[p].sid = s
        BY <2>2, RecordChange
      <3>2. CASE req[p].pc = "evict" /\ req[p].sid = s
        BY <1>1, <3>2 DEF LoginsFresh, InLogin, InEviction
      <3>3. CASE req[p].pc = "write" /\ req[p].target = s /\ store'[s] = Stored(req[p].copy)
        <4>1. ~req[p].copy.active
          BY <1>1, <3>3 DEF Updating
        <4>2. store'[s].exp > 0 /\ ~store'[s].active
          BY <2>0, <3>3, <4>1, TimeAssumption DEF Stored
        <4>3. QED
          BY <4>2 DEF NoRecord, Usable
      <3>4. QED
        BY <3>1, <3>2, <3>3
    <2>3. QED
      BY <2>1, <2>2
  <1>4. QED
    BY <1>2, <1>3, OverIs

\* Whatever requests interleave and whichever storage call fails, a session that
\* was ended or has expired is accepted again only if a request had validated it
\* before: terminations, sweeps, logins and later validations never revive it.
THEOREM EndedStays == Spec => EndedStaysEnded
  <1>1. Init => LoginsFresh
    BY DEF Init, LoginsFresh, InLogin, InEviction, Idle
  <1>2. IInv /\ LoginsFresh /\ [Next]_vars => LoginsFresh'
    BY LoginsNext
  <1>3. IInv /\ LoginsFresh /\ [Next]_vars => [\A s \in Sid : Over(s) => Over(s)']_vars
    BY OverNext
  <1>4. QED
    BY <1>1, <1>2, <1>3, Invariance, PTL DEF Spec, EndedStaysEnded

-----------------------------------------------------------------------------
(* How far a request is from its answer.  That it gets there under fair    *)
(* scheduling is checked by TLC; that its own steps run out holds always.  *)

\* What is left to do once the termination or the update under way has returned.
Resumed(r) == CASE r.back = "evict" -> 4 * Cardinality(r.seen) + 1
                [] r.back = "sweep" -> 3 * Cardinality(r.ids) + 7
                [] r.back = "admit" -> 3
                [] OTHER -> 0

\* A bound on the steps request r will take of its own.
StepsLeft(r) ==
    CASE r.pc = "idle"      -> 0
      [] r.pc = "write"     -> Resumed(r) + 1
      [] r.pc = "exists"    -> Resumed(r) + 2
      [] r.pc = "terminate" -> Resumed(r) + 3
      [] r.pc = "validate"  -> 6
      [] r.pc = "sweep"     -> 3 * Cardinality(r.ids) + 7
      [] r.pc = "scan"      -> 3 * Cardinality(Sid) + 8
      [] r.pc = "evict"     -> 4 * Cardinality(r.seen) + 1
      [] r.pc = "collect"   -> 5 * Cardinality(r.ids) + 4 * Cardinality(r.seen) + 2
      [] r.pc = "scanall"   -> 5 * Cardinality(Sid) + 3
      [] r.pc = "ids"       -> 5 * Cardinality(Sid) + 4

\* What a request has read is finite, and it evicts only what it has read.
Reads(r) == /\ IsFiniteSet(r.seen)
            /\ r.pc \in {"ids", "scanall"} => r.seen = {}
            /\ r.pc = "evict" => r.back = "evict"

ReadsFinite == \A p \in Proc : Reads(req[p])

\* One step nearer to the answer.
Advances(p) == ReadsFinite' /\ StepsLeft(req'[p]) < StepsLeft(req[p])

LEMMA Counts ==
  ASSUME IsFiniteSet(Sid), NEW r \in Request, IsFiniteSet(r.seen)
  PROVE  /\ Cardinality(Sid) \in Nat /\ Cardinality(r.seen) \in Nat
         /\ IsFiniteSet(r.ids) /\ Cardinality(r.ids) \in Nat /\ Cardinality(r.ids) <= Cardinality(Sid)
         /\ Resumed(r) \in Nat
  <1>1. r.ids \subseteq Sid
    BY DEF Request
  <1>2. IsFiniteSet(r.ids) /\ Cardinality(r.ids) <= Cardinality(Sid)
    BY <1>1, FS_Subset
  <1>3. Cardinality(Sid) \in Nat /\ Cardinality(r.seen) \in Nat /\ Cardinality(r.ids) \in Nat
    BY <1>2, FS_CardinalityType
  <1>4. Resumed(r) \in Nat
    BY <1>3 DEF Resumed
  <1>5. QED
    BY <1>2, <1>3, <1>4

LEMMA StepsType ==
  ASSUME IsFiniteSet(Sid), NEW r \in Request, Reads(r) PROVE StepsLeft(r) \in Nat
  <1>1. /\ Cardinality(Sid) \in Nat /\ Cardinality(r.seen) \in Nat /\ Cardinality(r.ids) \in Nat
        /\ Resumed(r) \in Nat
    BY Counts DEF Reads
  <1>2. CASE r.pc \in {"idle", "validate"}
    BY <1>2 DEF StepsLeft
  <1>3. CASE r.pc \in {"write", "exists", "terminate"}
    BY <1>1, <1>3 DEF StepsLeft
  <1>4. CASE r.pc \in {"sweep", "scan", "scanall", "ids"}
    BY <1>1, <1>4 DEF StepsLeft
  <1>5. CASE r.pc \in {"evict", "collect"}
    BY <1>1, <1>5 DEF StepsLeft
  <1>6. QED
    BY <1>2, <1>3, <1>4, <1>5 DEF Request, PC

LEMMA AdvancesTo ==
  ASSUME TypeOK, ReadsFinite, NEW p \in Proc, NEW r, Goto(p, r), Reads(r),
         StepsLeft(r) < StepsLeft(req[p])
  PROVE  Advances(p)
  <1>1. req'[p] = r /\ \A q \in Proc : q # p => req'[q] = req[q]
    BY DEF Goto, TypeOK
  <1>2. QED
    BY <1>1 DEF Advances, ReadsFinite

\* What a running request starts its step from.
LEMMA ReadsRunning ==
  ASSUME IsFiniteSet(Sid), IInv, ReadsFinite, NEW p \in Proc
  PROVE  /\ TypeOK /\ req[p] \in Request /\ Reads(req[p])
         /\ Cardinality(Sid) \in Nat /\ Cardinality(req[p].seen) \in Nat
         /\ IsFiniteSet(req[p].ids) /\ Cardinality(req[p].ids) \in Nat
         /\ Cardinality(req[p].ids) <= Cardinality(Sid)
         /\ Resumed(req[p]) \in Nat /\ IsFiniteSet(req[p].seen)
  <1>1. TypeOK /\ req[p] \in Request /\ Reads(req[p])
    BY DEF IInv, TypeOK, ReadsFinite
  <1>2. QED
    BY <1>1, Counts DEF Reads

\* The request answers, whatever it was doing.
LEMMA AnswerAdvances ==
  ASSUME IsFiniteSet(Sid), IInv, ReadsFinite, NEW p \in Proc, req[p].pc # "idle", Goto(p, Idle)
  PROVE  Advances(p)
  <1>1. TypeOK /\ req[p] \in Request
    BY ReadsRunning
  <1>2. StepsLeft(Idle) = 0 /\ Reads(Idle)
    BY FS_EmptySet DEF StepsLeft, Reads, Idle
  <1>3. 0 < StepsLeft(req[p])
    BY <1>1, ReadsRunning DEF StepsLeft, Request, PC
  <1>4. QED
    BY <1>1, <1>2, <1>3, AdvancesTo

LEMMA AfterAdvances ==
  ASSUME IsFiniteSet(Sid), IInv, ReadsFinite, NEW p \in Proc,
         req[p].pc \in {"terminate", "exists", "write"}, Goto(p, After(p))
  PROVE  Advances(p)
  <1>. DEFINE x == req[p]
              r == [req[p] EXCEPT !.target = NoSid, !.copy = NoData]
  <1>1. /\ TypeOK /\ x \in Request /\ IsFiniteSet(x.seen) /\ Resumed(x) \in Nat
        /\ Cardinality(x.seen) \in Nat /\ Cardinality(x.ids) \in Nat
    BY ReadsRunning
  <1>2. StepsLeft(x) > Resumed(x)
    BY <1>1 DEF StepsLeft
  <1>3. r.back = x.back /\ r.op = x.op
    BY <1>1 DEF Request
  <1>4. CASE x.back = "evict"
    <2>1. After(p).pc = "evict" /\ After(p).back = "evict" /\ After(p).seen = x.seen
      BY <1>1, <1>4, AfterEviction
    <2>2. Reads(After(p)) /\ StepsLeft(After(p)) = Resumed(x)
      BY <1>1, <1>4, <2>1 DEF Reads, StepsLeft, Resumed
    <2>3. QED
      BY <1>1, <1>2, <2>2, AdvancesTo
  <1>5. CASE x.back = "sweep"
    <2>1. After(p) = [r EXCEPT !.pc = "sweep"]
      BY <1>3, <1>5 DEF After
    <2>2. After(p).pc = "sweep" /\ After(p).seen = x.seen /\ After(p).ids = x.ids
      BY <1>1, <2>1 DEF Request
    <2>3. Reads(After(p)) /\ StepsLeft(After(p)) = Resumed(x)
      BY <1>1, <1>5, <2>2 DEF Reads, StepsLeft, Resumed
    <2>4. QED
      BY <1>1, <1>2, <2>3, AdvancesTo
  <1>6. CASE x.back = "admit" /\ x.op = "logout"
    <2>1. After(p) = [r EXCEPT !.pc = "terminate", !.target = r.sid, !.back = "out"]
      BY <1>3, <1>6 DEF After
    <2>2. After(p).pc = "terminate" /\ After(p).back = "out" /\ After(p).seen = x.seen
      BY <1>1, <2>1 DEF Request
    <2>3. Reads(After(p)) /\ StepsLeft(After(p)) = Resumed(x)
      BY <1>1, <1>6, <2>2 DEF Reads, StepsLeft, Resumed
    <2>4. QED
      BY <1>1, <1>2, <2>3, AdvancesTo
  <1>7. CASE x.back \notin {"evict", "sweep"} /\ ~(x.back = "admit" /\ x.op = "logout")
    <2>1. After(p) = Idle
      BY <1>3, <1>7 DEF After
    <2>2. QED
      BY <2>1, AnswerAdvances
  <1>8. QED
    BY <1>4, <1>5, <1>6, <1>7

LEMMA ValidateAdvances ==
  ASSUME IsFiniteSet(Sid), IInv, ReadsFinite, NEW p \in Proc, Validate(p) PROVE Advances(p)
  <1>. DEFINE d == [req[p] EXCEPT !.pc = "terminate", !.target = req[p].sid, !.back = "deny"]
              a == [req[p] EXCEPT !.pc = "exists", !.target = req[p].sid, !.back = "admit",
                                  !.copy = [active |-> TRUE, last |-> now]]
  <1>1. TypeOK /\ req[p] \in Request /\ IsFiniteSet(req[p].seen)
    BY ReadsRunning
  <1>2. req[p].pc = "validate" /\ (Goto(p, Idle) \/ Goto(p, d) \/ Goto(p, a))
    BY DEF Validate
  <1>3. /\ d.pc = "terminate" /\ d.back = "deny" /\ d.seen = req[p].seen
        /\ a.pc = "exists" /\ a.back = "admit" /\ a.seen = req[p].seen
    BY <1>1 DEF Request
  <1>. HIDE DEF d, a
  <1>4. StepsLeft(req[p]) = 6 /\ StepsLeft(d) = 3 /\ StepsLeft(a) = 5
    BY <1>2, <1>3 DEF StepsLeft, Resumed
  <1>5. Reads(d) /\ Reads(a) /\ 3 < 6 /\ 5 < 6
    BY <1>1, <1>3 DEF Reads
  <1>6. QED
    BY <1>1, <1>2, <1>4, <1>5, AdvancesTo, AnswerAdvances

LEMMA UpdateAdvances ==
  ASSUME IsFiniteSet(Sid), IInv, ReadsFinite, NEW p \in Proc, Terminate(p) \/ Exists(p) \/ Write(p)
  PROVE  Advances(p)
  <1>1. /\ TypeOK /\ req[p] \in Request /\ IsFiniteSet(req[p].seen) /\ Resumed(req[p]) \in Nat
        /\ req[p].pc \in {"terminate", "exists", "write"}
    BY ReadsRunning DEF Terminate, Exists, Write
  <1>2. CASE Goto(p, After(p))
    BY <1>1, <1>2, AfterAdvances
  <1>3. ASSUME Terminate(p), ~Goto(p, After(p)) PROVE Advances(p)
    <2>. DEFINE r == [req[p] EXCEPT !.pc = "exists", !.copy = Ended(req[p].target)]
    <2>1. Goto(p, r) /\ req[p].pc = "terminate"
      BY <1>3 DEF Terminate, Resume
    <2>2. /\ r.pc = "exists" /\ r.back = req[p].back /\ r.seen = req[p].seen /\ r.ids = req[p].ids
      BY <1>1 DEF Request
    <2>. HIDE DEF r
    <2>3. Reads(r) /\ Resumed(r) = Resumed(req[p])
      BY <1>1, <2>2 DEF Reads, Resumed
    <2>4. StepsLeft(r) = Resumed(req[p]) + 2 /\ StepsLeft(req[p]) = Resumed(req[p]) + 3
      BY <2>1, <2>2, <2>3 DEF StepsLeft
    <2>5. QED
      BY <1>1, <2>1, <2>3, <2>4, AdvancesTo
  <1>4. ASSUME Exists(p), ~Goto(p, After(p)) PROVE Advances(p)
    <2>. DEFINE r == [req[p] EXCEPT !.pc = "write"]
    <2>1. Goto(p, r) /\ req[p].pc = "exists"
      BY <1>4 DEF Exists, Resume
    <2>2. /\ r.pc = "write" /\ r.back = req[p].back /\ r.seen = req[p].seen /\ r.ids = req[p].ids
      BY <1>1 DEF Request
    <2>. HIDE DEF r
    <2>3. Reads(r) /\ Resumed(r) = Resumed(req[p])
      BY <1>1, <2>2 DEF Reads, Resumed
    <2>4. StepsLeft(r) = Resumed(req[p]) + 1 /\ StepsLeft(req[p]) = Resumed(req[p]) + 2
      BY <2>1, <2>2, <2>3 DEF StepsLeft
    <2>5. QED
      BY <1>1, <2>1, <2>3, <2>4, AdvancesTo
  <1>5. QED
    BY <1>2, <1>3, <1>4 DEF Write, Resume

\* A loop over identifiers that has handled one more of them.
LEMMA RestCounts ==
  ASSUME NEW p \in Proc, IsFiniteSet(req[p].ids), NEW s \in req[p].ids
  PROVE  Cardinality(Rest(p, s)) = Cardinality(req[p].ids) - 1
  BY FS_RemoveElement DEF Rest

LEMMA CleanupAdvances ==
  ASSUME IsFiniteSet(Sid), IInv, ReadsFinite, NEW p \in Proc, Scan(p) \/ Sweep(p) \/ SweepDone(p)
  PROVE  Advances(p)
  <1>. DEFINE x == req[p]
  <1>1. /\ TypeOK /\ x \in Request /\ IsFiniteSet(x.seen) /\ IsFiniteSet(x.ids)
        /\ Cardinality(x.ids) \in Nat /\ Cardinality(Sid) \in Nat
    BY ReadsRunning
  <1>2. CASE Scan(p)
    <2>. DEFINE L == {s \in Sid : Live(s)}
                r == [req[p] EXCEPT !.pc = "sweep", !.ids = L]
    <2>1. /\ Goto(p, r) /\ x.pc = "scan" /\ r.pc = "sweep" /\ r.ids = L /\ r.seen = x.seen
      BY <1>1, <1>2 DEF Scan, Request
    <2>2. L \subseteq Sid
      OBVIOUS
    <2>. HIDE DEF r, L
    <2>3. IsFiniteSet(L) /\ Cardinality(L) <= Cardinality(Sid)
      BY <2>2, FS_Subset
    <2>4. Cardinality(L) \in Nat
      BY <2>3, FS_CardinalityType
    <2>5. Reads(r) /\ StepsLeft(r) = 3 * Cardinality(L) + 7 /\ StepsLeft(x) = 3 * Cardinality(Sid) + 8
      BY <1>1, <2>1 DEF Reads, StepsLeft
    <2>6. StepsLeft(r) < StepsLeft(x)
      BY <1>1, <2>3, <2>4, <2>5
    <2>7. QED
      BY <1>1, <2>1, <2>5, <2>6, AdvancesTo
  <1>3. CASE Sweep(p)
    <2>1. PICK s \in x.ids :
            LET r == [req[p] EXCEPT !.ids = Rest(p, s)]
            IN  /\ req[p].pc = "sweep"
                /\ Goto(p, r) \/ Goto(p, [r EXCEPT !.pc = "exists", !.target = s, !.back = "sweep",
                                            !.copy = Ended(s)])
      BY <1>3 DEF Sweep
    <2>. DEFINE r == [req[p] EXCEPT !.ids = Rest(p, s)]
                e == [r EXCEPT !.pc = "exists", !.target = s, !.back = "sweep", !.copy = Ended(s)]
    <2>2. Goto(p, r) \/ Goto(p, e)
      BY <2>1
    <2>3. /\ r.pc = "sweep" /\ r.ids = Rest(p, s) /\ r.seen = x.seen
          /\ e.pc = "exists" /\ e.back = "sweep" /\ e.ids = Rest(p, s) /\ e.seen = x.seen
      BY <1>1, <2>1 DEF Request
    <2>. HIDE DEF r, e
    <2>4. Cardinality(Rest(p, s)) = Cardinality(x.ids) - 1
      BY <1>1, RestCounts
    <2>5. /\ StepsLeft(x) = 3 * Cardinality(x.ids) + 7
          /\ StepsLeft(r) = 3 * (Cardinality(x.ids) - 1) + 7
          /\ StepsLeft(e) = 3 * (Cardinality(x.ids) - 1) + 9
      BY <1>1, <2>1, <2>3, <2>4 DEF StepsLeft, Resumed
    <2>6. StepsLeft(r) < StepsLeft(x) /\ StepsLeft(e) < StepsLeft(x)
      BY <1>1, <2>5
    <2>7. Reads(r) /\ Reads(e)
      BY <1>1, <2>3 DEF Reads
    <2>8. QED
      BY <1>1, <2>2, <2>6, <2>7, AdvancesTo
  <1>4. CASE SweepDone(p)
    <2>. DEFINE r == [req[p] EXCEPT !.pc = "validate"]
    <2>1. Goto(p, r) /\ x.pc = "sweep" /\ r.pc = "validate" /\ r.seen = x.seen
      BY <1>1, <1>4 DEF SweepDone, Request
    <2>. HIDE DEF r
    <2>2. Reads(r) /\ StepsLeft(r) = 6 /\ StepsLeft(x) = 3 * Cardinality(x.ids) + 7
      BY <1>1, <2>1 DEF Reads, StepsLeft
    <2>3. QED
      BY <1>1, <2>1, <2>2, AdvancesTo
  <1>5. QED
    BY <1>2, <1>3, <1>4

LEMMA CollectAdvances ==
  ASSUME IsFiniteSet(Sid), IInv, ReadsFinite, NEW p \in Proc,
         UserSessions(p) \/ ScanAll(p) \/ Collect(p)
  PROVE  Advances(p)
  <1>. DEFINE x == req[p]
  <1>1. /\ TypeOK /\ x \in Request /\ IsFiniteSet(x.seen) /\ IsFiniteSet(x.ids) /\ Reads(x)
        /\ Cardinality(x.ids) \in Nat /\ Cardinality(Sid) \in Nat /\ Cardinality(x.seen) \in Nat
        /\ index \in [User -> Index] /\ (x.pc # "idle" => Owner[x.sid] \in User)
    BY ReadsRunning, Running, OwnerAssumption DEF TypeOK, Sound
  <1>2. CASE UserSessions(p) \/ ScanAll(p)
    <2>1. PICK L \in SUBSET Sid : Goto(p, [req[p] EXCEPT !.pc = "collect", !.ids = L])
      BY <1>1, <1>2 DEF UserSessions, ScanAll, Index
    <2>. DEFINE r == [req[p] EXCEPT !.pc = "collect", !.ids = L]
    <2>2. /\ Goto(p, r) /\ x.pc \in {"ids", "scanall"} /\ r.pc = "collect" /\ r.ids = L
          /\ r.seen = {}
      BY <1>1, <1>2, <2>1 DEF UserSessions, ScanAll, Request, Reads
    <2>. HIDE DEF r
    <2>3. IsFiniteSet(L) /\ Cardinality(L) <= Cardinality(Sid)
      BY FS_Subset
    <2>4. Cardinality(L) \in Nat /\ Cardinality(r.seen) = 0 /\ IsFiniteSet(r.seen)
      BY <2>2, <2>3, FS_CardinalityType, FS_EmptySet
    <2>5. /\ Reads(r) /\ StepsLeft(r) = 5 * Cardinality(L) + 2
          /\ StepsLeft(x) \in {5 * Cardinality(Sid) + 3, 5 * Cardinality(Sid) + 4}
      BY <1>1, <2>2, <2>4 DEF Reads, StepsLeft
    <2>6. StepsLeft(r) < StepsLeft(x)
      BY <1>1, <2>3, <2>4, <2>5
    <2>7. QED
      BY <1>1, <2>2, <2>5, <2>6, AdvancesTo
  <1>3. CASE Collect(p)
    <2>1. x.pc = "collect"
      BY <1>3 DEF Collect
    <2>2. PICK s \in x.ids : Goto(p, [req[p] EXCEPT !.ids = Rest(p, s),
              !.seen = IF Usable(s) THEN @ \cup {[sid |-> s, last |-> store[s].last]} ELSE @])
      BY <1>3 DEF Collect
    <2>. DEFINE v == [sid |-> s, last |-> store[s].last]
                F == IF Usable(s) THEN x.seen \cup {v} ELSE x.seen
                r == [req[p] EXCEPT !.ids = Rest(p, s), !.seen = F]
    <2>3. Goto(p, r) /\ r.pc = "collect" /\ r.ids = Rest(p, s) /\ r.seen = F
      BY <1>1, <2>1, <2>2 DEF Request
    <2>. HIDE DEF r, v
    <2>4. /\ IsFiniteSet(x.seen \cup {v})
          /\ Cardinality(x.seen \cup {v}) \in {Cardinality(x.seen), Cardinality(x.seen) + 1}
      BY <1>1, FS_AddElement
    <2>5. IsFiniteSet(F) /\ Cardinality(F) \in Nat /\ Cardinality(F) <= Cardinality(x.seen) + 1
      BY <1>1, <2>4
    <2>. HIDE DEF F
    <2>6. Cardinality(Rest(p, s)) = Cardinality(x.ids) - 1
      BY <1>1, RestCounts
    <2>7. /\ Reads(r) /\ StepsLeft(r) = 5 * (Cardinality(x.ids) - 1) + 4 * Cardinality(F) + 2
          /\ StepsLeft(x) = 5 * Cardinality(x.ids) + 4 * Cardinality(x.seen) + 2
      BY <2>1, <2>3, <2>5, <2>6 DEF Reads, StepsLeft
    <2>8. StepsLeft(r) < StepsLeft(x)
      BY <1>1, <2>5, <2>7
    <2>9. QED
      BY <1>1, <2>3, <2>7, <2>8, AdvancesTo
  <1>4. QED
    BY <1>2, <1>3

LEMMA EvictAdvances ==
  ASSUME IsFiniteSet(Sid), IInv, ReadsFinite, NEW p \in Proc, Decide(p) \/ Evict(p) \/ Create(p)
  PROVE  Advances(p)
  <1>. DEFINE x == req[p]
  <1>1. /\ TypeOK /\ x \in Request /\ IsFiniteSet(x.seen) /\ Reads(x)
        /\ Cardinality(x.ids) \in Nat /\ Cardinality(x.seen) \in Nat
    BY ReadsRunning
  <1>2. CASE Decide(p)
    <2>1. PICK V \in Victims(x.seen) :
             Goto(p, [req[p] EXCEPT !.pc = "evict", !.back = "evict", !.seen = V])
      BY <1>2 DEF Decide
    <2>. DEFINE r == [req[p] EXCEPT !.pc = "evict", !.back = "evict", !.seen = V]
    <2>2. Goto(p, r) /\ x.pc = "collect" /\ r.pc = "evict" /\ r.back = "evict" /\ r.seen = V
      BY <1>1, <1>2, <2>1 DEF Decide, Request
    <2>. HIDE DEF r
    <2>3. V \subseteq x.seen
      BY VictimsSubset
    <2>4. IsFiniteSet(V) /\ Cardinality(V) <= Cardinality(x.seen)
      BY <1>1, <2>3, FS_Subset
    <2>5. Cardinality(V) \in Nat
      BY <2>4, FS_CardinalityType
    <2>6. /\ Reads(r) /\ StepsLeft(r) = 4 * Cardinality(V) + 1
          /\ StepsLeft(x) = 5 * Cardinality(x.ids) + 4 * Cardinality(x.seen) + 2
      BY <2>2, <2>4 DEF Reads, StepsLeft
    <2>7. StepsLeft(r) < StepsLeft(x)
      BY <1>1, <2>4, <2>5, <2>6
    <2>8. QED
      BY <1>1, <2>2, <2>6, <2>7, AdvancesTo
  <1>3. CASE Evict(p)
    <2>1. PICK v \in x.seen :
             Goto(p, [req[p] EXCEPT !.pc = "terminate", !.target = v.sid, !.seen = @ \ {v}])
      BY <1>3 DEF Evict
    <2>. DEFINE r == [req[p] EXCEPT !.pc = "terminate", !.target = v.sid, !.seen = @ \ {v}]
    <2>2. /\ Goto(p, r) /\ x.pc = "evict" /\ r.pc = "terminate" /\ r.back = x.back
          /\ r.seen = x.seen \ {v}
      BY <1>1, <1>3, <2>1 DEF Evict, Request
    <2>. HIDE DEF r
    <2>3. r.back = "evict"
      BY <1>1, <2>2 DEF Reads
    <2>4. IsFiniteSet(x.seen \ {v}) /\ Cardinality(x.seen \ {v}) = Cardinality(x.seen) - 1
      BY <1>1, FS_RemoveElement
    <2>5. /\ Reads(r) /\ StepsLeft(r) = (4 * (Cardinality(x.seen) - 1) + 1) + 3
          /\ StepsLeft(x) = 4 * Cardinality(x.seen) + 1
      BY <2>2, <2>3, <2>4 DEF Reads, StepsLeft, Resumed
    <2>6. StepsLeft(r) < StepsLeft(x)
      BY <1>1, <2>5
    <2>7. QED
      BY <1>1, <2>2, <2>5, <2>6, AdvancesTo
  <1>4. CASE Create(p)
    BY <1>4, AnswerAdvances DEF Create
  <1>5. QED
    BY <1>2, <1>3, <1>4

\* An error brings the request nearer to its answer, too.
LEMMA FaultAdvances ==
  ASSUME IsFiniteSet(Sid), IInv, ReadsFinite, NEW p \in Proc, Fault(p) PROVE Advances(p)
  <1>. DEFINE x == req[p]
  <1>1. /\ TypeOK /\ x \in Request /\ IsFiniteSet(x.seen) /\ IsFiniteSet(x.ids) /\ Reads(x)
        /\ Cardinality(x.ids) \in Nat /\ Cardinality(Sid) \in Nat /\ Cardinality(x.seen) \in Nat
    BY ReadsRunning
  <1>2. CASE Skips(p)
    <2>1. PICK s \in x.ids : Goto(p, [req[p] EXCEPT !.ids = Rest(p, s)])
      BY <1>2 DEF Skips
    <2>. DEFINE r == [req[p] EXCEPT !.ids = Rest(p, s)]
    <2>2. /\ Goto(p, r) /\ x.pc \in {"sweep", "collect"} /\ r.pc = x.pc /\ r.ids = Rest(p, s)
          /\ r.seen = x.seen
      BY <1>1, <1>2, <2>1 DEF Skips, Request
    <2>. HIDE DEF r
    <2>3. Cardinality(r.ids) = Cardinality(x.ids) - 1
      BY <1>1, <2>2, RestCounts
    <2>4. Reads(r)
      BY <1>1, <2>2 DEF Reads
    <2>5. StepsLeft(r) < StepsLeft(x)
      <3>1. CASE x.pc = "sweep"
        <4>1. /\ StepsLeft(r) = 3 * (Cardinality(x.ids) - 1) + 7
              /\ StepsLeft(x) = 3 * Cardinality(x.ids) + 7
          BY <2>2, <2>3, <3>1 DEF StepsLeft
        <4>2. QED
          BY <1>1, <4>1
      <3>2. CASE x.pc = "collect"
        <4>1. /\ StepsLeft(r) = 5 * (Cardinality(x.ids) - 1) + 4 * Cardinality(x.seen) + 2
              /\ StepsLeft(x) = 5 * Cardinality(x.ids) + 4 * Cardinality(x.seen) + 2
          BY <2>2, <2>3, <3>2 DEF StepsLeft
        <4>2. QED
          BY <1>1, <4>1
      <3>3. QED
        BY <2>2, <3>1, <3>2
    <2>6. QED
      BY <1>1, <2>2, <2>4, <2>5, AdvancesTo
  <1>3. CASE Raises(p)
    <2>1. Goto(p, Raised(p)) /\ x.pc \notin {"idle", "collect"}
      BY <1>3 DEF Raises
    <2>2. CASE x.pc \in {"scan", "sweep"}
      <3>. DEFINE r == [req[p] EXCEPT !.pc = "validate", !.ids = {}]
      <3>1. Goto(p, r) /\ r.pc = "validate" /\ r.seen = x.seen
        BY <1>1, <2>1, <2>2 DEF Raised, Request
      <3>. HIDE DEF r
      <3>2. Reads(r) /\ StepsLeft(r) = 6
        BY <1>1, <3>1 DEF Reads, StepsLeft
      <3>3. StepsLeft(x) > 6
        BY <1>1, <2>2 DEF StepsLeft
      <3>4. QED
        BY <1>1, <3>1, <3>2, <3>3, AdvancesTo
    <2>3. CASE x.pc = "ids"
      <3>. DEFINE r == [req[p] EXCEPT !.pc = "scanall"]
      <3>1. Goto(p, r) /\ r.pc = "scanall" /\ r.seen = x.seen
        BY <1>1, <2>1, <2>3 DEF Raised, Request
      <3>. HIDE DEF r
      <3>2. /\ Reads(r) /\ StepsLeft(r) = 5 * Cardinality(Sid) + 3
            /\ StepsLeft(x) = 5 * Cardinality(Sid) + 4
        BY <1>1, <2>3, <3>1 DEF Reads, StepsLeft
      <3>3. StepsLeft(r) < StepsLeft(x)
        BY <1>1, <3>2
      <3>4. QED
        BY <1>1, <3>1, <3>2, <3>3, AdvancesTo
    <2>4. CASE x.pc = "scanall"
      <3>. DEFINE r == [req[p] EXCEPT !.pc = "evict", !.back = "evict"]
      <3>1. Goto(p, r) /\ r.pc = "evict" /\ r.back = "evict" /\ r.seen = {}
        BY <1>1, <2>1, <2>4 DEF Raised, Request, Reads
      <3>. HIDE DEF r
      <3>2. Reads(r) /\ StepsLeft(r) = 1 /\ StepsLeft(x) = 5 * Cardinality(Sid) + 3
        BY <1>1, <2>4, <3>1, FS_EmptySet DEF Reads, StepsLeft
      <3>3. StepsLeft(r) < StepsLeft(x)
        BY <1>1, <3>2
      <3>4. QED
        BY <1>1, <3>1, <3>2, <3>3, AdvancesTo
    <2>5. CASE x.pc \in {"terminate", "exists", "write"}
      <3>1. Raised(p) = Idle \/ Raised(p) = After(p)
        BY <2>5 DEF Raised
      <3>2. QED
        BY <2>1, <2>5, <3>1, AnswerAdvances, AfterAdvances
    <2>6. CASE x.pc \in {"validate", "evict"}
      <3>1. Raised(p) = Idle
        BY <2>6 DEF Raised
      <3>2. QED
        BY <2>1, <2>6, <3>1, AnswerAdvances
    <2>7. QED
      BY <1>1, <2>1, <2>2, <2>3, <2>4, <2>5, <2>6 DEF Request, PC
  <1>4. QED
    BY <1>2, <1>3 DEF Fault

LEMMA RunsAdvance ==
  ASSUME IsFiniteSet(Sid), IInv, ReadsFinite, NEW p \in Proc, Step(p) \/ Fault(p)
  PROVE  Advances(p)
  BY ValidateAdvances, UpdateAdvances, CleanupAdvances, CollectAdvances, EvictAdvances,
     FaultAdvances DEF Step

LEMMA ReadsInit == Init => ReadsFinite
  <1>1. Reads(Idle)
    BY FS_EmptySet DEF Reads, Idle
  <1>2. QED
    BY <1>1 DEF Init, ReadsFinite

LEMMA ReadsNext ==
  ASSUME IsFiniteSet(Sid), IInv, ReadsFinite, [Next]_vars PROVE ReadsFinite'
  <1>1. ASSUME NEW p \in Proc, Step(p) \/ Fault(p) PROVE ReadsFinite'
    BY <1>1, RunsAdvance DEF Advances
  <1>2. ASSUME NEW p \in Proc, Login(p) \/ Page(p) \/ Logout(p) PROVE ReadsFinite'
    <2>1. PICK r : Arrive(p, r) /\ r.pc \in {"ids", "validate", "scan"} /\ r.seen = {}
      BY <1>2, ArrivesAt
    <2>2. req'[p] = r /\ \A q \in Proc : q # p => req'[q] = req[q]
      BY <2>1 DEF Arrive, Goto, IInv, TypeOK
    <2>3. Reads(r)
      BY <2>1, FS_EmptySet DEF Reads
    <2>4. QED
      BY <2>2, <2>3 DEF ReadsFinite
  <1>3. ASSUME UNCHANGED req PROVE ReadsFinite'
    BY <1>3 DEF ReadsFinite
  <1>4. QED
    BY <1>1, <1>2, <1>3 DEF Next, Tick, vars

\* Another request's steps, arrivals and time do not touch a running request.
OthersLeaveIt == \A p \in Proc : req[p].pc # "idle" /\ req'[p] # req[p] => Step(p) \/ Fault(p)

LEMMA LeavesOthers == IInv /\ [Next]_vars => OthersLeaveIt
  <1>1. SUFFICES ASSUME IInv, [Next]_vars, NEW p \in Proc, req[p].pc # "idle", req'[p] # req[p]
                 PROVE  Step(p) \/ Fault(p)
    BY DEF OthersLeaveIt
  <1>2. req \in [Proc -> Request]
    BY <1>1 DEF IInv, TypeOK
  <1>3. PICK q \in Proc : Login(q) \/ Page(q) \/ Logout(q) \/ Step(q) \/ Fault(q)
    BY <1>1 DEF Next, Tick, vars
  <1>4. PICK r : Goto(q, r)
    BY <1>3 DEF Login, Page, Logout, Arrive, Step, Validate, Terminate, Exists, Write, Resume, Scan,
       Sweep, SweepDone, UserSessions, ScanAll, Collect, Decide, Evict, Create, Fault, Skips, Raises
  <1>5. p = q
    BY <1>1, <1>2, <1>4 DEF Goto
  <1>6. QED
    BY <1>1, <1>3, <1>5 DEF Login, Page, Logout, Arrive

\* Every step a request takes, and every error it meets, brings it nearer to its
\* answer, and nothing else sets it back: whatever the others do meanwhile, its loops
\* over sessions end, since it reads the identifiers once and never looks again.
THEOREM StepsRunOut ==
  ASSUME IsFiniteSet(Sid)
  PROVE  Spec => [][\A p \in Proc : req[p].pc # "idle" /\ req'[p] # req[p] =>
                       StepsLeft(req'[p]) < StepsLeft(req[p])]_vars
  <1>. DEFINE Nearer == \A p \in Proc : req[p].pc # "idle" /\ req'[p] # req[p] =>
                           StepsLeft(req'[p]) < StepsLeft(req[p])
  <1>1. Init => IInv /\ ReadsFinite
    BY InitInv, ReadsInit
  <1>2. IInv /\ ReadsFinite /\ [Next]_vars => IInv' /\ ReadsFinite'
    BY NextInv, ReadsNext
  <1>3. IInv /\ ReadsFinite /\ [Next]_vars => Nearer
    <2>1. SUFFICES ASSUME IInv, ReadsFinite, [Next]_vars, NEW p \in Proc, req[p].pc # "idle",
                          req'[p] # req[p]
                   PROVE  StepsLeft(req'[p]) < StepsLeft(req[p])
      OBVIOUS
    <2>2. Step(p) \/ Fault(p)
      BY <2>1, LeavesOthers DEF OthersLeaveIt
    <2>3. QED
      BY <2>1, <2>2, RunsAdvance DEF Advances
  <1>4. QED
    BY <1>1, <1>2, <1>3, PTL DEF Spec

\* The most a request has before it when it arrives.
StepsBounded == \A p \in Proc : StepsLeft(req[p]) \in 0 .. 5 * Cardinality(Sid) + 8

LEMMA BoundNext ==
  ASSUME IsFiniteSet(Sid), IInv, ReadsFinite, StepsBounded, [Next]_vars PROVE StepsBounded'
  <1>1. /\ IInv' /\ ReadsFinite' /\ Cardinality(Sid) \in Nat
        /\ req \in [Proc -> Request] /\ req' \in [Proc -> Request]
    BY NextInv, ReadsNext, FS_CardinalityType DEF IInv, TypeOK
  <1>2. \A q \in Proc : StepsLeft(req[q]) \in Nat /\ StepsLeft(req'[q]) \in Nat
    BY <1>1, StepsType DEF ReadsFinite
  <1>3. ASSUME NEW q \in Proc PROVE StepsLeft(req'[q]) <= 5 * Cardinality(Sid) + 8
    <2>1. CASE req'[q] = req[q]
      BY <2>1 DEF StepsBounded
    <2>2. CASE req'[q] # req[q] /\ req[q].pc # "idle"
      <3>1. StepsLeft(req'[q]) < StepsLeft(req[q])
        BY <2>2, LeavesOthers, RunsAdvance DEF OthersLeaveIt, Advances
      <3>2. QED
        BY <1>1, <1>2, <3>1 DEF StepsBounded
    <2>3. CASE req'[q] # req[q] /\ req[q].pc = "idle"
      <3>1. PICK p \in Proc : Login(p) \/ Page(p) \/ Logout(p) \/ Step(p) \/ Fault(p)
        BY <2>3 DEF Next, Tick, vars
      <3>2. CASE p = q
        <4>1. Login(q) \/ Page(q) \/ Logout(q)
          BY <2>3, <3>1, <3>2 DEF Step, Validate, Terminate, Exists, Write, Scan, Sweep, SweepDone,
             UserSessions, ScanAll, Collect, Decide, Evict, Create, Fault, Skips, Raises
        <4>2. PICK r : Arrive(q, r) /\ r.pc \in {"ids", "validate", "scan"}
          BY <4>1, ArrivesAt
        <4>3. req'[q] = r
          BY <1>1, <4>2 DEF Arrive, Goto
        <4>4. StepsLeft(r) \in {5 * Cardinality(Sid) + 4, 6, 3 * Cardinality(Sid) + 8}
          BY <4>2 DEF StepsLeft
        <4>5. QED
          BY <1>1, <4>3, <4>4
      <3>3. CASE p # q
        <4>1. PICK r : Goto(p, r)
          BY <3>1 DEF Login, Page, Logout, Arrive, Step, Validate, Terminate, Exists, Write, Resume,
             Scan, Sweep, SweepDone, UserSessions, ScanAll, Collect, Decide, Evict, Create, Fault,
             Skips, Raises
        <4>2. QED
          BY <1>1, <2>3, <3>3, <4>1 DEF Goto
      <3>4. QED
        BY <3>2, <3>3
    <2>4. QED
      BY <2>1, <2>2, <2>3
  <1>4. \A q \in Proc : StepsLeft(req[q])' = StepsLeft(req'[q])
    BY DEF StepsLeft, Resumed
  <1>5. QED
    BY <1>1, <1>2, <1>3, <1>4 DEF StepsBounded

\* No request has more than 5 |Sid| + 8 steps before it, so with StepsRunOut it is
\* answered after that many of its own, errors included.
THEOREM FewSteps == ASSUME IsFiniteSet(Sid) PROVE Spec => []StepsBounded
  <1>1. Init => IInv /\ ReadsFinite /\ StepsBounded
    <2>1. StepsLeft(Idle) = 0 /\ Cardinality(Sid) \in Nat
      BY FS_CardinalityType DEF StepsLeft, Idle
    <2>2. Init => StepsBounded
      BY <2>1 DEF Init, StepsBounded
    <2>3. QED
      BY <2>2, InitInv, ReadsInit
  <1>2. IInv /\ ReadsFinite /\ StepsBounded /\ [Next]_vars => IInv' /\ ReadsFinite' /\ StepsBounded'
    BY NextInv, ReadsNext, BoundNext
  <1>3. QED
    BY <1>1, <1>2, PTL DEF Spec
=============================================================================
