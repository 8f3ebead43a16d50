-------------------------- MODULE CacheAsideProofs --------------------------
(***************************************************************************)
(* Proofs about CacheAside for every set of routes, calls, keys and        *)
(* requests, on every backend: type correctness, and that an answer is as  *)
(* new as every change acknowledged before it was asked for, but for what  *)
(* an invalidation could not reach.                                        *)
(***************************************************************************)
EXTENDS CacheAside, TLAPS

\* The keys that a write has still to delete.
Pending(r) == {k \in Key : \/ r.pc = "invalidate" /\ Covers(r.todo, k)
                           \/ r.pc = "sweep" /\ (k \in r.found \/ Covers(Tail(r.todo), k))}

\* A database, an entry and an answer hold no version older than the acknowledged one.
RowsAhead == \A x \in Rows : seen[x] <= row[x]

EntryFresh(k, e) ==
    e # None => /\ backend # None
                /\ Cacheable(e.call) /\ KeyOf(e.call) = k
                /\ e.excused \/ e.version >= seen[Row(e.call)]

EntriesFresh == \A k \in Key : EntryFresh(k, cache[k])

\* What is true of a request by itself.
Sound(r) ==
    /\ r.pc # "idle" => r.floor <= seen[Row(r.call)]
    /\ r.pc \in {"lookup", "store", "invalidate", "sweep"} => backend # None /\ Cacheable(r.call)
    /\ r.pc \in {"lookup", "store"} => r.method = "GET"
    /\ r.pc \in {"call", "invalidate", "sweep"} /\ r.method = "PUT" => r.call \in Writes
    /\ r.pc \in {"invalidate", "sweep"} =>
          r.method = "PUT" /\ r.version <= row[Row(r.call)] /\ r.todo # <<>>
    /\ r.pc = "store" => r.late \/ r.version >= seen[Row(r.call)]
    /\ r.pc = "done" => r.excused \/ r.version >= r.floor

RequestsSound == \A p \in Request : Sound(req[p])

\* Write w need not come back to entry e, or to the answer r is about to store.
EntryHandled(w, e) ==
    e # None /\ Row(e.call) = Row(w.call) => e.excused \/ e.version >= w.version
StoreHandled(w, r) ==
    r.pc = "store" /\ Row(r.call) = Row(w.call) => r.late \/ r.version >= w.version

Handled(w) ==
    w.pc \in {"invalidate", "sweep"} =>
        \A k \in Key \ Pending(w) :
            /\ EntryHandled(w, cache[k])
            /\ \A q \in Request : req[q].pc = "store" /\ KeyOf(req[q].call) = k => StoreHandled(w, req[q])

WritesHandled == \A p \in Request : Handled(req[p])

IInv == TypeOK /\ RowsAhead /\ EntriesFresh /\ RequestsSound /\ WritesHandled

-----------------------------------------------------------------------------
(* Lemmas about the operators.                                             *)

LEMMA CallFacts ==
  ASSUME NEW c \in Call
  PROVE  Row(c) \in Rows /\ (Cacheable(c) => KeyOf(c) \in Key)
  BY DEF Rows, Key

\* Calls under one key show one row.
LEMMA OneRow ==
  ASSUME NEW c \in Call, NEW d \in Call, Cacheable(c), Cacheable(d), KeyOf(c) = KeyOf(d)
  PROVE  Row(c) = Row(d)
  BY KeyAssumption

\* The rest of the invalidations covers what their head does not.
LEMMA TailCovers ==
  ASSUME NEW todo \in Seq(Todo), todo # <<>>, NEW k, Covers(todo, k), ~Covers(Tail(todo), k)
  PROVE  \/ Head(todo).op = "key" /\ Head(todo).key = k
         \/ Head(todo).op = "pattern" /\ Matches(k, Head(todo).key)
  <1>1. PICK i \in DOMAIN todo : \/ todo[i].op = "key" /\ todo[i].key = k
                                 \/ todo[i].op = "pattern" /\ Matches(k, todo[i].key)
    BY DEF Covers
  <1>2. CASE i = 1
    BY <1>1, <1>2
  <1>3. CASE i # 1
    <2>1. i - 1 \in DOMAIN Tail(todo) /\ Tail(todo)[i - 1] = todo[i]
      BY <1>3
    <2>2. QED
      BY <1>1, <2>1 DEF Covers
  <1>4. QED
    BY <1>2, <1>3

LEMMA NothingCovered == ASSUME NEW k PROVE ~Covers(<<>>, k)
  BY DEF Covers

-----------------------------------------------------------------------------
LEMMA InitIInv == ASSUME Init PROVE IInv
  <1>1. TypeOK
    BY BoundAssumption DEF Init, TypeOK, Version
  <1>2. RowsAhead /\ EntriesFresh
    BY DEF Init, RowsAhead, EntriesFresh, EntryFresh
  <1>3. RequestsSound /\ WritesHandled
    BY DEF Init, RequestsSound, Sound, Idle, WritesHandled, Handled
  <1>4. QED
    BY <1>1, <1>2, <1>3 DEF IInv

-----------------------------------------------------------------------------
(* The steps that read.                                                    *)

\* A request goes on and nothing else changes; what it may store is as new as the row.
LEMMA RequestMoves ==
  ASSUME IInv, NEW p \in Request, NEW r \in Flight \cup {Idle}, Sound(r),
         req' = [req EXCEPT ![p] = r], UNCHANGED <<backend, row, cache, seen>>,
         r.pc \notin {"invalidate", "sweep"},
         r.pc = "store" => r.version = row[Row(r.call)] /\ Row(r.call) \in Rows
  PROVE  IInv'
  <1>1. TypeOK'
    BY DEF IInv, TypeOK
  <1>2. RowsAhead' /\ EntriesFresh'
    BY DEF IInv, RowsAhead, EntriesFresh, EntryFresh
  <1>3. RequestsSound'
    BY DEF IInv, TypeOK, RequestsSound, Sound
  <1>4. ASSUME NEW q \in Request PROVE Handled(req[q])'
    <2>1. CASE q = p
      BY <2>1 DEF IInv, TypeOK, Handled
    <2>2. CASE q # p
      <3>1. req'[q] = req[q] /\ Handled(req[q])
        BY <2>2 DEF IInv, TypeOK, WritesHandled
      <3>. SUFFICES ASSUME req[q].pc \in {"invalidate", "sweep"}, NEW k \in Key \ Pending(req[q])
                    PROVE  /\ EntryHandled(req[q], cache[k])
                           /\ \A x \in Request : req'[x].pc = "store" /\ KeyOf(req'[x].call) = k
                                                    => StoreHandled(req[q], req'[x])
        BY <3>1 DEF Handled, Pending
      <3>2. EntryHandled(req[q], cache[k])
        BY <3>1 DEF Handled
      <3>3. ASSUME NEW x \in Request, req'[x].pc = "store", KeyOf(req'[x].call) = k
            PROVE  StoreHandled(req[q], req'[x])
        <4>1. CASE x # p
          BY <4>1, <3>1, <3>3 DEF IInv, TypeOK, Handled
        <4>2. CASE x = p
          <5>1. req[q].version <= row[Row(req[q].call)]
            BY DEF IInv, RequestsSound, Sound
          <5>2. req'[x] = r
            BY <4>2 DEF IInv, TypeOK
          <5>3. QED
            BY <5>1, <5>2, <3>3 DEF StoreHandled
        <4>3. QED
          BY <4>1, <4>2
      <3>4. QED
        BY <3>2, <3>3
    <2>3. QED
      BY <2>1, <2>2
  <1>5. QED
    BY <1>1, <1>2, <1>3, <1>4 DEF IInv, WritesHandled

LEMMA IdleMoves ==
  ASSUME IInv, NEW p \in Request, req' = [req EXCEPT ![p] = Idle], UNCHANGED <<backend, row, cache, seen>>
  PROVE  IInv'
  BY RequestMoves DEF Idle, Sound

LEMMA BeginKeeps ==
  ASSUME IInv, NEW p \in Request, NEW c \in Call, NEW m \in {"GET", "PUT"}, Begin(p, c, m)
  PROVE  IInv'
  <1>. DEFINE r == [pc |-> IF Cached(c) /\ m = "GET" THEN "lookup" ELSE "call",
                    method |-> m, call |-> c, floor |-> seen[Row(c)],
                    version |-> 0, excused |-> FALSE, late |-> FALSE, todo |-> <<>>, found |-> {}]
  <1>1. seen[Row(c)] \in Version /\ 0 \in Version
    BY CallFacts, BoundAssumption DEF IInv, TypeOK, Version
  <1>2. r \in Flight
    BY <1>1 DEF Flight
  <1>3. Sound(r)
    BY <1>1 DEF Sound, Begin, Cached, Version
  <1>4. req' = [req EXCEPT ![p] = r] /\ UNCHANGED <<backend, row, cache, seen>>
    BY DEF Begin
  <1>5. r.pc \notin {"invalidate", "sweep", "store"}
    OBVIOUS
  <1>6. QED
    BY <1>2, <1>3, <1>4, <1>5, RequestMoves

LEMMA LookupKeeps ==
  ASSUME IInv, NEW p \in Request, Lookup(p)
  PROVE  IInv'
  <1>. DEFINE c == req[p].call
              e == cache[KeyOf(c)]
  <1>1. req[p] \in Flight /\ Sound(req[p]) /\ c \in Call /\ req[p].pc = "lookup"
    BY DEF IInv, TypeOK, Lookup, Idle, RequestsSound, Flight
  <1>2. Cacheable(c) /\ KeyOf(c) \in Key /\ req[p].method = "GET"
    BY <1>1, CallFacts DEF Sound
  <1>3. CASE Truthy(e)
    <2>. DEFINE r == [req[p] EXCEPT !.pc = "done", !.version = e.version, !.excused = e.excused]
    <2>1. e \in Entry /\ EntryFresh(KeyOf(c), e)
      BY <1>2, <1>3 DEF IInv, TypeOK, EntriesFresh, Truthy
    <2>2. Row(e.call) = Row(c)
      BY <2>1, <1>1, <1>2, <1>3, OneRow DEF EntryFresh, Entry, Truthy
    <2>3. r \in Flight
      BY <2>1, <1>1 DEF Flight, Entry
    <2>4. e.excused \/ e.version >= req[p].floor
      <3>1. seen[Row(c)] \in Nat /\ req[p].floor \in Nat /\ e.version \in Nat
        BY <1>1, <2>1, CallFacts DEF IInv, TypeOK, Version, Flight, Entry
      <3>2. QED
        BY <3>1, <2>1, <2>2, <1>1, <1>3 DEF EntryFresh, Sound, Truthy
    <2>5. Sound(r)
      BY <1>1, <2>4 DEF Sound, Flight
    <2>6. req' = [req EXCEPT ![p] = r]
      BY <1>3 DEF Lookup
    <2>7. QED
      BY <2>3, <2>5, <2>6, <1>1, RequestMoves DEF Lookup, Flight
  <1>4. CASE ~Truthy(e)
    <2>. DEFINE r == [req[p] EXCEPT !.pc = "call"]
    <2>1. r \in Flight /\ Sound(r) /\ r.pc = "call"
      BY <1>1, <1>2 DEF Flight, Sound
    <2>2. req' = [req EXCEPT ![p] = r]
      BY <1>4 DEF Lookup
    <2>3. QED
      BY <2>1, <2>2, RequestMoves DEF Lookup
  <1>5. QED
    BY <1>3, <1>4

LEMMA ComputeKeeps ==
  ASSUME IInv, NEW p \in Request, Compute(p)
  PROVE  IInv'
  <1>. DEFINE c == req[p].call
              r == [req[p] EXCEPT !.version = row[Row(c)], !.pc = IF Cached(c) THEN "store" ELSE "done"]
  <1>1. req[p] \in Flight /\ Sound(req[p]) /\ c \in Call /\ req[p].pc = "call" /\ req[p].method = "GET"
    BY DEF IInv, TypeOK, Compute, Idle, RequestsSound, Flight
  <1>2. row[Row(c)] \in Version /\ seen[Row(c)] <= row[Row(c)] /\ Row(c) \in Rows
    BY <1>1, CallFacts DEF IInv, TypeOK, RowsAhead
  <1>3. r \in Flight
    BY <1>1, <1>2 DEF Flight
  <1>4. Sound(r)
    <2>1. seen[Row(c)] \in Nat /\ req[p].floor \in Nat /\ row[Row(c)] \in Nat
      BY <1>1, <1>2 DEF IInv, TypeOK, Version, Flight
    <2>2. QED
      BY <2>1, <1>1, <1>2 DEF Sound, Cached, Flight
  <1>5. req' = [req EXCEPT ![p] = r]
    BY <1>1 DEF Compute, IInv, TypeOK
  <1>6. QED
    BY <1>1, <1>2, <1>3, <1>4, <1>5, RequestMoves DEF Compute, Flight

LEMMA LeaveKeeps == ASSUME IInv, NEW p \in Request, Leave(p) \/ BackendRaises(p) PROVE IInv'
  BY IdleMoves DEF Leave, BackendRaises

-----------------------------------------------------------------------------
(* The steps that write to the cache or to the database.                   *)

LEMMA StoreKeeps ==
  ASSUME IInv, NEW p \in Request, Store(p)
  PROVE  IInv'
  <1>. DEFINE r == req[p]
              k == KeyOf(r.call)
              e == Filled(r)
              d == [r EXCEPT !.pc = "done", !.excused = r.late]
  <1>1. r \in Flight /\ Sound(r) /\ r.call \in Call /\ r.pc = "store"
    BY DEF IInv, TypeOK, Store, Idle, RequestsSound, Flight
  <1>2. Cacheable(r.call) /\ k \in Key /\ Row(r.call) \in Rows /\ backend # None
    BY <1>1, CallFacts DEF Sound
  <1>3. e \in Entry /\ d \in Flight
    BY <1>1 DEF Filled, Entry, Flight
  <1>4. cache' = [cache EXCEPT ![k] = e] /\ req' = [req EXCEPT ![p] = d]
    BY DEF Store, IInv, TypeOK
  <1>5. UNCHANGED <<backend, row, seen>>
    BY DEF Store
  <1>6. TypeOK'
    BY <1>3, <1>4, <1>5 DEF IInv, TypeOK
  <1>7. RowsAhead'
    BY <1>5 DEF IInv, RowsAhead
  <1>8. EntryFresh(k, e)
    BY <1>1, <1>2 DEF EntryFresh, Filled, Sound
  <1>9. EntriesFresh'
    BY <1>2, <1>4, <1>5, <1>8 DEF IInv, TypeOK, EntriesFresh, EntryFresh
  <1>10. Sound(d)
    <2>1. seen[Row(r.call)] \in Nat /\ r.floor \in Nat /\ r.version \in Nat
      BY <1>1, <1>2 DEF IInv, TypeOK, Version, Flight
    <2>2. QED
      BY <2>1, <1>1 DEF Sound, Flight
  <1>11. RequestsSound'
    BY <1>4, <1>5, <1>10 DEF IInv, TypeOK, RequestsSound, Sound
  <1>12. ASSUME NEW q \in Request PROVE Handled(req[q])'
    <2>1. CASE q = p
      BY <2>1, <1>1, <1>4 DEF Handled, IInv, TypeOK
    <2>2. CASE q # p
      <3>1. req'[q] = req[q] /\ Handled(req[q])
        BY <2>2, <1>4 DEF IInv, TypeOK, WritesHandled
      <3>. SUFFICES ASSUME req[q].pc \in {"invalidate", "sweep"}, NEW x \in Key \ Pending(req[q])
                    PROVE  /\ EntryHandled(req[q], cache'[x])
                           /\ \A y \in Request : req'[y].pc = "store" /\ KeyOf(req'[y].call) = x
                                                    => StoreHandled(req[q], req'[y])
        BY <3>1 DEF Handled, Pending
      <3>3. EntryHandled(req[q], cache'[x])
        <4>1. CASE x = k
          <5>1. StoreHandled(req[q], r)
            BY <4>1, <3>1, <1>1 DEF Handled
          <5>2. cache'[x] = e
            BY <4>1, <1>2, <1>4 DEF IInv, TypeOK
          <5>3. QED
            BY <5>1, <5>2, <1>1 DEF StoreHandled, EntryHandled, Filled
        <4>2. CASE x # k
          BY <4>2, <3>1, <1>4 DEF Handled, IInv, TypeOK
        <4>3. QED
          BY <4>1, <4>2
      <3>4. ASSUME NEW y \in Request, req'[y].pc = "store", KeyOf(req'[y].call) = x
            PROVE  StoreHandled(req[q], req'[y])
        <4>1. req'[y] = req[y]
          BY <3>4, <1>1, <1>4 DEF IInv, TypeOK
        <4>2. QED
          BY <4>1, <3>1, <3>4 DEF Handled
      <3>5. QED
        BY <3>3, <3>4
    <2>3. QED
      BY <2>1, <2>2
  <1>13. QED
    BY <1>6, <1>7, <1>9, <1>11, <1>12 DEF IInv, WritesHandled

\* Acknowledging a version that no row, entry or answer is behind of.
LEMMA AcknowledgedFacts ==
  ASSUME IInv, NEW c \in Call, NEW v \in Version
  PROVE  /\ Acknowledged(c, v) \in [Rows -> Version]
         /\ \A x \in Rows : Acknowledged(c, v)[x] >= seen[x]
         /\ \A x \in Rows : x # Row(c) => Acknowledged(c, v)[x] = seen[x]
         /\ Acknowledged(c, v)[Row(c)] = seen[Row(c)] \/ Acknowledged(c, v)[Row(c)] = v
  BY CallFacts DEF IInv, TypeOK, Acknowledged, Version

LEMMA ChangeKeeps ==
  ASSUME IInv, NEW p \in Request, Change(p)
  PROVE  IInv'
  <1>. DEFINE c == req[p].call
              next == row[Row(c)] + 1
  <1>1. req[p] \in Flight /\ Sound(req[p]) /\ c \in Call /\ req[p].pc = "call" /\ req[p].method = "PUT"
    BY DEF IInv, TypeOK, Change, Idle, RequestsSound, Flight
  <1>2. Row(c) \in Rows /\ next \in Version /\ row[Row(c)] \in Version /\ c \in Writes
    BY <1>1, CallFacts DEF Change, IInv, TypeOK, Sound
  <1>3. Cacheable(c) /\ Invalidations(c) \in Seq(Todo)
    BY <1>2, WritesAssumption
  <1>4. row' = [row EXCEPT ![Row(c)] = next] /\ UNCHANGED <<backend, cache>>
    BY DEF Change
  <1>5. row' \in [Rows -> Version] /\ \A x \in Rows : row[x] <= row'[x]
    BY <1>2, <1>4 DEF IInv, TypeOK, Version
  <1>6. CASE Cached(c)
    <2>. DEFINE r == [req[p] EXCEPT !.version = next, !.pc = "invalidate", !.todo = Invalidations(c)]
    <2>1. req' = [req EXCEPT ![p] = r] /\ seen' = seen
      BY <1>6, <1>1 DEF Change, IInv, TypeOK
    <2>2. r \in Flight
      BY <1>1, <1>2, <1>3 DEF Flight
    <2>3. TypeOK'
      BY <2>1, <2>2, <1>4, <1>5 DEF IInv, TypeOK
    <2>4. RowsAhead'
      <3>1. ASSUME NEW x \in Rows PROVE seen[x] <= row'[x]
        BY <1>5 DEF IInv, TypeOK, RowsAhead, Version
      <3>2. QED
        BY <3>1, <2>1 DEF RowsAhead
    <2>5. EntriesFresh'
      BY <2>1, <1>4 DEF IInv, EntriesFresh, EntryFresh
    <2>6. Invalidations(c) # <<>>
      BY <1>1, <1>2, <1>3, WritesAssumption, NothingCovered
    <2>7. RequestsSound'
      <3>1. ASSUME NEW q \in Request PROVE Sound(req[q])'
        <4>1. CASE q = p
          <5>1. req'[p] = r
            BY <2>1 DEF IInv, TypeOK
          <5>2. r.version = row'[Row(r.call)]
            BY <1>1, <1>2, <1>4 DEF IInv, TypeOK, Flight
          <5>3. QED
            BY <4>1, <5>1, <5>2, <2>1, <2>6, <1>1, <1>2, <1>3, <1>4, <1>5, <1>6
            DEF Sound, Cached, Flight, Version
        <4>2. CASE q # p
          <5>1. req'[q] = req[q] /\ Sound(req[q]) /\ req[q] \in Flight \cup {Idle}
            BY <4>2, <2>1 DEF IInv, TypeOK, RequestsSound
          <5>2. req[q].pc \in {"invalidate", "sweep"} => req[q].version <= row'[Row(req[q].call)]
            BY <5>1, <1>5, CallFacts DEF Sound, IInv, TypeOK, Version, Flight, Idle
          <5>3. QED
            BY <5>1, <5>2, <2>1, <1>4 DEF Sound
        <4>3. QED
          BY <4>1, <4>2
      <3>2. QED
        BY <3>1 DEF RequestsSound
    <2>8. ASSUME NEW q \in Request PROVE Handled(req[q])'
      <3>1. CASE q # p
        <4>1. req'[q] = req[q] /\ Handled(req[q])
          BY <3>1, <2>1 DEF IInv, TypeOK, WritesHandled
        <4>2. ASSUME NEW y \in Request, req'[y].pc = "store" PROVE req'[y] = req[y]
          BY <4>2, <2>1 DEF IInv, TypeOK
        <4>3. QED
          BY <4>1, <4>2, <1>4 DEF Handled, Pending
      <3>2. CASE q = p
        <4>1. req'[p] = r
          BY <2>1 DEF IInv, TypeOK
        <4>2. ASSUME NEW k \in Key \ Pending(r), NEW d \in Call, Cacheable(d), KeyOf(d) = k, Row(d) = Row(c)
              PROVE  FALSE
          BY <4>2, <1>2, WritesAssumption DEF Pending
        <4>3. ASSUME NEW k \in Key \ Pending(r) PROVE EntryHandled(r, cache'[k])
          BY <4>2, <4>3, <1>1, <1>4 DEF EntryHandled, IInv, TypeOK, EntriesFresh, EntryFresh, Entry
        <4>4. ASSUME NEW k \in Key \ Pending(r), NEW y \in Request,
                     req'[y].pc = "store", KeyOf(req'[y].call) = k
              PROVE  StoreHandled(r, req'[y])
          <5>1. req'[y] = req[y] /\ req[y] \in Flight
            BY <4>4, <2>1 DEF IInv, TypeOK, Idle
          <5>2. Cacheable(req[y].call) /\ req[y].call \in Call
            BY <5>1, <4>4 DEF IInv, RequestsSound, Sound, Flight
          <5>3. QED
            BY <5>1, <5>2, <4>2, <4>4, <1>1 DEF StoreHandled, Flight
        <4>5. QED
          BY <3>2, <4>1, <4>3, <4>4 DEF Handled, Pending
      <3>3. QED
        BY <3>1, <3>2
    <2>9. QED
      BY <2>3, <2>4, <2>5, <2>7, <2>8 DEF IInv, WritesHandled
  <1>7. CASE ~Cached(c)
    <2>1. backend = None
      BY <1>3, <1>7 DEF Cached
    <2>2. req' = [req EXCEPT ![p] = Idle] /\ seen' = Acknowledged(c, next)
      BY <1>7 DEF Change
    <2>3. TypeOK'
      BY <2>2, <1>1, <1>2, <1>4, <1>5, AcknowledgedFacts DEF IInv, TypeOK
    <2>4. \A x \in Rows : seen[x] <= seen'[x] /\ seen'[x] <= row'[x]
      <3>1. row'[Row(c)] = next
        BY <1>2, <1>4 DEF IInv, TypeOK
      <3>2. ASSUME NEW x \in Rows PROVE seen[x] <= seen'[x] /\ seen'[x] <= row'[x]
        <4>1. /\ seen[x] \in Nat /\ seen'[x] \in Nat /\ row[x] \in Nat /\ row'[x] \in Nat
              /\ seen[x] <= row[x] /\ row[x] <= row'[x]
          BY <2>3, <1>5 DEF IInv, TypeOK, Version, RowsAhead
        <4>2. seen'[x] >= seen[x] /\ (seen'[x] = seen[x] \/ (x = Row(c) /\ seen'[x] = next))
          BY <2>2, <1>1, <1>2, AcknowledgedFacts
        <4>3. QED
          BY <4>1, <4>2, <3>1
      <3>3. QED
        BY <3>2
    <2>5. RowsAhead'
      BY <2>4 DEF RowsAhead
    <2>6. \A k \in Key : cache[k] = None
      BY <2>1 DEF IInv, EntriesFresh, EntryFresh
    <2>7. EntriesFresh'
      BY <2>6, <1>4 DEF EntriesFresh, EntryFresh
    <2>8. ASSUME NEW q \in Request
          PROVE  Sound(req[q])' /\ req'[q].pc \notin {"invalidate", "sweep"}
      <3>1. CASE q = p
        BY <3>1, <2>2 DEF IInv, TypeOK, Sound, Idle
      <3>2. CASE q # p
        <4>1. req'[q] = req[q] /\ Sound(req[q]) /\ req[q] \in Flight \cup {Idle}
          BY <3>2, <2>2 DEF IInv, TypeOK, RequestsSound
        <4>2. req[q].pc \notin {"lookup", "store", "invalidate", "sweep"}
          BY <4>1, <2>1 DEF Sound
        <4>3. req[q].pc # "idle" => req[q].floor <= seen'[Row(req[q].call)]
          <5>1. SUFFICES ASSUME req[q].pc # "idle" PROVE req[q].floor <= seen'[Row(req[q].call)]
            OBVIOUS
          <5>2. Row(req[q].call) \in Rows /\ req[q].floor \in Nat
            BY <4>1, <5>1, CallFacts DEF Flight, Idle, Version
          <5>3. seen[Row(req[q].call)] \in Nat /\ seen'[Row(req[q].call)] \in Nat
            BY <5>2, <2>3 DEF IInv, TypeOK, Version
          <5>4. QED
            BY <5>1, <5>2, <5>3, <4>1, <2>4 DEF Sound
        <4>4. QED
          BY <4>1, <4>2, <4>3, <1>4 DEF Sound
      <3>3. QED
        BY <3>1, <3>2
    <2>9. RequestsSound' /\ WritesHandled'
      BY <2>8 DEF RequestsSound, WritesHandled, Handled
    <2>10. QED
      BY <2>3, <2>5, <2>7, <2>9 DEF IInv
  <1>8. QED
    BY <1>6, <1>7

-----------------------------------------------------------------------------
(* Invalidation.                                                           *)

\* What an invalidation that deals with the keys H leaves: each of them is gone or
\* excused, and an answer about to be stored under one of them is late.
Cleared(H) ==
    /\ \A k \in Key : \/ cache'[k] = cache[k]
                      \/ cache'[k] = None
                      \/ cache[k] # None /\ cache'[k] = [cache[k] EXCEPT !.excused = TRUE]
    /\ \A k \in H \cap Key : cache'[k] = None \/ cache'[k].excused

LEMMA ClearedTyped ==
  ASSUME IInv, NEW H, Cleared(H), cache' = [k \in Key |-> cache'[k]]
  PROVE  cache' \in [Key -> Entry \cup {None}]
  <1>1. \A k \in Key : cache[k] \in Entry \cup {None}
    BY DEF IInv, TypeOK
  <1>2. \A k \in Key : cache'[k] \in Entry \cup {None}
    BY <1>1 DEF Cleared, Entry
  <1>3. QED
    BY <1>2

\* What becomes of the requests in flight.
LEMMA LateFacts ==
  ASSUME IInv, NEW H, NEW q \in Request
  PROVE  /\ Late(H)[q] \in Flight \cup {Idle}
         /\ Late(H)[q] = req[q] \/ (req[q].pc = "store" /\ Late(H)[q] = [req[q] EXCEPT !.late = TRUE])
         /\ req[q].pc = "store" /\ KeyOf(req[q].call) \in H => Late(H)[q].late
         /\ Late(H)[q].pc = req[q].pc
         /\ req[q].pc = "store" => Late(H)[q].call = req[q].call /\ Late(H)[q].version = req[q].version
         /\ Sound(Late(H)[q])
  <1>1. req[q] \in Flight \cup {Idle} /\ Sound(req[q])
    BY DEF IInv, TypeOK, RequestsSound
  <1>2. CASE req[q].pc = "store"
    <2>1. req[q] \in Flight
      BY <1>1, <1>2 DEF Idle
    <2>2. QED
      BY <1>1, <1>2, <2>1 DEF Late, Flight, Sound
  <1>3. CASE req[q].pc # "store"
    BY <1>1, <1>3 DEF Late
  <1>4. QED
    BY <1>2, <1>3

\* A key that a write need not come back to, or that was just dealt with.
LEMMA HandledAfter ==
  ASSUME IInv, NEW H, Cleared(H), NEW w \in Request, req[w].pc \in {"invalidate", "sweep"},
         NEW k \in Key, k \in H \/ k \notin Pending(req[w])
  PROVE  /\ EntryHandled(req[w], cache'[k])
         /\ \A q \in Request : Late(H)[q].pc = "store" /\ KeyOf(Late(H)[q].call) = k
                                  => StoreHandled(req[w], Late(H)[q])
  <1>1. cache[k] \in Entry \cup {None}
    BY DEF IInv, TypeOK
  <1>2. EntryHandled(req[w], cache'[k])
    <2>1. CASE k \in H
      BY <2>1 DEF Cleared, EntryHandled
    <2>2. CASE k \notin Pending(req[w])
      <3>1. EntryHandled(req[w], cache[k])
        BY <2>2 DEF IInv, WritesHandled, Handled
      <3>2. QED
        BY <3>1, <1>1 DEF EntryHandled, Cleared, Entry
    <2>3. QED
      BY <2>1, <2>2
  <1>3. ASSUME NEW q \in Request, Late(H)[q].pc = "store", KeyOf(Late(H)[q].call) = k
        PROVE  StoreHandled(req[w], Late(H)[q])
    <2>1. req[q].pc = "store" /\ Late(H)[q].call = req[q].call /\ Late(H)[q].version = req[q].version
      BY <1>3, LateFacts
    <2>2. CASE k \in H
      BY <1>3, <2>1, <2>2, LateFacts DEF StoreHandled
    <2>3. CASE k \notin Pending(req[w])
      <3>1. StoreHandled(req[w], req[q])
        BY <2>1, <2>3, <1>3 DEF IInv, WritesHandled, Handled
      <3>2. req[q].late => Late(H)[q].late
        <4>1. req[q] \in Flight
          BY <2>1 DEF IInv, TypeOK, Idle
        <4>2. Late(H)[q] = req[q] \/ Late(H)[q] = [req[q] EXCEPT !.late = TRUE]
          BY LateFacts
        <4>3. QED
          BY <4>1, <4>2 DEF Flight
      <3>3. QED
        BY <3>1, <3>2, <2>1 DEF StoreHandled
    <2>4. QED
      BY <2>2, <2>3
  <1>4. QED
    BY <1>2, <1>3

\* The write goes on, with every key it has not dealt with still before it.
LEMMA WriteGoesOn ==
  ASSUME IInv, NEW H, Cleared(H), cache' = [k \in Key |-> cache'[k]], UNCHANGED <<backend, row, seen>>,
         NEW p \in Request, req[p].pc \in {"invalidate", "sweep"},
         NEW w \in Flight, w.pc \in {"invalidate", "sweep"}, w.call = req[p].call, w.version = req[p].version,
         Sound(w), req' = [Late(H) EXCEPT ![p] = w],
         \A k \in Pending(req[p]) : k \in H \/ k \in Pending(w)
  PROVE  IInv'
  <1>1. \A q \in Request : req'[q] = IF q = p THEN w ELSE Late(H)[q]
    BY DEF Late
  <1>2. TypeOK'
    <2>1. req' \in [Request -> Flight \cup {Idle}]
      BY <1>1, LateFacts DEF Late
    <2>2. QED
      BY <2>1, ClearedTyped DEF IInv, TypeOK
  <1>3. RowsAhead'
    BY DEF IInv, RowsAhead
  <1>4. EntriesFresh'
    BY DEF Cleared, IInv, TypeOK, Entry, EntriesFresh, EntryFresh
  <1>5. RequestsSound'
    <2>1. ASSUME NEW q \in Request PROVE Sound(req[q])'
      <3>1. CASE q = p
        BY <3>1, <1>1 DEF Sound
      <3>2. CASE q # p
        <4>1. req'[q] = Late(H)[q] /\ Sound(Late(H)[q])
          BY <3>2, <1>1, LateFacts
        <4>2. QED
          BY <4>1 DEF Sound
      <3>3. QED
        BY <3>1, <3>2
    <2>2. QED
      BY <2>1 DEF RequestsSound
  <1>6. ASSUME NEW q \in Request PROVE Handled(req[q])'
    <2>1. SUFFICES ASSUME req'[q].pc \in {"invalidate", "sweep"}, NEW k \in Key, k \notin Pending(req'[q])
                   PROVE  /\ EntryHandled(req'[q], cache'[k])
                          /\ \A x \in Request : req'[x].pc = "store" /\ KeyOf(req'[x].call) = k
                                                   => StoreHandled(req'[q], req'[x])
      BY DEF Handled, Pending
    <2>2. /\ req[q].pc \in {"invalidate", "sweep"}
          /\ req'[q].call = req[q].call /\ req'[q].version = req[q].version
          /\ k \in H \/ k \notin Pending(req[q])
      <3>1. CASE q = p
        BY <3>1, <1>1, <2>1
      <3>2. CASE q # p
        <4>1. req'[q] = Late(H)[q] /\ Late(H)[q].pc = req[q].pc
          BY <3>2, <1>1, LateFacts
        <4>2. Late(H)[q] = req[q] \/ req[q].pc = "store"
          BY LateFacts
        <4>3. QED
          BY <4>1, <4>2, <2>1
      <3>3. QED
        BY <3>1, <3>2
    <2>3. EntryHandled(req[q], cache'[k])
      BY <2>1, <2>2, HandledAfter
    <2>4. ASSUME NEW x \in Request, req'[x].pc = "store", KeyOf(req'[x].call) = k
          PROVE  StoreHandled(req[q], req'[x])
      BY <1>1, <2>1, <2>2, <2>4, HandledAfter
    <2>5. QED
      BY <2>2, <2>3, <2>4 DEF EntryHandled, StoreHandled
  <1>7. QED
    BY <1>2, <1>3, <1>4, <1>5, <1>6 DEF IInv, WritesHandled

\* The write has dealt with every key, and is answered.
LEMMA WriteEnds ==
  ASSUME IInv, NEW H, Cleared(H), cache' = [k \in Key |-> cache'[k]], UNCHANGED <<backend, row>>,
         NEW p \in Request, req[p].pc \in {"invalidate", "sweep"},
         req' = [Late(H) EXCEPT ![p] = Idle], seen' = Acknowledged(req[p].call, req[p].version),
         \A k \in Pending(req[p]) : k \in H
  PROVE  IInv'
  <1>. DEFINE c == req[p].call
              v == req[p].version
  <1>1. \A q \in Request : req'[q] = IF q = p THEN Idle ELSE Late(H)[q]
    BY DEF Late
  <1>2. req[p] \in Flight /\ c \in Call /\ v \in Version /\ Row(c) \in Rows /\ v <= row[Row(c)]
    <2>1. req[p] \in Flight
      BY DEF IInv, TypeOK, Idle
    <2>2. QED
      BY <2>1, CallFacts DEF IInv, RequestsSound, Sound, Flight
  <1>3. /\ seen' \in [Rows -> Version]
        /\ \A x \in Rows : seen'[x] >= seen[x]
        /\ \A x \in Rows : x # Row(c) => seen'[x] = seen[x]
        /\ seen'[Row(c)] = seen[Row(c)] \/ seen'[Row(c)] = v
    BY <1>2, AcknowledgedFacts
  <1>4. TypeOK'
    <2>1. req' \in [Request -> Flight \cup {Idle}]
      BY <1>1, LateFacts DEF Late
    <2>2. QED
      BY <2>1, <1>3, ClearedTyped DEF IInv, TypeOK
  <1>5. RowsAhead'
    <2>1. ASSUME NEW x \in Rows PROVE seen'[x] <= row'[x]
      <3>1. CASE x = Row(c)
        BY <3>1, <1>2, <1>3 DEF IInv, RowsAhead
      <3>2. CASE x # Row(c)
        BY <3>2, <1>3 DEF IInv, RowsAhead
      <3>3. QED
        BY <3>1, <3>2
    <2>2. QED
      BY <2>1 DEF RowsAhead
  <1>6. EntriesFresh'
    <2>1. SUFFICES ASSUME NEW k \in Key, cache'[k] # None
                   PROVE  /\ backend # None
                          /\ Cacheable(cache'[k].call) /\ KeyOf(cache'[k].call) = k
                          /\ cache'[k].excused \/ cache'[k].version >= seen'[Row(cache'[k].call)]
      BY DEF EntriesFresh, EntryFresh
    <2>2. /\ cache[k] \in Entry /\ EntryFresh(k, cache[k]) /\ cache'[k].call = cache[k].call
          /\ cache'[k].version = cache[k].version /\ (cache[k].excused => cache'[k].excused)
          /\ cache[k] # None
      BY <2>1 DEF IInv, TypeOK, EntriesFresh, Cleared, Entry
    <2>3. EntryHandled(req[p], cache'[k])
      BY HandledAfter
    <2>4. Row(cache[k].call) \in Rows
      BY <2>2, CallFacts DEF Entry
    <2>5. QED
      BY <2>1, <2>2, <2>3, <2>4, <1>3 DEF EntryFresh, EntryHandled
  <1>7. RequestsSound'
    <2>1. ASSUME NEW q \in Request PROVE Sound(req[q])'
      <3>1. CASE q = p
        BY <3>1, <1>1 DEF Sound, Idle
      <3>2. CASE q # p
        <4>1. req'[q] = Late(H)[q] /\ Sound(Late(H)[q]) /\ Late(H)[q] \in Flight \cup {Idle}
          BY <3>2, <1>1, LateFacts
        <4>2. CASE Late(H)[q].pc = "idle"
          BY <4>1, <4>2 DEF Sound
        <4>3. CASE Late(H)[q].pc # "idle"
          <5>1. Late(H)[q] \in Flight
            BY <4>1, <4>3 DEF Idle
          <5>2. /\ Row(Late(H)[q].call) \in Rows /\ Late(H)[q].floor \in Nat
                /\ seen[Row(Late(H)[q].call)] \in Nat /\ seen'[Row(Late(H)[q].call)] \in Nat
            BY <5>1, <1>4, CallFacts DEF Flight, IInv, TypeOK, Version
          <5>3. Late(H)[q].floor <= seen'[Row(Late(H)[q].call)]
            BY <5>2, <4>1, <4>3, <1>3 DEF Sound
          <5>4. Late(H)[q].pc = "store" => Late(H)[q].late \/ Late(H)[q].version >= seen'[Row(Late(H)[q].call)]
            <6>1. SUFFICES ASSUME Late(H)[q].pc = "store"
                           PROVE  Late(H)[q].late \/ Late(H)[q].version >= seen'[Row(Late(H)[q].call)]
              OBVIOUS
            <6>2. KeyOf(Late(H)[q].call) \in Key
              BY <5>1, <4>1, <6>1, CallFacts DEF Sound, Flight
            <6>3. StoreHandled(req[p], Late(H)[q])
              BY <6>1, <6>2, HandledAfter
            <6>4. QED
              BY <6>1, <6>3, <5>2, <4>1, <1>3 DEF StoreHandled, Sound
          <5>5. QED
            BY <4>1, <5>3, <5>4 DEF Sound
        <4>4. QED
          BY <4>2, <4>3
      <3>3. QED
        BY <3>1, <3>2
    <2>2. QED
      BY <2>1 DEF RequestsSound
  <1>8. ASSUME NEW q \in Request PROVE Handled(req[q])'
    <2>1. SUFFICES ASSUME req'[q].pc \in {"invalidate", "sweep"}, NEW k \in Key, k \notin Pending(req'[q])
                   PROVE  /\ EntryHandled(req'[q], cache'[k])
                          /\ \A x \in Request : req'[x].pc = "store" /\ KeyOf(req'[x].call) = k
                                                   => StoreHandled(req'[q], req'[x])
      BY DEF Handled, Pending
    <2>2. q # p /\ req[q].pc \in {"invalidate", "sweep"} /\ req'[q] = req[q] /\ k \notin Pending(req[q])
      <3>1. q # p
        BY <1>1, <2>1 DEF Idle
      <3>2. req'[q] = Late(H)[q] /\ Late(H)[q].pc = req[q].pc
        BY <3>1, <1>1, LateFacts
      <3>3. Late(H)[q] = req[q] \/ req[q].pc = "store"
        BY LateFacts
      <3>4. QED
        BY <3>1, <3>2, <3>3, <2>1
    <2>3. EntryHandled(req[q], cache'[k])
      BY <2>1, <2>2, HandledAfter
    <2>4. ASSUME NEW x \in Request, req'[x].pc = "store", KeyOf(req'[x].call) = k
          PROVE  StoreHandled(req[q], req'[x])
      BY <1>1, <2>1, <2>2, <2>4, HandledAfter DEF Idle
    <2>5. QED
      BY <2>2, <2>3, <2>4
  <1>9. QED
    BY <1>4, <1>5, <1>6, <1>7, <1>8 DEF IInv, WritesHandled

LEMMA WriteFacts ==
  ASSUME IInv, NEW p \in Request, req[p].pc \in {"invalidate", "sweep"}
  PROVE  /\ req[p] \in Flight /\ Sound(req[p])
         /\ req[p].todo \in Seq(Todo) /\ req[p].todo # <<>> /\ Tail(req[p].todo) \in Seq(Todo)
         /\ \A H : Late(H)[p] = req[p]
  <1>1. req[p] \in Flight /\ Sound(req[p])
    BY DEF IInv, TypeOK, Idle, RequestsSound
  <1>2. req[p].todo \in Seq(Todo) /\ req[p].todo # <<>>
    BY <1>1 DEF Flight, Sound
  <1>3. Tail(req[p].todo) \in Seq(Todo)
    BY <1>2
  <1>4. QED
    BY <1>1, <1>2, <1>3 DEF Late

\* An invalidation that deals with the head of the list.
LEMMA ProceedKeeps ==
  ASSUME IInv, NEW H, Cleared(H), cache' = [k \in Key |-> cache'[k]], UNCHANGED <<backend, row>>,
         NEW p \in Request, req[p].pc \in {"invalidate", "sweep"}, Proceed(p, Late(H)),
         \A k \in Pending(req[p]) : k \in H \/ Covers(Tail(req[p].todo), k)
  PROVE  IInv'
  <1>. DEFINE rest == Tail(req[p].todo)
              w == [req[p] EXCEPT !.pc = "invalidate", !.todo = rest, !.found = {}]
  <1>1. CASE rest = <<>>
    <2>1. \A k \in Pending(req[p]) : k \in H
      BY <1>1, NothingCovered
    <2>2. req' = [Late(H) EXCEPT ![p] = Idle] /\ seen' = Acknowledged(req[p].call, req[p].version)
      BY <1>1 DEF Proceed
    <2>3. QED
      BY <2>1, <2>2, WriteEnds
  <1>2. CASE rest # <<>>
    <2>1. req[p] \in Flight /\ Sound(req[p]) /\ rest \in Seq(Todo) /\ Late(H)[p] = req[p]
      BY WriteFacts
    <2>2. seen' = seen /\ req' = [Late(H) EXCEPT ![p] = w]
      BY <1>2, <2>1 DEF Proceed, Late
    <2>3. w \in Flight /\ w.pc = "invalidate" /\ w.call = req[p].call /\ w.version = req[p].version
      BY <2>1 DEF Flight
    <2>4. Sound(w)
      BY <1>2, <2>1 DEF Sound, Flight
    <2>5. \A k \in Pending(req[p]) : k \in H \/ k \in Pending(w)
      BY <2>1 DEF Pending, Flight
    <2>6. UNCHANGED <<backend, row, seen>>
      BY <2>2
    <2>. HIDE DEF w
    <2>7. QED
      BY <2>2, <2>3, <2>4, <2>5, <2>6, WriteGoesOn
  <1>3. QED
    BY <1>1, <1>2

LEMMA DeleteKeyKeeps ==
  ASSUME IInv, NEW p \in Request, DeleteKey(p)
  PROVE  IInv'
  <1>. DEFINE K == {Head(req[p].todo).key}
  <1>1. cache' = Without(K) /\ Proceed(p, Late(K)) /\ UNCHANGED <<backend, row>> /\ req[p].pc = "invalidate"
    BY DEF DeleteKey
  <1>2. Cleared(K) /\ cache' = [k \in Key |-> cache'[k]]
    BY <1>1 DEF Without, Cleared
  <1>3. ASSUME NEW k \in Pending(req[p]) PROVE k \in K \/ Covers(Tail(req[p].todo), k)
    <2>1. Covers(req[p].todo, k)
      BY <1>1, <1>3 DEF Pending
    <2>2. QED
      BY <2>1, <1>1, WriteFacts, TailCovers DEF DeleteKey
  <1>4. QED
    BY <1>1, <1>2, <1>3, ProceedKeeps

\* The head is a pattern; its keys are among those of the list.
LEMMA PatternPending ==
  ASSUME IInv, NEW p \in Request, req[p].pc = "invalidate", Head(req[p].todo).op = "pattern",
         NEW k \in Pending(req[p])
  PROVE  Matches(k, Head(req[p].todo).key) \/ Covers(Tail(req[p].todo), k)
  <1>1. Covers(req[p].todo, k)
    BY DEF Pending
  <1>2. QED
    BY <1>1, WriteFacts, TailCovers

LEMMA ScanPageKeeps ==
  ASSUME IInv, NEW p \in Request, NEW examined, ScanPage(p, examined)
  PROVE  IInv'
  <1>. DEFINE matching == {k \in Key : Matches(k, Head(req[p].todo).key)}
              found == examined \cap matching
              H == matching \ found
              w == [req[p] EXCEPT !.pc = "sweep", !.found = found]
  <1>1. /\ cache' = Excuse(H) /\ UNCHANGED <<backend, row>>
        /\ req[p].pc = "invalidate" /\ Head(req[p].todo).op = "pattern"
    BY DEF ScanPage
  <1>2. Cleared(H) /\ cache' = [k \in Key |-> cache'[k]]
    <2>1. \A k \in Key : cache[k] \in Entry \cup {None}
      BY DEF IInv, TypeOK
    <2>2. QED
      BY <1>1, <2>1 DEF Excuse, Cleared, Entry
  <1>3. \A k \in Pending(req[p]) : k \in matching \/ Covers(Tail(req[p].todo), k)
    BY <1>1, PatternPending DEF Pending
  <1>4. CASE found = {}
    <2>1. H = matching
      BY <1>4
    <2>2. Proceed(p, Late(H))
      BY <1>4, <2>1 DEF ScanPage
    <2>3. QED
      BY <1>1, <1>2, <1>3, <2>1, <2>2, ProceedKeeps
  <1>5. CASE found # {}
    <2>1. req[p] \in Flight /\ Sound(req[p]) /\ Late(H)[p] = req[p]
      BY <1>1, WriteFacts
    <2>2. seen' = seen /\ req' = [Late(H) EXCEPT ![p] = w]
      BY <1>5, <2>1 DEF ScanPage, Late
    <2>3. w \in Flight /\ w.pc = "sweep" /\ w.call = req[p].call /\ w.version = req[p].version
      BY <2>1 DEF Flight
    <2>4. Sound(w)
      BY <1>1, <2>1 DEF Sound, Flight
    <2>5. \A k \in Pending(req[p]) : k \in H \/ k \in Pending(w)
      BY <1>3, <2>1 DEF Pending, Flight
    <2>6. UNCHANGED <<backend, row, seen>>
      BY <1>1, <2>2
    <2>. HIDE DEF w, H
    <2>7. QED
      BY <1>1, <1>2, <2>2, <2>3, <2>4, <2>5, <2>6, WriteGoesOn
  <1>6. QED
    BY <1>4, <1>5

LEMMA SweepKeeps ==
  ASSUME IInv, NEW p \in Request, Sweep(p)
  PROVE  IInv'
  <1>. DEFINE K == req[p].found
  <1>1. cache' = Without(K) /\ Proceed(p, Late(K)) /\ UNCHANGED <<backend, row>> /\ req[p].pc = "sweep"
    BY DEF Sweep
  <1>2. Cleared(K) /\ cache' = [k \in Key |-> cache'[k]]
    BY <1>1 DEF Without, Cleared
  <1>3. \A k \in Pending(req[p]) : k \in K \/ Covers(Tail(req[p].todo), k)
    BY <1>1 DEF Pending
  <1>4. QED
    BY <1>1, <1>2, <1>3, ProceedKeeps

LEMMA PatternNotSupportedKeeps ==
  ASSUME IInv, NEW p \in Request, PatternNotSupported(p)
  PROVE  IInv'
  <1>. DEFINE matching == {k \in Key : Matches(k, Head(req[p].todo).key)}
  <1>1. /\ cache' = Excuse(matching) /\ Proceed(p, Late(matching)) /\ UNCHANGED <<backend, row>>
        /\ req[p].pc = "invalidate" /\ Head(req[p].todo).op = "pattern"
    BY DEF PatternNotSupported
  <1>2. Cleared(matching) /\ cache' = [k \in Key |-> cache'[k]]
    <2>1. \A k \in Key : cache[k] \in Entry \cup {None}
      BY DEF IInv, TypeOK
    <2>2. QED
      BY <1>1, <2>1 DEF Excuse, Cleared, Entry
  <1>3. \A k \in Pending(req[p]) : k \in matching \/ Covers(Tail(req[p].todo), k)
    BY <1>1, PatternPending DEF Pending
  <1>4. QED
    BY <1>1, <1>2, <1>3, ProceedKeeps

LEMMA ExpireKeeps ==
  ASSUME IInv, NEW k \in Key, Expire(k)
  PROVE  IInv'
  <1>1. /\ cache' = [cache EXCEPT ![k] = None]
        /\ backend' = backend /\ row' = row /\ req' = req /\ seen' = seen
    BY DEF Expire
  <1>2. \A x \in Key : cache'[x] = cache[x] \/ cache'[x] = None
    BY <1>1 DEF IInv, TypeOK
  <1>3. TypeOK'
    BY <1>1 DEF IInv, TypeOK
  <1>4. RowsAhead' /\ EntriesFresh'
    BY <1>1, <1>2 DEF IInv, RowsAhead, EntriesFresh, EntryFresh
  <1>5. RequestsSound'
    BY <1>1 DEF IInv, RequestsSound, Sound
  <1>6. WritesHandled'
    BY <1>1, <1>2 DEF IInv, WritesHandled, Handled, Pending, EntryHandled
  <1>7. QED
    BY <1>3, <1>4, <1>5, <1>6 DEF IInv

-----------------------------------------------------------------------------
LEMMA NextIInv == ASSUME IInv, [Next]_vars PROVE IInv'
  <1>1. ASSUME NEW p \in Request, Step(p) PROVE IInv'
    BY <1>1, LookupKeeps, ComputeKeeps, ChangeKeeps, StoreKeeps, DeleteKeyKeeps, ScanPageKeeps, SweepKeeps,
       PatternNotSupportedKeeps, LeaveKeeps DEF Step
  <1>2. ASSUME NEW p \in Request, NEW c \in Call, NEW m \in {"GET", "PUT"}, Begin(p, c, m) PROVE IInv'
    BY <1>2, BeginKeeps
  <1>3. ASSUME NEW k \in Key, Expire(k) PROVE IInv'
    BY <1>3, ExpireKeeps
  <1>4. CASE UNCHANGED vars
    <2>1. backend' = backend /\ row' = row /\ cache' = cache /\ req' = req /\ seen' = seen
      BY <1>4 DEF vars
    <2>2. QED
      <3>1. (TypeOK /\ RowsAhead)'
        BY <2>1 DEF IInv, TypeOK, RowsAhead
      <3>2. (EntriesFresh /\ RequestsSound)'
        BY <2>1 DEF IInv, EntriesFresh, EntryFresh, RequestsSound, Sound
      <3>3. WritesHandled'
        BY <2>1 DEF IInv, WritesHandled, Handled, Pending
      <3>4. QED
        BY <3>1, <3>2, <3>3 DEF IInv
  <1>5. QED
    BY <1>1, <1>2, <1>3, <1>4 DEF Next

THEOREM Invariance == Spec => []IInv
  BY InitIInv, NextIInv, PTL DEF Spec

\* Every variable of the response cache keeps its type.
THEOREM TypeCorrect == Spec => []TypeOK
  <1>1. IInv => TypeOK
    BY DEF IInv
  <1>2. QED
    BY <1>1, Invariance, PTL

\* Whatever runs at the same time, fails or expires, an answer is as new as every change
\* that was acknowledged before the request began, but for the two excuses.
THEOREM FreshAnswers == Spec => []AnswersAreFresh
  <1>1. IInv => AnswersAreFresh
    BY DEF IInv, RequestsSound, Sound, AnswersAreFresh
  <1>2. QED
    BY <1>1, Invariance, PTL
=============================================================================
