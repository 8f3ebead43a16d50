----------------------------- MODULE CacheAside -----------------------------
(***************************************************************************)
(* The response cache: the decorator `cache` (core/cache/decorator.py)     *)
(* around a route, on the Redis or the Memcached backend.  A GET looks its *)
(* key up and, on a miss, computes the answer and stores it; any other     *)
(* method changes the data, then deletes its own key, the extra keys and   *)
(* the keys under its patterns.  Each of these is an await of its own, and *)
(* each await on the backend may raise, which fails the request.           *)
(***************************************************************************)
EXTENDS Naturals, Sequences, FiniteSets

CONSTANTS
    Request,    \* requests that may be in flight at once
    Call,       \* what clients ask: records [route, args]
    Writes,     \* the calls that may also be made with a writing method
    Signature,  \* for each route, the names of its arguments, in order
    IdLike,     \* the names of arguments that contain "id"
    Named,      \* for each route, the argument given as resource_id_name, or None
    Mentioned,  \* for each route, the arguments its key_prefix has in braces
    RowArg,     \* for each route, the argument that names the row it shows
    Extra,      \* to_invalidate_extra of the writes: a sequence of [route, arg]
    Patterns,   \* pattern_to_invalidate_extra of the writes: a sequence of routes
    Falsy,      \* pairs of a route and a version whose answer is empty or zero
    Backends,   \* the backends a deployment may register: Redis, Memcached, None
    Redis, Memcached, None,
    Page,       \* how many keys one SCAN looks at (about 100)
    MaxVersion  \* bound on the versions of a row

-----------------------------------------------------------------------------
(* Keys *)

\* The first argument with "id" in its name, or else the first of all.
InferResourceId(c) ==
    LET names == Signature[c.route]
        idLike == {i \in DOMAIN names : names[i] \in IdLike}
        eligible == IF idLike # {} THEN idLike ELSE DOMAIN names
    IN  c.args[names[CHOOSE i \in eligible : \A j \in eligible : i <= j]]

ResourceId(c) ==
    IF Named[c.route] # None THEN c.args[Named[c.route]] ELSE InferResourceId(c)

FormatPrefix(c) == <<c.route, [a \in Mentioned[c.route] |-> c.args[a]]>>

KeyOf(c) == [prefix |-> FormatPrefix(c), id |-> ResourceId(c)]

Cacheable(c) == Named[c.route] # None \/ Signature[c.route] # <<>>

Key == {KeyOf(c) : c \in {d \in Call : Cacheable(d)}}

Row(c) == c.args[RowArg[c.route]]

Rows == {Row(c) : c \in Call}

\* What a write deletes after its own key: an extra whose argument the call
\* lacks is left out.
ExtraKeys(c) ==
    LET present(e) == e.arg \in DOMAIN c.args
        given == SelectSeq(Extra, present)
    IN  [i \in DOMAIN given |-> [op |-> "key", key |-> [prefix |-> <<given[i].route, <<>>>>,
                                                       id |-> c.args[given[i].arg]]]]

Invalidations(c) ==
    <<[op |-> "key", key |-> KeyOf(c)]>> \o ExtraKeys(c)
        \o [i \in DOMAIN Patterns |-> [op |-> "pattern", key |-> Patterns[i]]]

\* A pattern is the prefix of a route with a star; no route's prefix begins with another's.
Matches(k, pattern) == k.prefix[1] = pattern

-----------------------------------------------------------------------------
(* State *)

VARIABLES
    backend,  \* what cache_provider.get_backend returns, None if it raises
    row,      \* the database: the version of every row
    cache,    \* for each key the entry stored under it, or None
    req,      \* the requests
    seen      \* history: the newest version a successful write answered with

vars == <<backend, row, cache, req, seen>>

Version == 0..MaxVersion

\* `excused` is a history mark: the entry was computed before an
\* invalidation of its key that could not reach it.
Entry == [call : Call, version : Version, excused : BOOLEAN]

Todo == [op : {"key"}, key : Key] \cup [op : {"pattern"}, key : {Patterns[i] : i \in DOMAIN Patterns}]

Covers(todo, k) ==
    \E i \in DOMAIN todo :
        \/ todo[i].op = "key" /\ todo[i].key = k
        \/ todo[i].op = "pattern" /\ Matches(k, todo[i].key)

\* How the routes have to be decorated: calls that share a key show one row, though they
\* may differ in arguments that are neither in the prefix nor the resource id, and a write
\* is cacheable and names every key under which its row is shown.
ASSUME KeyAssumption ==
    \A c, d \in Call : Cacheable(c) /\ Cacheable(d) /\ KeyOf(c) = KeyOf(d) => Row(c) = Row(d)
ASSUME WritesAssumption ==
    \A w \in Writes :
        /\ w \in Call /\ Cacheable(w) /\ Invalidations(w) \in Seq(Todo)
        /\ \A c \in Call : Cacheable(c) /\ Row(c) = Row(w) => Covers(Invalidations(w), KeyOf(c))
ASSUME BoundAssumption == MaxVersion \in Nat

\* `floor`: the newest version answered before the request began;
\* `version`: that of its answer; `late`: its key was invalidated after it
\* read the row.
Idle == [pc |-> "idle"]
Flight == [pc : {"lookup", "call", "store", "invalidate", "sweep", "done"},
           method : {"GET", "PUT"}, call : Call, floor : Version,
           version : Version, excused : BOOLEAN, late : BOOLEAN,
           todo : Seq(Todo), found : SUBSET Key]

TypeOK ==
    /\ backend \in Backends
    /\ row \in [Rows -> Version]
    /\ cache \in [Key -> Entry \cup {None}]
    /\ req \in [Request -> Flight \cup {Idle}]
    /\ seen \in [Rows -> Version]

Init ==
    /\ backend \in Backends
    /\ row = [r \in Rows |-> 0]
    /\ cache = [k \in Key |-> None]
    /\ req = [p \in Request |-> Idle]
    /\ seen = [r \in Rows |-> 0]

-----------------------------------------------------------------------------
(* Steps of a request *)

Stored == {k \in Key : cache[k] # None}

\* An empty list, a zero or null is not told from a miss.
Truthy(e) == e # None /\ <<e.call.route, e.version>> \notin Falsy

Cached(c) == backend # None /\ Cacheable(c)

\* The requests whose answer was computed before an invalidation of K.
Late(K) ==
    [p \in Request |-> IF req[p].pc = "store" /\ KeyOf(req[p].call) \in K
                         THEN [req[p] EXCEPT !.late = TRUE] ELSE req[p]]

\* A write is answered: its client knows of the version it made.
Acknowledged(c, version) ==
    IF seen[Row(c)] < version THEN [seen EXCEPT ![Row(c)] = version] ELSE seen

\* After an invalidation: the rest of them, or the answer to the write.
Proceed(p, R) ==
    LET rest == Tail(req[p].todo) IN
    IF rest = <<>>
      THEN /\ req' = [R EXCEPT ![p] = Idle]
           /\ seen' = Acknowledged(req[p].call, req[p].version)
      ELSE /\ req' = [R EXCEPT ![p].pc = "invalidate", ![p].todo = rest, ![p].found = {}]
           /\ seen' = seen

Begin(p, c, method) ==
    /\ req[p].pc = "idle"
    /\ method = "GET" \/ (c \in Writes /\ row[Row(c)] < MaxVersion)
    /\ req' = [req EXCEPT ![p] =
                 [pc |-> IF Cached(c) /\ method = "GET" THEN "lookup" ELSE "call",
                  method |-> method, call |-> c, floor |-> seen[Row(c)],
                  version |-> 0, excused |-> FALSE, late |-> FALSE, todo |-> <<>>, found |-> {}]]
    /\ UNCHANGED <<backend, row, cache, seen>>

Lookup(p) ==
    /\ req[p].pc = "lookup"
    /\ LET e == cache[KeyOf(req[p].call)] IN
         req' = [req EXCEPT ![p] =
                   IF Truthy(e) THEN [@ EXCEPT !.pc = "done", !.version = e.version,
                                               !.excused = e.excused]
                   ELSE [@ EXCEPT !.pc = "call"]]
    /\ UNCHANGED <<backend, row, cache, seen>>

\* The route itself, called between the lookup and the store of its answer.
Compute(p) ==
    /\ req[p].pc = "call" /\ req[p].method = "GET"
    /\ req' = [req EXCEPT ![p].version = row[Row(req[p].call)],
                          ![p].pc = IF Cached(req[p].call) THEN "store" ELSE "done"]
    /\ UNCHANGED <<backend, row, cache, seen>>

\* The route of a write, which commits before anything is invalidated.
Change(p) ==
    LET c == req[p].call
        next == row[Row(c)] + 1
    IN  /\ req[p].pc = "call" /\ req[p].method = "PUT"
        /\ next \in Version
        /\ row' = [row EXCEPT ![Row(c)] = next]
        /\ IF Cached(c)
             THEN /\ req' = [req EXCEPT ![p].version = next, ![p].pc = "invalidate",
                                        ![p].todo = Invalidations(c)]
                  /\ seen' = seen
             ELSE /\ req' = [req EXCEPT ![p] = Idle]
                  /\ seen' = Acknowledged(c, next)
        /\ UNCHANGED <<backend, cache>>

FilledBare(r) ==   \* mutant: nobody knows whose answer it is
    [call |-> None, version |-> r.version, excused |-> r.late]
Filled(r) == [call |-> r.call, version |-> r.version, excused |-> r.late]

Store(p) ==
    /\ req[p].pc = "store"
    /\ cache' = [cache EXCEPT ![KeyOf(req[p].call)] = Filled(req[p])]
    /\ req' = [req EXCEPT ![p].pc = "done", ![p].excused = req[p].late]
    /\ UNCHANGED <<backend, row, seen>>

WithoutNothing(K) == cache   \* mutant: the prefix is not formatted, and no key found
Without(K) == [k \in Key |-> IF k \in K THEN None ELSE cache[k]]

\* What a pattern should have deleted and did not stays, with its excuse.
Excuse(K) ==
    [k \in Key |-> IF k \in K /\ cache[k] # None THEN [cache[k] EXCEPT !.excused = TRUE] ELSE cache[k]]

DeleteKey(p) ==
    /\ req[p].pc = "invalidate" /\ Head(req[p].todo).op = "key"
    /\ LET K == {Head(req[p].todo).key} IN
         /\ cache' = Without(K)
         /\ Proceed(p, Late(K))
    /\ UNCHANGED <<backend, row>>

\* One page of keys: those of the other components take places on it too.
ScanPage(p, examined) ==
    LET matching == {k \in Key : Matches(k, Head(req[p].todo).key)}
        found == examined \cap matching
    IN  /\ req[p].pc = "invalidate" /\ Head(req[p].todo).op = "pattern"
        /\ backend = Redis
        /\ examined \subseteq Stored /\ Cardinality(examined) <= Page
        /\ cache' = Excuse(matching \ found)
        /\ IF found = {} THEN Proceed(p, Late(matching))
           ELSE /\ req' = [Late(matching \ found) EXCEPT ![p].pc = "sweep", ![p].found = found]
                /\ seen' = seen
        /\ UNCHANGED <<backend, row>>

Sweep(p) ==
    /\ req[p].pc = "sweep"
    /\ cache' = Without(req[p].found)
    /\ Proceed(p, Late(req[p].found))
    /\ UNCHANGED <<backend, row>>

\* Memcached has no patterns: the exception is logged and the loop goes on.
PatternNotSupported(p) ==
    LET matching == {k \in Key : Matches(k, Head(req[p].todo).key)} IN
    /\ req[p].pc = "invalidate" /\ Head(req[p].todo).op = "pattern"
    /\ backend = Memcached
    /\ cache' = Excuse(matching)
    /\ Proceed(p, Late(matching))
    /\ UNCHANGED <<backend, row>>

\* The backend raises; nothing around the decorator catches it.
BackendRaises(p) ==
    /\ \/ req[p].pc \in {"lookup", "store", "sweep"}
       \/ req[p].pc = "invalidate" /\ (backend = Redis \/ Head(req[p].todo).op = "key")
    /\ req' = [req EXCEPT ![p] = Idle]
    /\ UNCHANGED <<backend, row, cache, seen>>

Leave(p) ==
    /\ req[p].pc = "done"
    /\ req' = [req EXCEPT ![p] = Idle]
    /\ UNCHANGED <<backend, row, cache, seen>>

\* The backend drops an entry when its expiration has passed.
Expire(k) ==
    /\ cache[k] # None
    /\ cache' = [cache EXCEPT ![k] = None]
    /\ UNCHANGED <<backend, row, req, seen>>

Step(p) ==
    \/ Lookup(p) \/ Compute(p) \/ Change(p) \/ Store(p) \/ DeleteKey(p)
    \/ (\E examined \in SUBSET Stored : ScanPage(p, examined))
    \/ Sweep(p) \/ PatternNotSupported(p) \/ BackendRaises(p) \/ Leave(p)

Next ==
    \/ \E p \in Request : Step(p) \/ (\E c \in Call, m \in {"GET", "PUT"} : Begin(p, c, m))
    \/ \E k \in Key : Expire(k)

Spec == Init /\ [][Next]_vars

-----------------------------------------------------------------------------
(* Properties *)

\* An answer is at least as new as every change that was acknowledged before
\* the request began, unless it comes from an entry that a write's
\* invalidation could not reach: the answer was computed before the
\* invalidation and stored after it, or a pattern missed the entry.
\* (decorator.py 87-118: the write commits before it deletes.)
AnswersAreFresh ==
    \A p \in Request :
        req[p].pc = "done" /\ req[p].method = "GET" /\ ~req[p].excused
            => req[p].version >= req[p].floor

=============================================================================
