------------------------------ MODULE Sessions ------------------------------
(***************************************************************************)
(* The session subsystem: SessionManager (core/auth/session/manager.py)    *)
(* on RedisSessionStorage (core/auth/session/backends/redis.py), driven by *)
(* the login, logout and authenticated requests of the API.                *)
(*                                                                         *)
(* A request is a coroutine that yields at every storage round trip, so    *)
(* one action is one round trip: the command Redis executes atomically and *)
(* the local code up to the next await.  Requests interleave freely.       *)
(*                                                                         *)
(* Time is counted in ticks.  A key is live while its expiry is later than *)
(* the clock; Redis drops it at that instant.                              *)
(***************************************************************************)
EXTENDS Integers, FiniteSets

CONSTANTS
    Sid,              \* session identifiers (uuid4 in the code)
    User,             \* user identifiers
    Proc,             \* request slots: how many requests run concurrently
    NoSid,            \* the absent identifier
    Owner,            \* the user each identifier is drawn for at login
    MaxSessions,      \* max_sessions_per_user
    Timeout,          \* session_timeout, also the TTL of a session key
    Grace,            \* the 3600 s the user index outlives its newest session
    CleanupInterval,  \* cleanup_interval
    MaxTime,          \* bound: the clock stops here
    MaxLatency,       \* bound: ticks that may pass while a request runs
    MaxFaults         \* bound: storage errors in a behaviour

ASSUME OwnerAssumption   == Owner \in [Sid -> User] /\ NoSid \notin Sid
ASSUME LimitAssumption   == MaxSessions \in Nat \ {0}
ASSUME TimeAssumption    == /\ Timeout \in Nat \ {0} /\ Grace \in Nat
                            /\ CleanupInterval \in Nat /\ MaxTime \in Nat
                            /\ MaxFaults \in Nat
\* Timeouts of the HTTP server and of the Redis client (CACHE_REDIS_CONNECT_TIMEOUT)
\* keep a request far below the hour that separates an index from its sessions.
ASSUME LatencyAssumption == MaxLatency \in Nat /\ MaxLatency <= Grace

VARIABLES
    now,          \* the clock shared by Redis and the application
    store,        \* store[s]: the record under "session:<s>" and its expiry
    index,        \* index[u]: the set under "session:user:<u>" and its expiry
    lastCleanup,  \* SessionManager.last_cleanup
    req,          \* req[p]: program counter and locals of the request in slot p
    granted,      \* identifiers a client has received in a cookie
    loggedOut,    \* history: identifiers whose logout was answered with success
    solo,         \* history: {p} while p has run alone and without a fault
    faults        \* storage errors so far

vars == <<now, store, index, lastCleanup, req, granted, loggedOut, solo, faults>>

-----------------------------------------------------------------------------
(* Records, types and the initial state.                                   *)

SessionData == [active: BOOLEAN, last: Nat]
Record      == [active: BOOLEAN, last: Nat, exp: Nat]
Index       == [ids: SUBSET Sid, exp: Nat]

NoData   == [active |-> FALSE, last |-> 0]
NoRecord == [active |-> FALSE, last |-> 0, exp |-> 0]

Op   == {"login", "page", "logout"}
PC   == {"idle", "scan", "sweep", "validate", "exists", "write", "terminate",
         "ids", "scanall", "collect", "evict"}
Back == {"sweep", "admit", "deny", "out", "evict"}  \* who awaits an update

Request == [pc: PC, op: Op, back: Back, began: Nat, copy: SessionData,
            sid: Sid \cup {NoSid}, target: Sid \cup {NoSid},
            ids: SUBSET Sid, seen: SUBSET [sid: Sid, last: Nat]]

Idle == [pc |-> "idle", op |-> "page", back |-> "admit", began |-> 0, copy |-> NoData,
         sid |-> NoSid, target |-> NoSid, ids |-> {}, seen |-> {}]

Live(s)      == store[s].exp > now
IndexLive(u) == index[u].exp > now

\* Mutant: a validation accepts every session that is still stored.
UsableWhileStored(s) == Live(s)

Usable(s)    == Live(s) /\ store[s].active
Sessions(u)  == {s \in Sid : Owner[s] = u /\ Usable(s)}
Fresh(s)     == store[s] = NoRecord /\ \A p \in Proc : req[p].sid # s

Init ==
    /\ now = 0
    /\ store = [s \in Sid |-> NoRecord]
    /\ index = [u \in User |-> [ids |-> {}, exp |-> 0]]
    /\ lastCleanup = 0
    /\ req = [p \in Proc |-> Idle]
    /\ granted = {} /\ loggedOut = {}
    /\ solo = {} /\ faults = 0

-----------------------------------------------------------------------------
(* Storage commands of the Redis backend, as effects on store and index.   *)

\* The value SET stores, expiring a full timeout from now.
Stored(data) == [active |-> data.active, last |-> data.last, exp |-> now + Timeout]

\* Mutant: a termination records why a session ended, not that it did.
EndedStillActive(s) == [active |-> store[s].active, last |-> store[s].last]

\* Mutant: the record loses its last_activity.
EndedForgetful(s) == [active |-> FALSE, last |-> NoSid]

\* What terminate_session and cleanup store: the record they read, deactivated.
Ended(s) == [active |-> FALSE, last |-> store[s].last]

\* Mutant: the index is overwritten where SADD should add to it.
StoreCreateReplacing(s, data) ==
    /\ store' = [store EXCEPT ![s] = Stored(data)]
    /\ index' = [index EXCEPT ![Owner[s]] = [ids |-> {s}, exp |-> now + Timeout + Grace]]

\* RedisSessionStorage.create: SET with TTL, SADD and EXPIRE in one MULTI.
StoreCreate(s, data) ==
    LET u   == Owner[s]
        old == IF IndexLive(u) THEN index[u].ids ELSE {}
    IN  /\ store' = [store EXCEPT ![s] = Stored(data)]
        /\ index' = [index EXCEPT ![u] = [ids |-> old \cup {s}, exp |-> now + Timeout + Grace]]

\* Mutant: an update forgets to renew the index along with the session.
StoreWriteBare(s, data) == store' = [store EXCEPT ![s] = Stored(data)] /\ UNCHANGED index

\* The second round trip of RedisSessionStorage.update: SET with TTL whether or
\* not the key is still there, and EXPIRE, which does nothing to a missing index.
StoreWrite(s, data) ==
    /\ store' = [store EXCEPT ![s] = Stored(data)]
    /\ index' = IF IndexLive(Owner[s])
                  THEN [index EXCEPT ![Owner[s]].exp = now + Timeout + Grace]
                  ELSE index

Goto(p, r) == req' = [req EXCEPT ![p] = r]

\* Mutant: the loop does not advance.
RestStuck(p, s) == req[p].ids

\* What is left of a loop over identifiers once it has handled s.
Rest(p, s) == req[p].ids \ {s}

\* What the coroutine does when the update or the terminate_session it awaits
\* returns: the boolean is ignored by every caller.
After(p) ==
    LET r == [req[p] EXCEPT !.target = NoSid, !.copy = NoData]
    IN  CASE r.back = "sweep" -> [r EXCEPT !.pc = "sweep"]
          [] r.back = "evict" -> [r EXCEPT !.pc = "evict"]
          [] r.back = "admit" /\ r.op = "logout" ->
                 [r EXCEPT !.pc = "terminate", !.target = r.sid, !.back = "out"]
          [] OTHER -> Idle

\* A logout is answered when the terminate_session it awaits returns.
Resume(p) ==
    /\ Goto(p, After(p))
    /\ loggedOut' = IF req[p].back = "out" THEN loggedOut \cup {req[p].sid} ELSE loggedOut

-----------------------------------------------------------------------------
(* Arrival of requests.                                                    *)

Arrive(p, r) ==
    /\ req[p].pc = "idle"
    /\ Goto(p, r)
    /\ solo' = IF \A q \in Proc : req[q].pc = "idle" THEN {p} ELSE {}
    /\ UNCHANGED <<now, store, index, lastCleanup, granted, loggedOut, faults>>

\* A login whose password was accepted enters create_session, which reads the
\* clock once, before it enforces the limit.
Login(p) == \E s \in Sid :
    /\ Fresh(s)
    /\ Arrive(p, [Idle EXCEPT !.pc = "ids", !.op = "login", !.sid = s, !.began = now])

\* get_session_from_cookie: clean up if the interval has passed, then validate.
Page(p) == \E s \in granted :
    Arrive(p, [Idle EXCEPT !.op = "page", !.sid = s, !.began = now,
                 !.pc = IF now - lastCleanup < CleanupInterval THEN "validate" ELSE "scan"])

\* logout depends on get_current_session_data, which validates without cleaning up.
Logout(p) == \E s \in granted :
    Arrive(p, [Idle EXCEPT !.pc = "validate", !.op = "logout", !.sid = s, !.began = now])

-----------------------------------------------------------------------------
(* validate_session and terminate_session.                                 *)

Validate(p) ==
    LET r == req[p]
        d == store[r.sid]
    IN  /\ r.pc = "validate"
        /\ \/ /\ ~Usable(r.sid)
              /\ Goto(p, Idle)
           \/ /\ Usable(r.sid) /\ now - d.last > Timeout
              /\ Goto(p, [r EXCEPT !.pc = "terminate", !.target = r.sid, !.back = "deny"])
           \/ /\ Usable(r.sid) /\ now - d.last <= Timeout
              /\ Goto(p, [r EXCEPT !.pc = "exists", !.target = r.sid, !.back = "admit",
                                   !.copy = [active |-> TRUE, last |-> now]])
        /\ UNCHANGED <<now, store, index, lastCleanup, granted, loggedOut, solo, faults>>

\* The get of terminate_session; an unknown session ends it at once.
Terminate(p) ==
    LET r == req[p]
    IN  /\ r.pc = "terminate"
        /\ \/ /\ ~Live(r.target)
              /\ Resume(p)
           \/ /\ Live(r.target)
              /\ Goto(p, [r EXCEPT !.pc = "exists",
                            !.copy = Ended(r.target)])
              /\ UNCHANGED loggedOut
        /\ UNCHANGED <<now, store, index, lastCleanup, granted, solo, faults>>

\* The first round trip of RedisSessionStorage.update.
Exists(p) ==
    LET r == req[p]
    IN  /\ r.pc = "exists"
        /\ \/ /\ ~Live(r.target)
              /\ Resume(p)
           \/ /\ Live(r.target)
              /\ Goto(p, [r EXCEPT !.pc = "write"])
              /\ UNCHANGED loggedOut
        /\ UNCHANGED <<now, store, index, lastCleanup, granted, solo, faults>>

\* The second one: the whole record is replaced by the copy read earlier.
Write(p) ==
    /\ req[p].pc = "write"
    /\ StoreWrite(req[p].target, req[p].copy)
    /\ Resume(p)
    /\ UNCHANGED <<now, lastCleanup, granted, solo, faults>>

-----------------------------------------------------------------------------
(* cleanup_expired_sessions: SCAN, then get and maybe update each session. *)

Scan(p) ==
    /\ req[p].pc = "scan"
    /\ Goto(p, [req[p] EXCEPT !.pc = "sweep", !.ids = {s \in Sid : Live(s)}])
    /\ UNCHANGED <<now, store, index, lastCleanup, granted, loggedOut, solo, faults>>

Sweep(p) == \E s \in req[p].ids :
    LET r == [req[p] EXCEPT !.ids = Rest(p, s)]
    IN  /\ req[p].pc = "sweep"
        /\ IF Usable(s) /\ store[s].last + Timeout < r.began
             THEN Goto(p, [r EXCEPT !.pc = "exists", !.target = s, !.back = "sweep",
                                    !.copy = Ended(s)])
             ELSE Goto(p, r)
        /\ UNCHANGED <<now, store, index, lastCleanup, granted, loggedOut, solo, faults>>

SweepDone(p) ==
    /\ req[p].pc = "sweep" /\ req[p].ids = {}
    /\ lastCleanup' = req[p].began
    /\ Goto(p, [req[p] EXCEPT !.pc = "validate"])
    /\ UNCHANGED <<now, store, index, granted, loggedOut, solo, faults>>

-----------------------------------------------------------------------------
(* create_session: _enforce_session_limit, then the new session.           *)

\* get_user_sessions: SMEMBERS of the user's index.
UserSessions(p) ==
    LET r == req[p]
        u == Owner[r.sid]
    IN  /\ r.pc = "ids"
        /\ Goto(p, [r EXCEPT !.pc = "collect",
                             !.ids = IF IndexLive(u) THEN index[u].ids ELSE {}])
        /\ UNCHANGED <<now, store, index, lastCleanup, granted, loggedOut, solo, faults>>

\* _get_active_sessions_by_scan, the fallback when SMEMBERS raised.
ScanAll(p) ==
    /\ req[p].pc = "scanall"
    /\ Goto(p, [req[p] EXCEPT !.pc = "collect",
                  !.ids = {s \in Sid : Live(s) /\ Owner[s] = Owner[req[p].sid]}])
    /\ UNCHANGED <<now, store, index, lastCleanup, granted, loggedOut, solo, faults>>

Collect(p) == \E s \in req[p].ids :
    /\ req[p].pc = "collect"
    /\ Goto(p, [req[p] EXCEPT !.ids = Rest(p, s),
                  !.seen = IF Usable(s) THEN @ \cup {[sid |-> s, last |-> store[s].last]} ELSE @])
    /\ UNCHANGED <<now, store, index, lastCleanup, granted, loggedOut, solo, faults>>

\* Mutants: no room is made for the new session; the sort is descending.
ExcessNoRoom(found) == Cardinality(found) - MaxSessions
OlderReversed(v, w) == v.last >= w.last

\* The sessions to terminate: the oldest ones, as many as leave room for the new one.
Excess(found) == Cardinality(found) - MaxSessions + 1
Older(v, w)   == v.last <= w.last

Victims(found) ==
    IF Excess(found) <= 0 THEN {{}}
    ELSE {V \in SUBSET found : /\ Cardinality(V) = Excess(found)
                               /\ \A v \in V, w \in found \ V : Older(v, w)}

Decide(p) ==
    /\ req[p].pc = "collect" /\ req[p].ids = {}
    /\ \E V \in Victims(req[p].seen) :
           Goto(p, [req[p] EXCEPT !.pc = "evict", !.back = "evict", !.seen = V])
    /\ UNCHANGED <<now, store, index, lastCleanup, granted, loggedOut, solo, faults>>

Evict(p) == \E v \in req[p].seen :
    /\ req[p].pc = "evict"
    /\ \A w \in req[p].seen : Older(v, w)
    /\ Goto(p, [req[p] EXCEPT !.pc = "terminate", !.target = v.sid, !.seen = @ \ {v}])
    /\ UNCHANGED <<now, store, index, lastCleanup, granted, loggedOut, solo, faults>>

\* The login is answered with the cookie once the session is stored.
Create(p) ==
    LET r == req[p]
    IN  /\ r.pc = "evict" /\ r.seen = {}
        /\ StoreCreate(r.sid, [active |-> TRUE, last |-> r.began])
        /\ granted' = granted \cup {r.sid}
        /\ Goto(p, Idle)
        /\ UNCHANGED <<now, lastCleanup, loggedOut, solo, faults>>

-----------------------------------------------------------------------------
(* A storage call raises RedisError: before it took effect, or after (the  *)
(* reply is lost).  Who catches it decides how the request goes on.        *)

Raised(p) ==
    LET r == req[p]
    IN  CASE r.pc \in {"scan", "sweep"} ->                       \* cleanup gives up
                 [r EXCEPT !.pc = "validate", !.ids = {}]
          [] r.pc = "validate" -> Idle                           \* validate returns None
          [] r.pc \in {"exists", "write"} /\ r.back = "admit" -> Idle
          [] r.pc = "ids" -> [r EXCEPT !.pc = "scanall"]         \* fall back to a scan
          [] r.pc = "scanall" -> [r EXCEPT !.pc = "evict", !.back = "evict"]  \* not enforced
          [] r.pc = "evict" -> Idle                              \* create raises: login fails
          [] OTHER -> After(p)                                   \* swallowed

\* The get of one session fails inside a loop: that session is skipped.
Skips(p) ==
    /\ req[p].pc \in {"sweep", "collect"}
    /\ \E s \in req[p].ids : Goto(p, [req[p] EXCEPT !.ids = Rest(p, s)])
    /\ UNCHANGED <<store, index, loggedOut>>

Raises(p) ==
    /\ req[p].pc \notin {"idle", "collect"}  \* SCAN fetches further pages during "sweep"
    /\ req[p].pc = "evict" => req[p].seen = {}
    /\ \/ UNCHANGED <<store, index>>
       \/ req[p].pc = "write" /\ StoreWrite(req[p].target, req[p].copy)
       \/ req[p].pc = "evict" /\ StoreCreate(req[p].sid, [active |-> TRUE, last |-> req[p].began])
    /\ Goto(p, Raised(p))
    /\ loggedOut' = IF req[p].back = "out" THEN loggedOut \cup {req[p].sid} ELSE loggedOut

Fault(p) ==
    /\ faults < MaxFaults
    /\ faults' = faults + 1
    /\ solo' = {}
    /\ Skips(p) \/ Raises(p)
    /\ UNCHANGED <<now, lastCleanup, granted>>

-----------------------------------------------------------------------------
Tick ==
    /\ now < MaxTime
    /\ \A p \in Proc : req[p].pc # "idle" => now < req[p].began + MaxLatency
    /\ now' = now + 1
    /\ UNCHANGED <<store, index, lastCleanup, req, granted, loggedOut, solo, faults>>

Step(p) ==
    \/ Validate(p) \/ Terminate(p) \/ Exists(p) \/ Write(p)
    \/ Scan(p) \/ Sweep(p) \/ SweepDone(p)
    \/ UserSessions(p) \/ ScanAll(p) \/ Collect(p) \/ Decide(p) \/ Evict(p) \/ Create(p)

Next ==
    \/ \E p \in Proc : Login(p) \/ Page(p) \/ Logout(p) \/ Step(p) \/ Fault(p)
    \/ Tick

Spec == Init /\ [][Next]_vars

\* asyncio resumes a coroutine whose reply has arrived.
FairSpec == Spec /\ \A p \in Proc : WF_vars(Step(p))

-----------------------------------------------------------------------------
(* Properties.                                                             *)

TypeOK ==
    /\ now \in Nat /\ lastCleanup \in Nat /\ faults \in Nat
    /\ store \in [Sid -> Record]
    /\ index \in [User -> Index]
    /\ req \in [Proc -> Request]
    /\ granted \in SUBSET Sid /\ loggedOut \in SUBSET Sid /\ solo \in SUBSET Proc

\* The index of a user names every live session of that user, so that
\* _enforce_session_limit misses none: EXPIRE exp + 3600 on each create and
\* update must keep the index alive longer than any session in it.
IndexCoversLive ==
    \A s \in Sid : Live(s) => IndexLive(Owner[s]) /\ s \in index[Owner[s]].ids

\* A session that is still usable expires no later than session_timeout after
\* its last activity, give or take the time one request may take: the writes of
\* cleanup, eviction and logout, which also renew the TTL, never extend its life.
TtlTracksActivity ==
    \A s \in Sid : Usable(s) => store[s].exp <= store[s].last + Timeout + MaxLatency

\* Whatever earlier races and errors left behind, a login that meets no other
\* request and no error leaves the user within the limit.
SoloLoginRestoresLimit ==
    [][\A s \in granted' \ granted :
          solo # {} => Cardinality(Sessions(Owner[s])') <= MaxSessions]_vars

\* "Forced logout of oldest sessions": a login that runs alone terminates a
\* session only when no usable session of the user has been idle for longer.
EvictsOldestFirst ==
    [][\A p \in solo :
          req[p].pc = "write" /\ req[p].back = "evict" =>
            \A s \in Sessions(Owner[req[p].target]) :
                store[req[p].target].last <= store[s].last]_vars

\* A session is over once it was ended or its key has expired and no request
\* that validated it before is still about to write its active copy back.
Over(s) ==
    /\ store[s] # NoRecord
    /\ ~(Live(s) /\ store[s].active)
    /\ \A p \in Proc :
          req[p].pc \in {"exists", "write"} /\ req[p].target = s => ~req[p].copy.active

\* A session that is over stays over, whatever requests interleave and whichever
\* storage call fails: validate_session accepts no inactive or missing record
\* (manager.py:181), terminations that write a whole record back over a newer one
\* or over an expired key never bring a session back, and no login reuses an
\* identifier.  Only a write-back already under way revives a session.
EndedStaysEnded == [][\A s \in Sid : Over(s) => Over(s)']_vars

\* After logout "any existing session tokens will no longer be valid".
LogoutIsFinal == \A s \in loggedOut : ~Usable(s)

\* Where each session is in the life SessionContract describes.
Status == [s \in Sid |-> CASE store[s] = NoRecord -> "new"
                           [] Usable(s) -> "active"
                           [] OTHER -> "ended"]

Contract == INSTANCE SessionContract WITH status <- Status

\* One request at a time, the program keeps the contract: an ended session
\* never comes back and no user exceeds the limit.
KeepsContract == Contract!Spec

\* Every request is answered.
RequestAnswered == \A p \in Proc : req[p].pc # "idle" ~> req[p].pc = "idle"

=============================================================================
