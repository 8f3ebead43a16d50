--------------------------- MODULE ServingProofs ---------------------------
(***************************************************************************)
(* Proofs about Serving for every set of configurations, rules, tiers and  *)
(* requests: what a process that serves has checked, opened and registered,*)
(* what is closed when it stops, that the lifespan never goes back, and    *)
(* which limit a request is charged.                                       *)
(***************************************************************************)
EXTENDS Serving, TLAPS

\* How far the lifespan is, and what it has done by then.
Started == {"cache", "limiter", "ready", "serving"}

\* initialize_cache and initialize_rate_limiter register what they open.
Registered ==
    /\ "cache" \in registered => settings.cache
    /\ "limiter" \in registered => settings.limiter
    /\ open \ {"sessions"} \subseteq registered

\* Nothing is open before start-up and the cache is closed before the limiter.
Opened ==
    /\ phase = "validate" => registered = {} /\ open = {}
    /\ phase = "close limiter" => "cache" \notin open

\* A checked production process got past the validator with nothing critical, and
\* its warnings are those of its settings.
Checked ==
    (/\ phase \notin {"validate", "stopped"}
     /\ settings.environment = "production" /\ settings.validation)
        => ~App!Critical /\ warned = App!Warnings

\* The event is set once the rate limiter is registered, if it is to be.
LimiterStarted ==
    (ready \/ phase \in {"ready", "serving"})
        => (settings.limiter /\ settings.limiterBackend # "memory" => "limiter" \in registered)

\* The session manager is built on Redis, when its throttle is there.
Built == /\ manager # "none" => settings.sessionBackend = "redis"
         /\ "sessions" \in open => manager # "none"

ProcessInv == /\ App!TypeOK /\ Registered /\ Opened /\ Checked /\ LimiterStarted /\ Built
              /\ App!LoginsThrottled /\ ClosesWhatItOpened

\* A request is only made with the limiter on, and charged after the event.
Charged == \A p \in Proc : /\ req[p] # Rules!Idle => settings.limiter
                           /\ req[p].pc \in {"rule", "charge"} => ready

\* A request carries what its operation needs; only a check resolves and is charged, it
\* has seen what is in force now, and it is charged one of the limits it has seen.
Sound(r) ==
    /\ r.op = "create" => r.values \in Rules!Rule
    /\ r.op = "update" => r.values \in Rules!Values
    /\ r.pc \in {"wait", "rule", "charge"} => r.op = "check"
    /\ r.op = "check" => Rules!InForce(rules, r.tier, r.path) \subseteq r.seen
    /\ r.pc = "charge" => r.limit \in r.seen

RequestInv == Rules!TypeOK /\ \A p \in Proc : Sound(req[p])

IInv == ProcessInv /\ Charged /\ RequestInv

-----------------------------------------------------------------------------
LEMMA InitProcess == ASSUME App!Init PROVE ProcessInv
  BY SettingsAssumption DEF App!Init, ProcessInv, App!TypeOK, Registered, Opened, Checked, LimiterStarted,
     Built, App!LoginsThrottled, ClosesWhatItOpened, App!ClosesWhatItOpened

LEMMA WarningsTyped == ASSUME settings \in Settings PROVE App!Warnings \subseteq App!Weakness \cup {"shared"}
  BY DEF App!Warnings, App!RedisWarnings, App!CorsTooPermissive, App!DebugEnabled, App!DocsWarnings,
     App!SessionWarnings, App!AdminWarnings, App!Weakness, App!InstanceShared

\* What the validator concludes depends on the settings only.
LEMMA SameConclusions ==
  ASSUME settings' = settings
  PROVE  App!Warnings' = App!Warnings /\ App!Critical' = App!Critical
  BY DEF App!Warnings, App!RedisWarnings, App!CorsTooPermissive, App!DebugEnabled, App!DocsWarnings,
     App!SessionWarnings, App!AdminWarnings, App!InstanceShared, App!RedisConfigurations,
     App!Critical, App!InsecureSecretKey, App!DefaultCredentials, App!EmptyPassword

\* Every step of the lifespan, and the session manager, keep the invariant.
LEMMA ProcessStep ==
  ASSUME ProcessInv, App!StartOrClose \/ App!BuildManager \/ App!Stop
  PROVE  ProcessInv'
  <1>. USE DEF ProcessInv, App!TypeOK, Registered, Opened, LimiterStarted, Built,
           App!LoginsThrottled, ClosesWhatItOpened, App!ClosesWhatItOpened
  <1>s. settings' = settings /\ settings \in App!Configuration
    BY SettingsAssumption DEF App!StartOrClose, App!Validate, App!CreateTables, App!InitializeCache,
       App!InitializeRateLimiter, App!Register, App!Fails, App!Serve, App!CloseCache,
       App!CloseRateLimiter, App!BuildManager, App!Stop
  <1>w. App!Warnings' = App!Warnings /\ App!Critical' = App!Critical
    BY <1>s, SameConclusions
  <1>b. settings.limiterBackend \in {"redis", "memcached", "memory"}
    BY <1>s DEF App!Configuration, App!Backend
  <1>1. CASE App!Validate
    BY <1>1, <1>s, <1>w, WarningsTyped DEF App!Validate, Checked
  <1>2. CASE App!Fails /\ phase \in {"tables", "cache", "limiter"}
    BY <1>2, <1>s, <1>w DEF App!Fails, Checked
  <1>3. CASE App!CreateTables
    <2>1. CASE App!Fails
      BY <2>1, <1>2, <1>3 DEF App!CreateTables
    <2>2. CASE /\ phase = "tables" /\ phase' = "cache"
               /\ UNCHANGED <<settings, registered, open, ready, manager, warned, leaked>>
      BY <2>2, <1>s, <1>w DEF Checked
    <2>3. QED
      BY <2>1, <2>2, <1>3 DEF App!CreateTables
  <1>4. CASE App!InitializeCache
    <2>1. CASE App!Register("cache", settings.cache, settings.cacheBackend, "limiter")
      BY <2>1, <1>4, <1>s, <1>w DEF App!InitializeCache, App!Register, Checked, App!Service
    <2>2. QED
      BY <2>1, <1>2, <1>4 DEF App!InitializeCache
  <1>5. CASE App!InitializeRateLimiter
    <2>1. CASE App!Register("limiter", settings.limiter, settings.limiterBackend, "ready")
      BY <2>1, <1>5, <1>s, <1>w, <1>b DEF App!InitializeRateLimiter, App!Register, Checked, App!Service
    <2>2. QED
      BY <2>1, <1>2, <1>5 DEF App!InitializeRateLimiter
  <1>6. CASE App!Serve
    BY <1>6, <1>s, <1>w DEF App!Serve, Checked
  <1>7. CASE App!CloseCache
    BY <1>7, <1>s, <1>w DEF App!CloseCache, Checked
  <1>8. CASE App!CloseRateLimiter
    BY <1>8, <1>s, <1>w DEF App!CloseRateLimiter, Checked
  <1>9. CASE App!BuildManager
    BY <1>9, <1>s, <1>w DEF App!BuildManager, Checked, App!Service
  <1>10. CASE App!Stop
    BY <1>10, <1>s, <1>w DEF App!Stop, Checked
  <1>. QED
    BY <1>1, <1>3, <1>4, <1>5, <1>6, <1>7, <1>8, <1>9, <1>10 DEF App!StartOrClose

-----------------------------------------------------------------------------
(* Requests.                                                               *)

LEMMA InForceTyped ==
  ASSUME Rules!TypeOK, NEW t, NEW x
  PROVE  Rules!InForce(rules, t, x) \subseteq Limit \cup {Default}
  BY DEF Rules!TypeOK, Rules!InForce, Rules!Rule

\* A request without a tier is one that the default limit is in force for.
LEMMA DefaultInForce ==
  ASSUME Rules!TypeOK, NEW x
  PROVE  Rules!InForce(rules, None, x) = {Default}
  BY RulesAssumption DEF Rules!TypeOK, Rules!InForce, Rules!Rule, Rules!Given

LEMMA IdleSound == Rules!Idle \in Rules!Request /\ Sound(Rules!Idle)
  BY DEF Rules!Idle, Rules!Request, Rules!Nothing, Rules!Values, Sound

LEMMA InitRequests == ASSUME Rules!Init PROVE RequestInv
  <1>1. rules \in [RuleId -> Rules!Rule \cup {None}] /\ started \in 0..MaxRequests
    BY RulesAssumption DEF Rules!Init, Rules!Given
  <1>2. QED
    BY <1>1, IdleSound DEF Rules!Init, RequestInv, Rules!TypeOK

\* A request that begins, or goes on, without a change of the rules.
LEMMA BeginKeeps ==
  ASSUME RequestInv, NEW p \in Proc, NEW r \in Rules!Request, Sound(r), Rules!Begin(p, r)
  PROVE  RequestInv'
  BY RulesAssumption DEF RequestInv, Rules!TypeOK, Rules!Begin, Sound, Rules!Given

LEMMA AdvanceKeeps ==
  ASSUME RequestInv, NEW p \in Proc, NEW r \in Rules!Request, Sound(r), Rules!Advance(p, r)
  PROVE  RequestInv'
  BY DEF RequestInv, Rules!TypeOK, Rules!Advance, Sound

\* A row is stored: every check in flight sees what is in force then.
LEMMA StoreKeeps ==
  ASSUME RequestInv, NEW p \in Proc, NEW r \in RuleId, NEW row \in Rules!Rule \cup {None},
         Rules!Store(p, r, row)
  PROVE  RequestInv'
  <1>1. rules' \in [RuleId -> Rules!Rule \cup {None}] /\ started' = started
    BY DEF RequestInv, Rules!TypeOK, Rules!Store
  <1>2. ASSUME NEW t, NEW x PROVE Rules!InForce(rules', t, x) \subseteq Limit \cup {Default}
    BY <1>1 DEF Rules!InForce, Rules!Rule
  <1>3. ASSUME NEW q \in Proc PROVE req'[q] \in Rules!Request /\ Sound(req[q])'
    <2>1. req[q] \in Rules!Request /\ Sound(req[q])
      BY DEF RequestInv, Rules!TypeOK
    <2>2. CASE q = p \/ req[q].op # "check"
      BY <2>1, <2>2, IdleSound DEF Rules!Store, RequestInv, Rules!TypeOK, Sound, Rules!Idle
    <2>3. CASE q # p /\ req[q].op = "check"
      <3>1. req'[q] = [req[q] EXCEPT !.seen = @ \cup Rules!InForce(rules', req[q].tier, req[q].path)]
        BY <2>3 DEF Rules!Store, RequestInv, Rules!TypeOK
      <3>2. QED
        BY <3>1, <2>1, <2>3, <1>2 DEF Rules!Request, Sound
    <2>4. QED
      BY <2>2, <2>3
  <1>4. QED
    BY <1>1, <1>3 DEF RequestInv, Rules!TypeOK, Rules!Store

LEMMA AskKeeps ==
  ASSUME RequestInv, NEW p \in Proc, Rules!Ask(p)
  PROVE  RequestInv'
  <1>1. CASE Rules!AskCheck(p)
    <2>1. PICK t \in Tier \cup {None}, x \in Path :
              Rules!Begin(p, [Rules!Idle EXCEPT !.op = "check", !.pc = "wait", !.tier = t, !.path = x,
                                               !.seen = Rules!InForce(rules, t, x)])
      BY <1>1 DEF Rules!AskCheck
    <2>2. Rules!InForce(rules, t, x) \subseteq Limit \cup {Default}
      BY InForceTyped DEF RequestInv
    <2>3. QED
      BY <2>1, <2>2, BeginKeeps, IdleSound DEF Rules!Idle, Rules!Request, Sound
  <1>2. CASE Rules!AskCreate(p)
    BY <1>2, BeginKeeps, IdleSound, RulesAssumption
    DEF Rules!AskCreate, Rules!Idle, Rules!Request, Rules!Rule, Sound, Rules!Given
  <1>3. CASE Rules!AskUpdate(p)
    BY <1>3, BeginKeeps, IdleSound, RulesAssumption
    DEF Rules!AskUpdate, Rules!Idle, Rules!Request, Sound, Rules!Given
  <1>4. CASE Rules!AskDelete(p)
    BY <1>4, BeginKeeps, IdleSound DEF Rules!AskDelete, Rules!Idle, Rules!Request, Sound
  <1>5. QED
    BY <1>1, <1>2, <1>3, <1>4 DEF Rules!Ask

LEMMA StepKeeps ==
  ASSUME RequestInv, NEW p \in Proc, Rules!Step(p)
  PROVE  RequestInv'
  <1>. DEFINE r == req[p]
  <1>r. /\ r \in Rules!Request /\ Sound(r) /\ Rules!TypeOK
        /\ rules \in [RuleId -> Rules!Rule \cup {None}]
    BY DEF RequestInv, Rules!TypeOK
  <1>a. ASSUME Rules!Answer(p) PROVE RequestInv'
    BY <1>a, AdvanceKeeps, IdleSound DEF Rules!Answer
  <1>1. CASE Rules!Wait(p)
    <2>1. r.pc = "wait"
      BY <1>1 DEF Rules!Wait
    <2>2. ASSUME r.tier = None, Rules!Advance(p, [req[p] EXCEPT !.pc = "charge", !.limit = Default])
          PROVE  RequestInv'
      <3>. DEFINE n == [req[p] EXCEPT !.pc = "charge", !.limit = Default]
      <3>1. n \in Rules!Request
        BY <1>r DEF Rules!Request
      <3>2. r.op = "check" /\ Default \in r.seen
        BY <2>1, <2>2, <1>r, DefaultInForce DEF Sound
      <3>3. Sound(n)
        BY <3>2, <1>r DEF Rules!Request, Sound
      <3>4. QED
        BY <3>1, <3>3, <2>2, AdvanceKeeps
    <2>3. ASSUME Rules!Advance(p, [req[p] EXCEPT !.pc = "rule"])
          PROVE  RequestInv'
      <3>. DEFINE n == [req[p] EXCEPT !.pc = "rule"]
      <3>1. n \in Rules!Request
        BY <1>r DEF Rules!Request
      <3>2. Sound(n)
        BY <2>1, <1>r DEF Rules!Request, Sound
      <3>3. QED
        BY <3>1, <3>2, <2>3, AdvanceKeeps
    <2>4. QED
      BY <1>1, <2>2, <2>3 DEF Rules!Wait
  <1>2. CASE Rules!Resolve(p)
    <2>1. ASSUME Rules!Matching(r.tier, r.path) = {}
          PROVE  Rules!InForce(rules, r.tier, r.path) = {Default}
      BY <2>1, <1>r DEF Rules!Matching, Rules!InForce, Rules!Exists
    <2>2. ASSUME NEW s \in Rules!Matching(r.tier, r.path)
          PROVE  rules[s].limit \in Rules!InForce(rules, r.tier, r.path) \cap Limit
      BY <2>2, <1>r DEF Rules!Matching, Rules!InForce, Rules!Exists, Rules!Rule
    <2>3. CASE Rules!Matching(r.tier, r.path) = {}
      <3>. DEFINE n == [req[p] EXCEPT !.pc = "charge", !.limit = Default]
      <3>1. r.pc = "rule" /\ Rules!Advance(p, n)
        BY <1>2, <2>3 DEF Rules!Resolve
      <3>2. n \in Rules!Request
        BY <1>r DEF Rules!Request
      <3>3. Sound(n)
        BY <2>1, <2>3, <3>1, <1>r DEF Rules!Request, Sound
      <3>4. QED
        BY <3>1, <3>2, <3>3, AdvanceKeeps
    <2>4. ASSUME NEW s \in Rules!Matching(r.tier, r.path), r.pc = "rule",
                 Rules!Advance(p, [req[p] EXCEPT !.pc = "charge", !.limit = rules[s].limit])
          PROVE  RequestInv'
      <3>. DEFINE n == [req[p] EXCEPT !.pc = "charge", !.limit = rules[s].limit]
      <3>1. n \in Rules!Request
        BY <2>2, <1>r DEF Rules!Request
      <3>2. Sound(n)
        BY <2>2, <2>4, <1>r DEF Rules!Request, Sound
      <3>3. QED
        BY <3>1, <3>2, <2>4, AdvanceKeeps
    <2>5. QED
      BY <2>3, <2>4, <1>2 DEF Rules!Resolve
  <1>3. CASE Rules!Charge(p)
    BY <1>3, <1>a DEF Rules!Charge
  <1>4. CASE Rules!Insert(p)
    BY <1>4, <1>a, <1>r, StoreKeeps DEF Rules!Insert, Rules!Exists, Sound
  <1>5. CASE Rules!Find(p)
    <2>1. ASSUME NEW s \in Rules!Named(r.name), r.pc = "find", NEW c \in {"unique", "write"},
                 Rules!Advance(p, [req[p] EXCEPT !.found = s, !.pc = c])
          PROVE  RequestInv'
      <3>. DEFINE n == [req[p] EXCEPT !.found = s, !.pc = c]
      <3>1. n \in Rules!Request
        BY <2>1, <1>r DEF Rules!Request, Rules!Named, Rules!Exists
      <3>2. Sound(n)
        BY <2>1, <1>r DEF Rules!Request, Sound
      <3>3. QED
        BY <3>1, <3>2, <2>1, AdvanceKeeps
    <2>2. QED
      BY <2>1, <1>5, <1>a DEF Rules!Find
  <1>6. CASE Rules!Unique(p)
    BY <1>6, <1>a, <1>r, AdvanceKeeps DEF Rules!Unique, Rules!Request, Sound
  <1>7. CASE Rules!Update(p)
    <2>1. ASSUME NEW s \in Rules!Named(r.name), r.op = "update"
          PROVE  Rules!Changed(rules[s], r.values) \in Rules!Rule
      BY <2>1, <1>r DEF Rules!Named, Rules!Exists, Rules!Changed, Rules!Rule, Rules!Values, Sound
    <2>2. QED
      BY <2>1, <1>7, <1>a, StoreKeeps DEF Rules!Update, Rules!Named, Rules!Exists
  <1>8. CASE Rules!Delete(p)
    BY <1>8, <1>a, StoreKeeps DEF Rules!Delete, Rules!Named, Rules!Exists
  <1>9. QED
    BY <1>1, <1>2, <1>3, <1>4, <1>5, <1>6, <1>7, <1>8 DEF Rules!Step

-----------------------------------------------------------------------------
(* The process and its requests together.                                  *)

LEMMA InitIInv == ASSUME Init PROVE IInv
  BY InitProcess, InitRequests DEF Init, IInv, Charged, Rules!Init, Rules!Idle

\* The lifespan never takes the event back or changes the settings.
LEMMA ProcessMoves ==
  ASSUME App!TypeOK, App!StartOrClose \/ App!BuildManager \/ App!Stop
  PROVE  settings' = settings /\ (ready => ready')
  BY DEF App!TypeOK, App!StartOrClose, App!Validate, App!CreateTables, App!InitializeCache,
     App!InitializeRateLimiter, App!Register, App!Fails, App!Serve, App!CloseCache,
     App!CloseRateLimiter, App!BuildManager, App!Stop

\* While the lifespan moves, the requests do not.
LEMMA ProcessKeeps ==
  ASSUME IInv, App!StartOrClose \/ App!BuildManager \/ App!Stop, UNCHANGED requests
  PROVE  IInv'
  <1>1. ProcessInv'
    BY ProcessStep DEF IInv
  <1>2. RequestInv'
    BY DEF IInv, RequestInv, requests, Rules!TypeOK, Sound
  <1>3. Charged'
    BY ProcessMoves DEF IInv, ProcessInv, Charged, requests
  <1>4. QED
    BY <1>1, <1>2, <1>3 DEF IInv

\* A process that stays as it is keeps its invariant.
LEMMA ProcessStays == ASSUME ProcessInv, UNCHANGED process PROVE ProcessInv'
  <1>1. /\ settings' = settings /\ phase' = phase /\ registered' = registered /\ open' = open
        /\ ready' = ready /\ manager' = manager /\ warned' = warned /\ leaked' = leaked
    BY DEF process
  <1>2. App!Warnings' = App!Warnings /\ App!Critical' = App!Critical
    BY <1>1, SameConclusions
  <1>3. Checked'
    BY <1>1, <1>2 DEF ProcessInv, Checked
  <1>4. (App!TypeOK /\ ClosesWhatItOpened)'
    BY <1>1 DEF ProcessInv, App!TypeOK, ClosesWhatItOpened, App!ClosesWhatItOpened
  <1>5. (Registered /\ Opened /\ Built)'
    BY <1>1 DEF ProcessInv, Registered, Opened, Built
  <1>6. (LimiterStarted /\ App!LoginsThrottled)'
    BY <1>1 DEF ProcessInv, LimiterStarted, App!LoginsThrottled
  <1>7. QED
    BY <1>3, <1>4, <1>5, <1>6 DEF ProcessInv

\* Requests come when the limiter is on, and resolve their limit after the event.
LEMMA BeginCharged ==
  ASSUME IInv, settings.limiter, NEW p \in Proc, NEW r, Rules!Begin(p, r), r.pc \notin {"rule", "charge"},
         UNCHANGED process
  PROVE  Charged'
  <1>1. settings' = settings /\ ready' = ready
    BY DEF process
  <1>2. req \in [Proc -> Rules!Request] /\ req' = [req EXCEPT ![p] = r]
    BY DEF IInv, RequestInv, Rules!TypeOK, Rules!Begin
  <1>3. QED
    BY <1>1, <1>2 DEF Charged, IInv

LEMMA ArriveCharged ==
  ASSUME IInv, Arrive
  PROVE  Charged'
  <1>1. PICK p \in Proc : Rules!Ask(p)
    BY DEF Arrive
  <1>2. settings.limiter /\ UNCHANGED process
    BY DEF Arrive
  <1>3. CASE Rules!AskCheck(p)
    BY <1>2, <1>3, BeginCharged DEF Rules!AskCheck, Rules!Idle
  <1>4. CASE Rules!AskCreate(p)
    BY <1>2, <1>4, BeginCharged DEF Rules!AskCreate, Rules!Idle
  <1>5. CASE Rules!AskUpdate(p)
    BY <1>2, <1>5, BeginCharged DEF Rules!AskUpdate, Rules!Idle
  <1>6. CASE Rules!AskDelete(p)
    BY <1>2, <1>6, BeginCharged DEF Rules!AskDelete, Rules!Idle
  <1>7. QED
    BY <1>1, <1>3, <1>4, <1>5, <1>6 DEF Rules!Ask

LEMMA WorkCharged ==
  ASSUME IInv, Work
  PROVE  Charged'
  <1>1. PICK p \in Proc : Rules!Step(p)
    BY DEF Work
  <1>2. settings.limiter
    <2>1. req[p].pc # "idle"
      BY <1>1 DEF Rules!Step, Rules!Wait, Rules!Resolve, Rules!Charge, Rules!Insert, Rules!Find,
         Rules!Unique, Rules!Update, Rules!Delete
    <2>2. req[p] # Rules!Idle
      BY <2>1 DEF Rules!Idle
    <2>3. QED
      BY <2>2 DEF IInv, Charged
  <1>3. ASSUME NEW q \in Proc, req'[q].pc \in {"rule", "charge"} PROVE ready
    <2>1. req \in [Proc -> Rules!Request]
      BY DEF IInv, RequestInv, Rules!TypeOK
    <2>2. CASE Rules!Wait(p) \/ Rules!Resolve(p)
      BY <2>2 DEF Rules!Wait, Rules!Resolve, IInv, Charged
    <2>3. CASE Rules!Charge(p) \/ Rules!Unique(p) \/ Rules!Find(p)
      <3>1. req'[q] = req[q] \/ req'[q].pc \in {"idle", "unique", "write"}
        <4>1. CASE Rules!Charge(p)
          BY <2>1, <4>1 DEF Rules!Charge, Rules!Answer, Rules!Advance, Rules!Idle
        <4>2. CASE Rules!Unique(p)
          BY <2>1, <4>2 DEF Rules!Unique, Rules!Answer, Rules!Advance, Rules!Idle, Rules!Request
        <4>3. CASE Rules!Find(p)
          <5>1. ASSUME Rules!Answer(p) PROVE req'[q] = req[q] \/ req'[q].pc = "idle"
            BY <2>1, <5>1 DEF Rules!Answer, Rules!Advance, Rules!Idle
          <5>2. ASSUME NEW s, NEW c \in {"unique", "write"},
                       Rules!Advance(p, [req[p] EXCEPT !.found = s, !.pc = c])
                PROVE  req'[q] = req[q] \/ req'[q].pc = c
            BY <2>1, <5>2 DEF Rules!Advance, Rules!Request
          <5>3. QED
            BY <5>1, <5>2, <4>3 DEF Rules!Find
        <4>4. QED
          BY <2>3, <4>1, <4>2, <4>3
      <3>2. QED
        BY <3>1, <1>3 DEF IInv, Charged
    <2>4. CASE Rules!Insert(p) \/ Rules!Update(p) \/ Rules!Delete(p)
      <3>1. CASE Rules!Answer(p)
        BY <2>1, <3>1, <1>3 DEF Rules!Answer, Rules!Advance, Rules!Idle, IInv, Charged
      <3>2. ASSUME NEW s, NEW row, Rules!Store(p, s, row) PROVE ready
        BY <2>1, <3>2, <1>3 DEF Rules!Store, Rules!Idle, IInv, Charged, Rules!Request
      <3>3. QED
        BY <2>4, <3>1, <3>2 DEF Rules!Insert, Rules!Update, Rules!Delete
    <2>5. QED
      BY <1>1, <2>2, <2>3, <2>4 DEF Rules!Step
  <1>4. QED
    BY <1>2, <1>3 DEF Charged, Work, process

LEMMA NextIInv == ASSUME IInv, [Next]_vars PROVE IInv'
  <1>1. CASE Arrive
    BY <1>1, AskKeeps, ProcessStays, ArriveCharged DEF Arrive, IInv
  <1>2. CASE Work
    BY <1>2, StepKeeps, ProcessStays, WorkCharged DEF Work, IInv
  <1>3. CASE Start \/ FirstUse \/ ShutDown
    BY <1>3, ProcessKeeps DEF Start, FirstUse, ShutDown
  <1>4. CASE UNCHANGED vars
    BY <1>4, ProcessStays DEF vars, requests, process, IInv, RequestInv, Charged, Rules!TypeOK, Sound
  <1>5. QED
    BY <1>1, <1>2, <1>3, <1>4 DEF Next, Gone

THEOREM Invariance == Spec => []IInv
  BY InitIInv, NextIInv, PTL DEF Spec

-----------------------------------------------------------------------------
\* Every variable of the process and of its requests keeps its type.
THEOREM TypeCorrect == Spec => []TypeOK
  <1>1. IInv => TypeOK
    BY DEF IInv, ProcessInv, RequestInv, TypeOK
  <1>2. QED
    BY <1>1, Invariance, PTL

\* A production process serves with checked settings: nothing critical, and a database
\* shared by two services only with a warning.
THEOREM ServesChecked == Spec => []ProductionIsChecked
  <1>1. ASSUME IInv, phase = "serving", settings.environment = "production", settings.validation
        PROVE  /\ "secret" \notin settings.weak
               /\ settings.password \in App!Password => settings.password = "own"
               /\ App!InstanceShared => "shared" \in warned
    <2>1. ~App!Critical /\ warned = App!Warnings
      BY <1>1 DEF IInv, ProcessInv, Checked
    <2>2. QED
      BY <2>1 DEF App!Critical, App!InsecureSecretKey, App!DefaultCredentials, App!EmptyPassword,
         App!Warnings, App!RedisWarnings, App!Password
  <1>2. ASSUME IInv PROVE settings.password \in App!Password /\ open \subseteq {"cache", "limiter", "sessions"}
    BY <1>2, SettingsAssumption DEF IInv, ProcessInv, App!TypeOK, App!Service, App!Configuration
  <1>3. ASSUME IInv PROVE manager # "none" => settings.sessionBackend = "redis"
    BY <1>3 DEF IInv, ProcessInv, Built
  <1>. DEFINE backend == [cache |-> settings.cacheBackend, limiter |-> settings.limiterBackend,
                          sessions |-> settings.sessionBackend]
              database == [cache |-> settings.cacheDb, limiter |-> settings.limiterDb,
                           sessions |-> settings.cacheDb]
  <1>4. ASSUME NEW x \in {"cache", "limiter", "sessions"}, NEW y \in {"cache", "limiter", "sessions"},
               x # y, backend[x] = "redis", backend[y] = "redis", database[x] = database[y]
        PROVE  App!InstanceShared
    <2>1. App!RedisConfigurations = [z \in {u \in App!Service : backend[u] = "redis"} |-> database[z]]
      BY DEF App!RedisConfigurations
    <2>2. x \in DOMAIN App!RedisConfigurations /\ y \in DOMAIN App!RedisConfigurations
      BY <2>1, <1>4 DEF App!Service
    <2>3. App!RedisConfigurations[x] = database[x] /\ App!RedisConfigurations[y] = database[y]
      BY <2>1, <1>4 DEF App!Service
    <2>4. QED
      BY <2>2, <2>3, <1>4 DEF App!InstanceShared
  <1>5. ASSUME IInv PROVE ProductionIsChecked
    BY <1>1, <1>2, <1>3, <1>4, <1>5 DEF ProductionIsChecked, App!ProductionIsChecked, App!DatabasePassword
  <1>6. QED
    BY <1>5, Invariance, PTL

\* However start-up or serving ended, the cache and the limiter are closed in the end.
THEOREM Closes == Spec => []ClosesWhatItOpened
  <1>1. IInv => ClosesWhatItOpened
    BY DEF IInv, ProcessInv
  <1>2. QED
    BY <1>1, Invariance, PTL

\* No request is charged, and no session manager built, before the limiter is there.
THEOREM ReadyInTime == Spec => []LimiterReady
  <1>1. IInv => LimiterReady
    BY DEF IInv, ProcessInv, RequestInv, Sound, Charged, LimiterStarted, LimiterReady, Rules!Idle
  <1>2. QED
    BY <1>1, Invariance, PTL

\* A request is charged a limit that was in force for it at some moment of its life.
THEOREM ChargedInForce == Spec => []LimitInForce
  <1>1. IInv => LimitInForce
    BY DEF IInv, RequestInv, Sound, LimitInForce, Rules!LimitInForce
  <1>2. QED
    BY <1>1, Invariance, PTL

-----------------------------------------------------------------------------
\* The steps the lifespan has left, and the server's stop, from each phase on.
PhasesLeft(ph) == CASE ph = "validate"      -> 8
                    [] ph = "tables"        -> 7
                    [] ph = "cache"         -> 6
                    [] ph = "limiter"       -> 5
                    [] ph = "ready"         -> 4
                    [] ph = "serving"       -> 3
                    [] ph = "close cache"   -> 2
                    [] ph = "close limiter" -> 1
                    [] ph = "stopped"       -> 0

LEMMA PhasesLeftIs ==
  /\ PhasesLeft("validate") = 8 /\ PhasesLeft("tables") = 7 /\ PhasesLeft("cache") = 6
  /\ PhasesLeft("limiter") = 5 /\ PhasesLeft("ready") = 4 /\ PhasesLeft("serving") = 3
  /\ PhasesLeft("close cache") = 2 /\ PhasesLeft("close limiter") = 1 /\ PhasesLeft("stopped") = 0
  BY DEF PhasesLeft

\* The lifespan never goes back, whichever of its steps fails: each of its steps, and
\* the stop of the server, leaves fewer to come, and nothing else touches the phase.
\* So start-up and shut-down end after eight steps at most (app_factory.py retries nothing).
THEOREM OnlyForward ==
  Spec => [][Start \/ phase' # phase => PhasesLeft(phase') \in 0..(PhasesLeft(phase) - 1)]_vars
  <1>. DEFINE Forward == PhasesLeft(phase') \in 0..(PhasesLeft(phase) - 1)
  <1>1. ASSUME App!StartOrClose PROVE Forward
    <2>1. ASSUME App!Validate PROVE PhasesLeft(phase) = 8 /\ PhasesLeft(phase') \in {7, 0}
      BY <2>1, PhasesLeftIs DEF App!Validate
    <2>2. ASSUME App!CreateTables PROVE PhasesLeft(phase) = 7 /\ PhasesLeft(phase') \in {6, 2}
      BY <2>2, PhasesLeftIs DEF App!CreateTables, App!Fails
    <2>3. ASSUME App!InitializeCache PROVE PhasesLeft(phase) = 6 /\ PhasesLeft(phase') \in {5, 2}
      BY <2>3, PhasesLeftIs DEF App!InitializeCache, App!Register, App!Fails
    <2>4. ASSUME App!InitializeRateLimiter PROVE PhasesLeft(phase) = 5 /\ PhasesLeft(phase') \in {4, 2}
      BY <2>4, PhasesLeftIs DEF App!InitializeRateLimiter, App!Register, App!Fails
    <2>5. ASSUME App!Serve PROVE PhasesLeft(phase) = 4 /\ PhasesLeft(phase') = 3
      BY <2>5, PhasesLeftIs DEF App!Serve
    <2>6. ASSUME App!CloseCache PROVE PhasesLeft(phase) = 2 /\ PhasesLeft(phase') \in {1, 0}
      BY <2>6, PhasesLeftIs DEF App!CloseCache
    <2>7. ASSUME App!CloseRateLimiter PROVE PhasesLeft(phase) = 1 /\ PhasesLeft(phase') = 0
      BY <2>7, PhasesLeftIs DEF App!CloseRateLimiter
    <2>8. QED
      BY <1>1, <2>1, <2>2, <2>3, <2>4, <2>5, <2>6, <2>7 DEF App!StartOrClose
  <1>2. ASSUME App!Stop PROVE Forward
    <2>1. PhasesLeft(phase) = 3
      BY <1>2, PhasesLeftIs DEF App!Stop
    <2>2. PhasesLeft(phase') = 2
      BY <1>2, PhasesLeftIs DEF App!Stop
    <2>3. QED
      BY <2>1, <2>2
  <1>3. [Next]_vars => (Start \/ phase' # phase => Forward)
    BY <1>1, <1>2 DEF Next, Arrive, Work, Start, FirstUse, ShutDown, Gone, App!BuildManager, vars, process
  <1>4. \A ph : PhasesLeft(ph)' = PhasesLeft(ph)
    BY DEF PhasesLeft
  <1>5. QED
    BY <1>3, PTL DEF Spec
=============================================================================
