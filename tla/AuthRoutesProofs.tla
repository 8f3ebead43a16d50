-------------------------- MODULE AuthRoutesProofs --------------------------
(***************************************************************************)
(* Proofs about AuthRoutes, for any number of requests of the browser, of  *)
(* sessions, tokens and states, and any timeouts: its types, that a        *)
(* browser which waits for its answers holds a session and a token that    *)
(* belong together, and that an OAuth state opens nothing once it was used. *)
(***************************************************************************)
EXTENDS AuthRoutes, TLAPS

\* The operations each await belongs to.
OpOf == [remember |-> {"google"}, state |-> {"callback"}, exchange |-> {"callback"},
         create |-> {"login", "callback"}, issue |-> {"login", "callback", "refresh"},
         forget |-> {"callback"}, validate |-> {"page", "change", "refresh", "logout"},
         csrf |-> {"change"}, user |-> {"change"}, end |-> {"logout"}, reply |-> Op]

\* The request has drawn a token of its session: it is to be answered with it.
Holds(r) == r.pc = "forget" \/ (r.pc = "reply" /\ r.ok /\ r.op \in {"login", "callback", "refresh"})

\* The cookies an answer may carry.
Dressed(r) ==
    \/ r.cookies = <<>>
    \/ r.pc = "reply" /\ r.cookies = ClearedCookies
    \/ Holds(r) /\ r.op # "refresh" /\ r.cookies = SessionCookies(r.sid, r.token)
    \/ Holds(r) /\ r.op = "refresh"
         /\ r.cookies = <<[name |-> "csrf_token", value |-> r.token, age |-> Timeout]>>

\* What the program counter of a request in flight says of its other fields.
Sound(r) ==
    /\ r.op \in OpOf[r.pc]
    /\ r.op \in {"google", "callback"} => r.state \in State
    /\ r.pc = "create" => r.user \in User /\ r.sid \in Sid
    /\ r.pc = "end" => r.sid \in Sid
    /\ r.pc = "issue" => r.sid \in Sid /\ r.cookies = <<>>
    /\ r.op = "refresh" /\ (r.pc = "issue" \/ Holds(r)) => r.sid # None
    /\ r.pc # "reply" => r.cookies = <<>>
    /\ Dressed(r)

RequestsSound == \A p \in Request : req[p].pc # "idle" => Sound(req[p])

\* The token a request holds is stored, for its session.
Own(t, s) == t \in Token /\ token[t] # None /\ token[t].session = s
TokensOwned == \A p \in Request : req[p].pc # "idle" /\ Holds(req[p]) => Own(req[p].token, req[p].sid)

\* While the browser is calm it has one request in flight, a refresh is one of the
\* session it holds, and its cookies belong together, expired or not.
Alone == calm => \A p, q \in Request : req[p].pc # "idle" /\ req[q].pc # "idle" => p = q
RefreshesOwn == calm => \A p \in Request : req[p].pc # "idle" /\ req[p].op = "refresh" =>
                            req[p].sid \in {None, jar["session_id"].value}
Paired == calm /\ jar["session_id"].value # None /\ jar["csrf_token"].value # None =>
              Own(jar["csrf_token"].value, jar["session_id"].value)
NeverGiven == Enveloped => jar["session_id"].value = None
JarInv == Alone /\ RefreshesOwn /\ Paired /\ NeverGiven

\* A state that was spent is not stored, and nobody is about to store it; one that is
\* to be stored is nobody else's.
OfState(r) == r.pc # "idle" /\ r.op \in {"google", "callback"}
SpentGone == \A x \in spent : state[x] = None
Remembering == \A p \in Request : req[p].pc = "remember" =>
    /\ req[p].state \notin spent /\ state[req[p].state] = None
    /\ \A q \in Request \ {p} : OfState(req[q]) => req[q].state # req[p].state
SuccessSpends == \A p \in Request :
    req[p].pc = "reply" /\ req[p].op = "callback" /\ req[p].ok => state[req[p].state] = None
ReplaysRefused == \A p \in Request : req[p].pc # "idle" /\ req[p].replay =>
    /\ req[p].op = "callback" /\ req[p].state \in spent
    /\ req[p].pc \in {"state", "reply"} /\ req[p].sid = None
StateInv == SpentGone /\ Remembering /\ SuccessSpends /\ ReplaysRefused

IInv == TypeOK /\ RequestsSound /\ TokensOwned /\ JarInv /\ StateInv

-----------------------------------------------------------------------------
(* Requests and cookies.                                                   *)

LEMMA InFlight ==
    ASSUME TypeOK, NEW p \in Request, req[p].pc # "idle"
    PROVE  req[p] \in Flight /\ req[p].pc \in PC
  BY DEF TypeOK, Flight, Idle, PC

LEMMA Ages ==
    ASSUME TypeOK
    PROVE  /\ now \in Nat /\ now <= MaxTime /\ Timeout \in Nat /\ CookieAge \in Nat /\ StateAge \in Nat
           /\ Timeout \in Horizon /\ CookieAge \in Horizon /\ 0 \in Horizon /\ now \in Horizon
           /\ now + Timeout \in Horizon /\ now + StateAge \in Horizon /\ now + CookieAge \in Horizon
  BY AgeAssumption, BoundAssumption DEF TypeOK, Horizon

LEMMA ObeyedNothing ==
    ASSUME TypeOK, NEW n \in {"session_id", "csrf_token"}
    PROVE  Obeyed(<<>>)[n] = jar[n]
  BY DEF Obeyed, TypeOK

LEMMA ObeyedOne ==
    ASSUME TypeOK, NEW t, NEW a
    PROVE  LET c == <<[name |-> "csrf_token", value |-> t, age |-> a]>>
           IN  /\ Obeyed(c)["session_id"] = jar["session_id"]
               /\ Obeyed(c)["csrf_token"] = [value |-> t, until |-> now + a]
  BY DEF Obeyed, TypeOK

LEMMA ObeyedTwo ==
    ASSUME TypeOK, NEW s, NEW t, NEW a
    PROVE  LET c == <<[name |-> "session_id", value |-> s, age |-> a],
                      [name |-> "csrf_token", value |-> t, age |-> a]>>
           IN  /\ Obeyed(c)["session_id"] = [value |-> s, until |-> now + a]
               /\ Obeyed(c)["csrf_token"] = [value |-> t, until |-> now + a]
  <1>. DEFINE c == <<[name |-> "session_id", value |-> s, age |-> a],
                     [name |-> "csrf_token", value |-> t, age |-> a]>>
              mine(n) == {i \in DOMAIN c : c[i].name = n}
              last(n) == CHOOSE i \in mine(n) : \A j \in mine(n) : j <= i
  <1>1. mine("session_id") = {1} /\ mine("csrf_token") = {2}
    OBVIOUS
  <1>2. last("session_id") = 1 /\ last("csrf_token") = 2
    BY <1>1
  <1>3. c[1] = [name |-> "session_id", value |-> s, age |-> a] /\ c[2] = [name |-> "csrf_token", value |-> t, age |-> a]
    OBVIOUS
  <1>4. DOMAIN jar = {"session_id", "csrf_token"}
    BY DEF TypeOK
  <1>5. \A n \in DOMAIN jar : mine(n) # {} => Obeyed(c)[n] = [value |-> c[last(n)].value, until |-> now + c[last(n)].age]
    BY Zenon DEF Obeyed
  <1>6. QED
    <2>. HIDE DEF c
    <2>1. /\ Obeyed(c)["session_id"] = [value |-> c[1].value, until |-> now + c[1].age]
          /\ Obeyed(c)["csrf_token"] = [value |-> c[2].value, until |-> now + c[2].age]
      BY <1>1, <1>2, <1>4, <1>5
    <2>2. QED
      BY <2>1, <1>3 DEF c

-----------------------------------------------------------------------------
(* A request moves on, the browser learns nothing.                         *)

\* Token records are never replaced: a token stays its session's.
TokensKept == \A t \in Token : token[t] # None => token'[t] # None /\ token'[t].session = token[t].session

\* Request p becomes r, still in flight.
Moves(p, r) ==
    /\ req[p].pc # "idle" /\ r \in Flight /\ req' = [req EXCEPT ![p] = r]
    /\ UNCHANGED <<jar, known, spent, calm>>
    /\ r.op = req[p].op /\ r.state = req[p].state /\ r.replay = req[p].replay
    /\ r.op = "refresh" => r.sid = req[p].sid
    /\ Sound(r)

\* What it means to the states: at most the one of r is changed, to be remembered when
\* it is not spent, or to be dropped.
StatesMove(p, r) ==
    /\ r.pc # "remember"
    /\ r.replay => r.pc = "reply" /\ r.sid = None
    /\ \A x \in State : state'[x] # state[x] => OfState(req[p]) /\ x = r.state
    /\ req[p].pc = "remember" \/ state' = state \/ state'[r.state] = None
    /\ r.pc = "reply" /\ r.op = "callback" /\ r.ok => state'[r.state] = None

LEMMA MoveSound ==
    ASSUME IInv, NEW p \in Request, NEW r, Moves(p, r)
    PROVE  RequestsSound'
  <1>. SUFFICES ASSUME NEW q \in Request, req'[q].pc # "idle" PROVE Sound(req[q])'
    BY DEF RequestsSound
  <1>1. CASE q = p
    BY <1>1 DEF Moves, IInv, TypeOK, Sound, Dressed, Holds
  <1>2. CASE q # p
    <2>1. req'[q] = req[q] /\ Sound(req[q])
      BY <1>2 DEF Moves, IInv, TypeOK, RequestsSound
    <2>. QED BY <2>1 DEF Sound, Dressed, Holds
  <1>. QED BY <1>1, <1>2

LEMMA MoveTokens ==
    ASSUME IInv, NEW p \in Request, NEW r, Moves(p, r), TokensKept,
           Holds(r) => r.token \in Token /\ token'[r.token] # None /\ token'[r.token].session = r.sid
    PROVE  TokensOwned'
  <1>. SUFFICES ASSUME NEW q \in Request, req'[q].pc # "idle", Holds(req'[q])
                PROVE  Own(req[q].token, req[q].sid)'
    BY DEF TokensOwned, Holds
  <1>1. CASE q = p
    <2>1. req'[q] = r  BY <1>1 DEF Moves, IInv, TypeOK
    <2>. QED BY <2>1 DEF Own
  <1>2. CASE q # p
    <2>1. req'[q] = req[q]  BY <1>2 DEF Moves, IInv, TypeOK
    <2>. QED BY <2>1 DEF IInv, TokensOwned, Own, TokensKept
  <1>. QED BY <1>1, <1>2

LEMMA MoveJar ==
    ASSUME IInv, NEW p \in Request, NEW r, Moves(p, r), TokensKept
    PROVE  JarInv'
  <1>1. \A q \in Request : q # p => req'[q] = req[q]
    BY DEF Moves, IInv, TypeOK
  <1>2. req'[p] = r /\ r.op = req[p].op /\ (r.op = "refresh" => r.sid = req[p].sid) /\ req[p].pc # "idle"
    BY DEF Moves, IInv, TypeOK
  <1>3. Alone'
    BY <1>1, <1>2 DEF IInv, JarInv, Alone, Moves
  <1>4. RefreshesOwn'
    BY <1>1, <1>2 DEF IInv, JarInv, RefreshesOwn, Moves
  <1>5. Paired'
    BY DEF IInv, JarInv, Paired, Own, TokensKept, Moves
  <1>6. NeverGiven'
    BY DEF IInv, JarInv, NeverGiven, Moves
  <1>. QED BY <1>3, <1>4, <1>5, <1>6 DEF JarInv

LEMMA MoveStates ==
    ASSUME IInv, NEW p \in Request, NEW r, Moves(p, r), StatesMove(p, r)
    PROVE  StateInv'
  <1>1. \A q \in Request : q # p => req'[q] = req[q]
    BY DEF Moves, IInv, TypeOK
  <1>2. /\ req'[p] = r /\ r.op = req[p].op /\ r.state = req[p].state /\ r.replay = req[p].replay
        /\ req[p].pc # "idle" /\ r \in Flight /\ r.pc # "idle" /\ spent' = spent /\ Sound(req[p])
    BY DEF Moves, IInv, TypeOK, Flight, PC, RequestsSound
  <1>3. SpentGone'
    <2>. SUFFICES ASSUME NEW x \in spent PROVE state'[x] = None
      BY <1>2 DEF SpentGone
    <2>1. x \in State /\ state[x] = None  BY DEF IInv, TypeOK, StateInv, SpentGone
    <2>2. CASE req[p].pc = "remember"
      BY <2>1, <2>2, <1>2 DEF IInv, StateInv, Remembering, StatesMove
    <2>3. CASE req[p].pc # "remember"
      BY <2>1, <2>3, <1>2 DEF StatesMove
    <2>. QED BY <2>2, <2>3
  <1>4. Remembering'
    <2>1. \A q \in Request : req[q].pc = "remember" => OfState(req[q]) /\ req[q].state \in State
      BY DEF IInv, RequestsSound, Sound, OpOf, OfState
    <2>. QED BY <1>1, <1>2, <2>1 DEF IInv, StateInv, Remembering, StatesMove, OfState
  <1>5. SuccessSpends'
    <2>. SUFFICES ASSUME NEW q \in Request, req'[q].pc = "reply", req'[q].op = "callback", req'[q].ok
                  PROVE  state'[req'[q].state] = None
      BY DEF SuccessSpends
    <2>1. CASE q = p  BY <2>1, <1>2 DEF StatesMove
    <2>2. CASE q # p
      <3>1. req'[q] = req[q] /\ state[req[q].state] = None /\ req[q].state \in State /\ OfState(req[q])
        BY <1>1, <2>2 DEF IInv, StateInv, SuccessSpends, RequestsSound, Sound, OfState
      <3>2. CASE req[p].pc = "remember"
        BY <2>2, <3>1, <3>2, <1>2 DEF IInv, StateInv, Remembering, StatesMove
      <3>3. CASE req[p].pc # "remember"
        BY <3>1, <3>3, <1>2 DEF StatesMove
      <3>. QED BY <3>2, <3>3
    <2>. QED BY <2>1, <2>2
  <1>6. ReplaysRefused'
    BY <1>1, <1>2 DEF IInv, StateInv, ReplaysRefused, StatesMove
  <1>. QED BY <1>3, <1>4, <1>5, <1>6 DEF StateInv

-----------------------------------------------------------------------------
(* A request is sent.                                                      *)

LEMMA SendStep ==
    ASSUME IInv, NEW p \in Request, NEW r \in Flight, Send(p, r), Sound(r), ~Holds(r),
           r.op = "refresh" => r.sid \in {None, jar["session_id"].value},
           r.pc = "remember" =>
               r.state \notin spent /\ state[r.state] = None /\ \A q \in Request : OfState(req[q]) => req[q].state # r.state,
           r.op = "callback" => r.pc = "state" /\ (state[r.state] # None \/ r.state \in spent),
           OfState(r) /\ r.pc # "remember" =>
               \A q \in Request : req[q].pc = "remember" => req[q].state # r.state,
           r.replay => r.pc = "state" /\ r.op = "callback" /\ r.state \in spent /\ r.sid = None
    PROVE  IInv'
  <1>1. /\ req[p].pc = "idle" /\ req'[p] = r /\ \A q \in Request : q # p => req'[q] = req[q]
        /\ req' = [req EXCEPT ![p] = r]
        /\ UNCHANGED <<now, session, token, state, jar, known, spent, faults>>
        /\ calm' = (calm /\ \A q \in Request : req[q].pc = "idle")
    BY DEF Send, IInv, TypeOK
  <1>2. TypeOK'
    BY <1>1 DEF IInv, TypeOK
  <1>3. RequestsSound'
    BY <1>1 DEF IInv, RequestsSound, Sound, Dressed, Holds
  <1>4. TokensOwned'
    BY <1>1 DEF IInv, TokensOwned, Holds, Own
  <1>5. JarInv'
    <2>1. Alone'
      BY <1>1 DEF IInv, JarInv, Alone
    <2>2. RefreshesOwn'
      BY <1>1 DEF IInv, JarInv, RefreshesOwn
    <2>3. Paired' /\ NeverGiven'
      BY <1>1 DEF IInv, JarInv, Paired, NeverGiven, Own
    <2>4. QED
      BY <2>1, <2>2, <2>3 DEF JarInv
  <1>6. StateInv'
    <2>1. SpentGone'  BY <1>1 DEF IInv, StateInv, SpentGone
    <2>2. Remembering'
      <3>1. \A q \in Request : req[q].pc = "remember" => OfState(req[q])
        BY DEF IInv, RequestsSound, Sound, OpOf, OfState
      <3>. QED BY <1>1, <3>1 DEF IInv, StateInv, Remembering, OfState
    <2>3. SuccessSpends'  BY <1>1 DEF IInv, StateInv, SuccessSpends
    <2>4. ReplaysRefused'  BY <1>1 DEF IInv, StateInv, ReplaysRefused
    <2>. QED BY <2>1, <2>2, <2>3, <2>4 DEF StateInv
  <1>. QED BY <1>2, <1>3, <1>4, <1>5, <1>6 DEF IInv

LEMMA CookiesTyped ==
    ASSUME TypeOK, NEW s \in Sid, NEW t \in Token
    PROVE  /\ SessionCookies(s, t) \in Seq(SetCookie)
           /\ <<[name |-> "csrf_token", value |-> t, age |-> Timeout]>> \in Seq(SetCookie)
  <1>. DEFINE cookie(n, v, a) == [name |-> n, value |-> v, age |-> a]
  <1>1. /\ cookie("session_id", s, CookieAge) \in SetCookie /\ cookie("csrf_token", t, CookieAge) \in SetCookie
        /\ cookie("csrf_token", t, Timeout) \in SetCookie
    BY Ages DEF SetCookie
  <1>2. \A x, y \in SetCookie : <<x>> \in Seq(SetCookie) /\ <<x, y>> \in Seq(SetCookie)
    OBVIOUS
  <1>. QED BY <1>1, <1>2 DEF SessionCookies

LEMMA ClearedTyped ==
    ASSUME TypeOK
    PROVE  <<>> \in Seq(SetCookie) /\ ClearedCookies \in Seq(SetCookie)
  <1>. DEFINE cookie(n) == [name |-> n, value |-> None, age |-> 0]
  <1>1. cookie("session_id") \in SetCookie /\ cookie("csrf_token") \in SetCookie
    BY Ages DEF SetCookie
  <1>2. \A x, y \in SetCookie : <<x, y>> \in Seq(SetCookie)
    OBVIOUS
  <1>3. <<>> \in Seq(SetCookie)  OBVIOUS
  <1>. QED BY <1>1, <1>2, <1>3 DEF ClearedCookies

LEMMA HeldValue ==
    ASSUME TypeOK
    PROVE  /\ Held("session_id") \in {None, jar["session_id"].value} \cap (Sid \cup {None})
           /\ Held("csrf_token") \in Token \cup {None}
  BY DEF Held, TypeOK

LEMMA BlankFlight ==
    ASSUME TypeOK
    PROVE  /\ Blank \in Flight
           /\ Blank.sid = None /\ Blank.state = None /\ Blank.cookies = <<>> /\ ~Blank.ok /\ ~Blank.replay
  <1>1. 0 \in Horizon /\ <<>> \in Seq(SetCookie)  BY Ages
  <1>2. Blank \in Flight  BY <1>1 DEF Blank, Flight, PC, Op
  <1>3. Blank.sid = None /\ Blank.state = None /\ Blank.cookies = <<>> /\ ~Blank.ok /\ ~Blank.replay
    BY DEF Blank
  <1>. QED BY <1>2, <1>3

\* A request that was just sent says no more than its operation and its first await.
LEMMA FreshSound ==
    ASSUME NEW r \in Flight, r.op \in OpOf[r.pc], r.cookies = <<>>, r.pc \notin {"issue", "end", "forget", "reply"},
           r.op \in {"google", "callback"} => r.state \in State,
           r.pc = "create" => r.user \in User /\ r.sid \in Sid
    PROVE  Sound(r) /\ ~Holds(r)
  BY DEF Sound, Holds, Dressed

LEMMA SendLogin ==
    ASSUME IInv, NEW p \in Request, Login(p)
    PROVE  IInv'
  <1>1. PICK u \in User, s \in Sid :
            Send(p, [Blank EXCEPT !.op = "login", !.pc = "create", !.user = u, !.sid = s])
    BY DEF Login
  <1>2. PICK r : r = [Blank EXCEPT !.op = "login", !.pc = "create", !.user = u, !.sid = s]
    OBVIOUS
  <1>3. /\ r \in Flight /\ r.op = "login" /\ r.pc = "create" /\ ~r.replay /\ r.cookies = <<>>
        /\ r.user = u /\ r.sid = s
    BY <1>2, BlankFlight DEF IInv, Flight, PC, Op
  <1>5. Sound(r) /\ ~Holds(r)  BY <1>3, FreshSound DEF OpOf
  <1>4. ~OfState(r)  BY <1>3 DEF OfState
  <1>. QED BY <1>1, <1>2, <1>3, <1>4, <1>5, SendStep

LEMMA SendGoogle ==
    ASSUME IInv, NEW p \in Request, GoogleLogin(p)
    PROVE  IInv'
  <1>1. PICK x \in State : NewState(x) /\ Send(p, [Blank EXCEPT !.op = "google", !.pc = "remember", !.state = x])
    BY DEF GoogleLogin
  <1>2. PICK r : r = [Blank EXCEPT !.op = "google", !.pc = "remember", !.state = x]
    OBVIOUS
  <1>3. r \in Flight /\ r.op = "google" /\ r.pc = "remember" /\ ~r.replay /\ r.state = x /\ r.cookies = <<>>
    BY <1>2, BlankFlight DEF IInv, Flight, PC, Op
  <1>5. Sound(r) /\ ~Holds(r)  BY <1>3, FreshSound DEF OpOf
  <1>4. x \notin spent /\ state[x] = None /\ \A q \in Request : OfState(req[q]) => req[q].state # x
    BY <1>1 DEF NewState, OfState
  <1>. QED BY <1>1, <1>2, <1>3, <1>4, <1>5, SendStep

LEMMA SendCallback ==
    ASSUME IInv, NEW p \in Request, Callback(p)
    PROVE  IInv'
  <1>1. PICK x \in State, d \in BOOLEAN :
            /\ state[x] # None \/ x \in spent
            /\ Send(p, [Blank EXCEPT !.op = "callback", !.pc = "state", !.state = x,
                                     !.redirect = d, !.replay = x \in spent])
    BY DEF Callback
  <1>0. \E y \in BOOLEAN : y = (x \in spent)
    <2>1. CASE x \in spent
      <3>1. TRUE = (x \in spent)  BY <2>1
      <3>. QED BY <3>1
    <2>2. CASE x \notin spent
      <3>1. FALSE = (x \in spent)  BY <2>2
      <3>. QED BY <3>1
    <2>. QED BY <2>1, <2>2
  <1>a. PICK y \in BOOLEAN : y = (x \in spent)
    BY <1>0
  <1>b. PICK r : r = [Blank EXCEPT !.op = "callback", !.pc = "state", !.state = x,
                                   !.redirect = d, !.replay = y]
    OBVIOUS
  <1>c. Send(p, r)
    BY <1>1, <1>a, <1>b, Zenon
  <1>2. /\ r \in Flight /\ r.op = "callback" /\ r.pc = "state" /\ r.state = x /\ r.sid = None
        /\ r.cookies = <<>> /\ r.replay = y
    BY <1>b, BlankFlight DEF IInv, Flight, PC, Op
  <1>3. Sound(r) /\ ~Holds(r)  BY <1>2, FreshSound DEF OpOf
  <1>4. \A q \in Request : req[q].pc = "remember" => req[q].state # x
    <2>. SUFFICES ASSUME NEW q \in Request, req[q].pc = "remember", req[q].state = x PROVE FALSE
      OBVIOUS
    <2>1. x \notin spent /\ state[x] = None
      BY DEF IInv, StateInv, Remembering
    <2>. QED BY <1>1, <2>1
  <1>d. r.replay => x \in spent  BY <1>a, <1>2
  <1>. QED BY <1>1, <1>c, <1>d, <1>2, <1>3, <1>4, SendStep

LEMMA SendValidated ==
    ASSUME IInv, NEW p \in Request, NEW r \in Flight, Send(p, r), r.pc = "validate",
           r.op \in {"page", "change", "refresh", "logout"}, r.sid = Held("session_id"),
           ~r.replay, r.cookies = <<>>
    PROVE  IInv'
  <1>1. Sound(r) /\ ~Holds(r)  BY FreshSound DEF OpOf
  <1>2. ~OfState(r)  BY DEF OfState
  <1>. QED BY <1>1, <1>2, SendStep, HeldValue DEF IInv

LEMMA SendPage ==
    ASSUME IInv, NEW p \in Request, Page(p) \/ Change(p) \/ Refresh(p) \/ Logout(p)
    PROVE  IInv'
  <1>1. CASE Page(p)
    <2>1. PICK r : r = [Blank EXCEPT !.op = "page", !.pc = "validate", !.sid = Held("session_id")]
      OBVIOUS
    <2>2. r \in Flight /\ r.op = "page" /\ r.pc = "validate" /\ ~r.replay /\ r.cookies = <<>> /\ r.sid = Held("session_id")
      BY <2>1, BlankFlight, HeldValue DEF IInv, Flight, PC, Op
    <2>. QED BY <1>1, <2>1, <2>2, SendValidated DEF Page
  <1>2. CASE Change(p)
    <2>1. PICK h \in known \cup {None} :
            Send(p, [Blank EXCEPT !.op = "change", !.pc = "validate", !.sid = Held("session_id"),
                                  !.token = IF h # None THEN h ELSE Held("csrf_token")])
      BY <1>2 DEF Change
    <2>3. PICK t \in Token \cup {None} : t = IF h # None THEN h ELSE Held("csrf_token")
      BY HeldValue DEF IInv, TypeOK
    <2>2. PICK r : r = [Blank EXCEPT !.op = "change", !.pc = "validate", !.sid = Held("session_id"), !.token = t]
      OBVIOUS
    <2>4. r \in Flight /\ r.op = "change" /\ r.pc = "validate" /\ ~r.replay /\ r.cookies = <<>> /\ r.sid = Held("session_id")
      BY <2>2, BlankFlight, HeldValue DEF IInv, Flight, PC, Op
    <2>5. Send(p, r)  BY <2>1, <2>2, <2>3
    <2>. QED BY <2>5, <2>4, SendValidated
  <1>3. CASE Refresh(p)
    <2>1. PICK r : r = [Blank EXCEPT !.op = "refresh", !.pc = "validate", !.sid = Held("session_id")]
      OBVIOUS
    <2>2. r \in Flight /\ r.op = "refresh" /\ r.pc = "validate" /\ ~r.replay /\ r.cookies = <<>> /\ r.sid = Held("session_id")
      BY <2>1, BlankFlight, HeldValue DEF IInv, Flight, PC, Op
    <2>. QED BY <1>3, <2>1, <2>2, SendValidated DEF Refresh
  <1>4. CASE Logout(p)
    <2>1. PICK r : r = [Blank EXCEPT !.op = "logout", !.pc = "validate", !.sid = Held("session_id")]
      OBVIOUS
    <2>2. r \in Flight /\ r.op = "logout" /\ r.pc = "validate" /\ ~r.replay /\ r.cookies = <<>> /\ r.sid = Held("session_id")
      BY <2>1, BlankFlight, HeldValue DEF IInv, Flight, PC, Op
    <2>. QED BY <1>4, <2>1, <2>2, SendValidated DEF Logout
  <1>. QED BY <1>1, <1>2, <1>3, <1>4

-----------------------------------------------------------------------------
(* The steps of a request.                                                 *)

LEMMA MoveStep ==
    ASSUME IInv, NEW p \in Request, NEW r, Moves(p, r), StatesMove(p, r), TokensKept, TypeOK',
           Holds(r) => r.token \in Token /\ token'[r.token] # None /\ token'[r.token].session = r.sid
    PROVE  IInv'
  BY MoveSound, MoveTokens, MoveJar, MoveStates DEF IInv

\* A step that leaves tokens and states alone, of a request that has no token yet.
LEMMA QuietStep ==
    ASSUME IInv, NEW p \in Request, NEW r \in Flight, req[p].pc \notin {"idle", "reply", "remember"},
           req' = [req EXCEPT ![p] = r], UNCHANGED <<now, jar, known, spent, calm, token, state>>,
           session' \in [Sid -> SessionRecord \cup {None}], faults' \in 0..MaxFaults,
           r.op = req[p].op, r.state = req[p].state, r.replay = req[p].replay,
           r.op = "refresh" => r.sid = req[p].sid,
           Sound(r), ~Holds(r), r.pc # "remember",
           r.pc # "reply" => ~r.replay, r.replay => r.sid = req[p].sid,
           r.pc = "reply" => ~(r.op = "callback" /\ r.ok)
    PROVE  IInv'
  <1>1. Moves(p, r)  BY DEF Moves
  <1>2. StatesMove(p, r)  BY DEF StatesMove, IInv, StateInv, ReplaysRefused
  <1>3. TokensKept  BY DEF TokensKept
  <1>4. TypeOK'  BY DEF IInv, TypeOK
  <1>. QED BY <1>1, <1>2, <1>3, <1>4, MoveStep

LEMMA RefusedFacts ==
    ASSUME IInv, NEW p \in Request, req[p].pc \notin {"idle", "reply"},
           NEW r, r = Refused(req[p])
    PROVE  /\ r \in Flight /\ r.op = req[p].op /\ r.state = req[p].state /\ r.replay = req[p].replay
           /\ r.sid = req[p].sid /\ r.pc = "reply" /\ ~r.ok /\ r.cookies = <<>>
           /\ Sound(r) /\ ~Holds(r)
  <1>1. req[p] \in Flight /\ Sound(req[p])
    BY InFlight DEF IInv, RequestsSound
  <1>2. /\ r \in Flight /\ r.op = req[p].op /\ r.state = req[p].state /\ r.replay = req[p].replay
        /\ r.sid = req[p].sid /\ r.pc = "reply" /\ ~r.ok /\ r.cookies = req[p].cookies
    BY <1>1 DEF Refused, Flight, PC
  <1>3. ~Holds(r)  BY <1>2 DEF Holds
  <1>4. r.cookies = <<>>  BY <1>1, <1>2 DEF Sound
  <1>5. Sound(r)
    BY <1>1, <1>2, <1>3, <1>4 DEF Sound, Dressed, OpOf, Flight, Op
  <1>. QED BY <1>2, <1>3, <1>4, <1>5

LEMMA QuietRefusal ==
    ASSUME IInv, NEW p \in Request, req[p].pc \notin {"idle", "reply", "remember"},
           req' = [req EXCEPT ![p] = Refused(req[p])],
           UNCHANGED <<now, jar, known, spent, calm, token, state, session>>, faults' \in 0..MaxFaults
    PROVE  IInv'
  <1>1. PICK r : r = Refused(req[p])  OBVIOUS
  <1>2. session' \in [Sid -> SessionRecord \cup {None}]  BY DEF IInv, TypeOK
  <1>. QED BY <1>1, <1>2, RefusedFacts, QuietStep

\* An answer without a token.
LEMMA SuccessFacts ==
    ASSUME IInv, NEW p \in Request, req[p].pc \notin {"idle", "reply"},
           NEW c, c \in {<<>>, ClearedCookies}, NEW r, r = Success(req[p], c),
           req[p].op \in {"google", "page", "change", "logout"}
    PROVE  /\ r \in Flight /\ r.op = req[p].op /\ r.state = req[p].state /\ r.replay = req[p].replay
           /\ r.sid = req[p].sid /\ r.pc = "reply" /\ Sound(r) /\ ~Holds(r)
  <1>1. req[p] \in Flight /\ Sound(req[p])
    BY InFlight DEF IInv, RequestsSound
  <1>2. c \in Seq(SetCookie)
    BY ClearedTyped DEF IInv
  <1>3. /\ r \in Flight /\ r.op = req[p].op /\ r.state = req[p].state /\ r.replay = req[p].replay
        /\ r.sid = req[p].sid /\ r.pc = "reply" /\ r.cookies = c
    BY <1>1, <1>2 DEF Success, Flight, PC
  <1>4. ~Holds(r)  BY <1>3 DEF Holds
  <1>5. Sound(r)
    BY <1>1, <1>3, <1>4 DEF Sound, Dressed, OpOf, Flight, Op
  <1>. QED BY <1>3, <1>4, <1>5

LEMMA ValidateStep ==
    ASSUME IInv, NEW p \in Request, Validate(p)
    PROVE  IInv'
  <1>0. /\ req[p] \in Flight /\ Sound(req[p]) /\ req[p].pc = "validate"
        /\ req[p].op \in {"page", "change", "refresh", "logout"} /\ ~req[p].replay /\ req[p].cookies = <<>>
    BY InFlight DEF IInv, RequestsSound, Validate, Sound, OpOf, StateInv, ReplaysRefused
  <1>1. CASE ~Live(req[p].sid)
    BY <1>0, <1>1, QuietRefusal DEF Validate, IInv, TypeOK
  <1>2. CASE Live(req[p].sid)
    <2>1. /\ req[p].sid \in Sid /\ req[p].sid # None /\ session[req[p].sid] \in SessionRecord
      BY <1>0, <1>2 DEF Live, Flight, IInv, TypeOK
    <2>2. now + Timeout \in Horizon  BY Ages DEF IInv
    <2>3. session' \in [Sid -> SessionRecord \cup {None}] /\ faults' \in 0..MaxFaults
      BY <1>0, <1>2, <2>1, <2>2 DEF Validate, IInv, TypeOK, SessionRecord
    <2>4. PICK r : /\ req' = [req EXCEPT ![p] = r]
                   /\ \/ req[p].op = "page" /\ r = Success(req[p], <<>>)
                      \/ \E c \in {"csrf", "user"} : req[p].op = "change" /\ r = [req[p] EXCEPT !.pc = c]
                      \/ req[p].op = "refresh" /\ r = [req[p] EXCEPT !.pc = "issue", !.expiry = now + Timeout]
                      \/ req[p].op = "logout" /\ r = [req[p] EXCEPT !.pc = "end"]
      BY <1>0, <1>2, Zenon DEF Validate
    <2>5. /\ r \in Flight /\ r.op = req[p].op /\ r.state = req[p].state /\ r.replay = req[p].replay
          /\ r.sid = req[p].sid /\ Sound(r) /\ ~Holds(r) /\ r.pc # "remember"
      <3>1. CASE req[p].op = "page"
        BY <1>0, <2>4, <3>1, SuccessFacts
      <3>2. CASE req[p].op # "page"
        <4>1. /\ r \in Flight /\ r.op = req[p].op /\ r.state = req[p].state /\ r.replay = req[p].replay
              /\ r.sid = req[p].sid /\ r.cookies = <<>> /\ r.pc \in {"csrf", "user", "issue", "end"}
              /\ r.op \in OpOf[r.pc]
          <5>1. CASE req[p].op = "refresh"
            <6>1. r = [req[p] EXCEPT !.pc = "issue", !.expiry = now + Timeout]
              BY <2>4, <5>1
            <6>2. r \in Flight  BY <1>0, <2>2, <6>1 DEF Flight, PC
            <6>. QED BY <1>0, <6>1, <6>2, <5>1 DEF Flight, OpOf
          <5>2. CASE req[p].op = "logout"
            BY <1>0, <2>4, <5>2 DEF Flight, PC, OpOf
          <5>3. CASE req[p].op = "change"
            <6>1. PICK c \in {"csrf", "user"} : r = [req[p] EXCEPT !.pc = c]
              BY <2>4, <5>3
            <6>. QED BY <1>0, <6>1, <5>3 DEF Flight, PC, OpOf
          <5>. QED BY <1>0, <3>2, <5>1, <5>2, <5>3
        <4>. QED BY <1>0, <2>1, <4>1 DEF Sound, Holds, Dressed
      <3>. QED BY <3>1, <3>2
    <2>6. UNCHANGED <<now, jar, known, spent, calm, token, state>>  BY DEF Validate
    <2>. QED BY <1>0, <2>3, <2>4, <2>5, <2>6, QuietStep
  <1>. QED BY <1>1, <1>2

LEMMA CheckTokenStep ==
    ASSUME IInv, NEW p \in Request, CheckToken(p)
    PROVE  IInv'
  <1>0. /\ req[p] \in Flight /\ Sound(req[p]) /\ req[p].pc = "csrf"
        /\ req[p].op = "change" /\ ~req[p].replay /\ req[p].cookies = <<>>
    BY InFlight DEF IInv, RequestsSound, CheckToken, Sound, OpOf, StateInv, ReplaysRefused
  <1>1. /\ UNCHANGED <<now, session, state, jar, known, spent, calm, faults>>
        /\ \/ token' = token
           \/ /\ Stored(req[p].token)
              /\ token' = [token EXCEPT ![req[p].token].until = now]
    BY DEF CheckToken
  <1>2. /\ token' \in [Token -> CSRFToken \cup {None}] /\ TokensKept
    <2>1. CASE token' = token
      BY <2>1 DEF IInv, TypeOK, TokensKept
    <2>2. CASE Stored(req[p].token) /\ token' = [token EXCEPT ![req[p].token].until = now]
      <3>1. req[p].token \in Token /\ token[req[p].token] \in CSRFToken
        BY <1>0, <2>2 DEF Stored, Flight, IInv, TypeOK
      <3>2. now \in Horizon  BY Ages DEF IInv
      <3>3. token' \in [Token -> CSRFToken \cup {None}]
        BY <2>2, <3>1, <3>2 DEF IInv, TypeOK, CSRFToken
      <3>4. ASSUME NEW t \in Token, token[t] # None
            PROVE  token'[t] # None /\ token'[t].session = token[t].session
        <4>1. CASE t = req[p].token
          <5>1. token'[t] = [token[t] EXCEPT !.until = now]
            BY <2>2, <3>1, <4>1 DEF IInv, TypeOK
          <5>2. token'[t] \in CSRFToken
            BY <3>1, <3>2, <4>1, <5>1 DEF CSRFToken
          <5>3. token'[t].session = token[t].session
            BY <3>1, <4>1, <5>1 DEF CSRFToken
          <5>. QED BY <5>2, <5>3, NoneAssumption
        <4>2. CASE t # req[p].token
          BY <2>2, <3>1, <3>4, <4>2 DEF IInv, TypeOK
        <4>. QED BY <4>1, <4>2
      <3>. QED BY <3>3, <3>4 DEF TokensKept
    <2>. QED BY <1>1, <2>1, <2>2
  <1>3. PICK r : /\ req' = [req EXCEPT ![p] = r]
                 /\ r \in {[req[p] EXCEPT !.pc = "user"], Refused(req[p])}
    BY Zenon DEF CheckToken
  <1>4. /\ r \in Flight /\ r.op = req[p].op /\ r.state = req[p].state /\ r.replay = req[p].replay
        /\ r.sid = req[p].sid /\ Sound(r) /\ ~Holds(r) /\ r.pc \in {"user", "reply"}
    <2>1. CASE r = Refused(req[p])
      BY <1>0, <2>1, RefusedFacts
    <2>2. CASE r = [req[p] EXCEPT !.pc = "user"]
      <3>1. /\ r \in Flight /\ r.op = req[p].op /\ r.state = req[p].state /\ r.replay = req[p].replay
            /\ r.sid = req[p].sid /\ r.pc = "user" /\ r.cookies = <<>>
        BY <1>0, <2>2 DEF Flight, PC
      <3>. QED BY <1>0, <3>1 DEF Sound, Holds, Dressed, OpOf
    <2>. QED BY <1>3, <2>1, <2>2
  <1>5. TypeOK'  BY <1>1, <1>2, <1>3, <1>4 DEF IInv, TypeOK
  <1>6. Moves(p, r)  BY <1>0, <1>1, <1>3, <1>4 DEF Moves
  <1>7. StatesMove(p, r)  BY <1>0, <1>1, <1>4 DEF StatesMove
  <1>. QED BY <1>2, <1>4, <1>5, <1>6, <1>7, MoveStep

LEMMA LoadUserStep ==
    ASSUME IInv, NEW p \in Request, LoadUser(p)
    PROVE  IInv'
  <1>0. req[p].pc = "user" /\ req[p].op = "change" /\ ~req[p].replay
    BY DEF IInv, RequestsSound, LoadUser, Sound, OpOf, StateInv, ReplaysRefused
  <1>1. /\ UNCHANGED <<now, session, token, state, jar, known, spent, calm, faults>>
        /\ session' \in [Sid -> SessionRecord \cup {None}] /\ faults' \in 0..MaxFaults
    BY DEF LoadUser, IInv, TypeOK
  <1>2. PICK r : req' = [req EXCEPT ![p] = r] /\ r \in {Success(req[p], <<>>), Refused(req[p])}
    BY Zenon DEF LoadUser
  <1>3. CASE r = Refused(req[p])
    BY <1>0, <1>1, <1>2, <1>3, QuietRefusal
  <1>4. CASE r = Success(req[p], <<>>)
    BY <1>0, <1>1, <1>2, <1>4, SuccessFacts, QuietStep
  <1>. QED BY <1>2, <1>3, <1>4

LEMMA CreateSessionStep ==
    ASSUME IInv, NEW p \in Request, CreateSession(p)
    PROVE  IInv'
  <1>0. /\ req[p] \in Flight /\ Sound(req[p]) /\ req[p].pc = "create" /\ ~req[p].replay
        /\ req[p].op \in {"login", "callback"} /\ req[p].user \in User /\ req[p].sid \in Sid
        /\ req[p].cookies = <<>>
    BY InFlight DEF IInv, RequestsSound, CreateSession, Sound, OpOf, StateInv, ReplaysRefused
  <1>1. now + Timeout \in Horizon  BY Ages DEF IInv
  <1>2. session' \in [Sid -> SessionRecord \cup {None}] /\ faults' \in 0..MaxFaults
    BY <1>0, <1>1 DEF CreateSession, IInv, TypeOK, SessionRecord
  <1>3. PICK r : r = [req[p] EXCEPT !.pc = "issue", !.expiry = now + Timeout]
    OBVIOUS
  <1>4. /\ r \in Flight /\ r.op = req[p].op /\ r.state = req[p].state /\ r.replay = req[p].replay
        /\ r.sid = req[p].sid /\ r.pc = "issue" /\ r.cookies = <<>>
    BY <1>0, <1>1, <1>3 DEF Flight, PC
  <1>5. Sound(r) /\ ~Holds(r)
    BY <1>0, <1>4 DEF Sound, Holds, Dressed, OpOf
  <1>. QED BY <1>0, <1>2, <1>3, <1>4, <1>5, QuietStep DEF CreateSession

LEMMA ReadStateStep ==
    ASSUME IInv, NEW p \in Request, ReadState(p)
    PROVE  IInv'
  <1>0. /\ req[p] \in Flight /\ Sound(req[p]) /\ req[p].pc = "state"
        /\ req[p].op = "callback" /\ req[p].state \in State /\ req[p].cookies = <<>>
    BY InFlight DEF IInv, RequestsSound, ReadState, Sound, OpOf
  <1>1. CASE state[req[p].state] # None /\ now < state[req[p].state]
    <2>1. ~req[p].replay
      BY <1>0, <1>1 DEF IInv, StateInv, ReplaysRefused, SpentGone
    <2>2. PICK r : r = [req[p] EXCEPT !.pc = "exchange"]
      OBVIOUS
    <2>3. /\ r \in Flight /\ r.op = req[p].op /\ r.state = req[p].state /\ r.replay = req[p].replay
          /\ r.sid = req[p].sid /\ r.pc = "exchange" /\ r.cookies = <<>>
      BY <1>0, <2>2 DEF Flight, PC
    <2>4. Sound(r) /\ ~Holds(r)
      BY <1>0, <2>3 DEF Sound, Holds, Dressed, OpOf
    <2>5. session' \in [Sid -> SessionRecord \cup {None}] /\ faults' \in 0..MaxFaults
      BY DEF ReadState, IInv, TypeOK
    <2>. QED BY <1>0, <1>1, <2>1, <2>2, <2>3, <2>4, <2>5, QuietStep DEF ReadState
  <1>2. CASE ~(state[req[p].state] # None /\ now < state[req[p].state])
    BY <1>0, <1>2, QuietRefusal DEF ReadState, IInv, TypeOK
  <1>. QED BY <1>1, <1>2

LEMMA ExchangeStep ==
    ASSUME IInv, NEW p \in Request, Exchange(p)
    PROVE  IInv'
  <1>0. /\ req[p] \in Flight /\ Sound(req[p]) /\ req[p].pc = "exchange" /\ ~req[p].replay
        /\ req[p].op = "callback" /\ req[p].state \in State /\ req[p].cookies = <<>>
    <2>1. req[p].pc = "exchange"  BY DEF Exchange
    <2>. QED BY <2>1, InFlight DEF IInv, RequestsSound, Sound, OpOf, StateInv, ReplaysRefused
  <1>1. CASE req' = [req EXCEPT ![p] = Refused(req[p])]
    BY <1>0, <1>1, QuietRefusal DEF Exchange, IInv, TypeOK
  <1>2. CASE \E u \in User, s \in Sid :
               req' = [req EXCEPT ![p] = [req[p] EXCEPT !.pc = "create", !.user = u, !.sid = s]]
    <2>1. PICK u \in User, s \in Sid :
               req' = [req EXCEPT ![p] = [req[p] EXCEPT !.pc = "create", !.user = u, !.sid = s]]
      BY <1>2
    <2>2. PICK r : r = [req[p] EXCEPT !.pc = "create", !.user = u, !.sid = s]
      OBVIOUS
    <2>3. /\ r \in Flight /\ r.op = req[p].op /\ r.state = req[p].state /\ r.replay = req[p].replay
          /\ r.sid = s /\ r.user = u /\ r.pc = "create" /\ r.cookies = <<>>
      BY <1>0, <2>2 DEF Flight, PC
    <2>4. Sound(r) /\ ~Holds(r)
      BY <1>0, <2>3 DEF Sound, Holds, Dressed, OpOf
    <2>5. session' \in [Sid -> SessionRecord \cup {None}] /\ faults' \in 0..MaxFaults
      BY DEF Exchange, IInv, TypeOK
    <2>. QED BY <1>0, <2>1, <2>2, <2>3, <2>4, <2>5, QuietStep DEF Exchange
  <1>. QED BY <1>0, <1>1, <1>2, InFlight DEF Exchange, IInv, TypeOK

\* A token is drawn that was never used.
LEMMA IssueTokenStep ==
    ASSUME IInv, NEW p \in Request, IssueToken(p)
    PROVE  IInv'
  <1>0. /\ req[p] \in Flight /\ Sound(req[p]) /\ req[p].pc = "issue" /\ ~req[p].replay
        /\ req[p].op \in {"login", "callback", "refresh"} /\ req[p].cookies = <<>> /\ req[p].sid \in Sid
        /\ req[p].op = "refresh" => req[p].sid # None
    <2>1. req[p].pc = "issue"  BY DEF IssueToken
    <2>. QED BY <2>1, InFlight DEF IInv, RequestsSound, Sound, OpOf, StateInv, ReplaysRefused
  <1>1. PICK t \in Token :
          LET r == [req[p] EXCEPT !.token = t] IN
          /\ token[t] = None
          /\ token' = [token EXCEPT ![t] = [session |-> r.sid, expiry |-> r.expiry, until |-> now + Timeout]]
          /\ req' = [req EXCEPT ![p] =
               CASE r.op = "login"    -> Success(r, SessionCookies(r.sid, t))
                 [] r.op = "callback" -> [r EXCEPT !.pc = "forget"]
                 [] r.op = "refresh"  -> Success(r, <<[name |-> "csrf_token", value |-> t, age |-> Timeout]>>)]
          /\ UNCHANGED <<now, session, state, jar, known, spent, calm, faults>>
    BY DEF IssueToken
  <1>2. PICK b : b = [req[p] EXCEPT !.token = t]  OBVIOUS
  <1>3. /\ b \in Flight /\ b.op = req[p].op /\ b.state = req[p].state /\ ~b.replay
        /\ b.replay = req[p].replay
        /\ b.sid = req[p].sid /\ b.token = t /\ b.cookies = <<>> /\ b.expiry = req[p].expiry
    BY <1>0, <1>2 DEF Flight
  <1>4. PICK r : /\ req' = [req EXCEPT ![p] = r]
                 /\ \/ b.op = "login" /\ r = Success(b, SessionCookies(b.sid, t))
                    \/ b.op = "callback" /\ r = [b EXCEPT !.pc = "forget"]
                    \/ b.op = "refresh"
                         /\ r = Success(b, <<[name |-> "csrf_token", value |-> t, age |-> Timeout]>>)
    BY <1>0, <1>1, <1>2, <1>3, Zenon
  <1>5. /\ SessionCookies(b.sid, t) \in Seq(SetCookie)
        /\ <<[name |-> "csrf_token", value |-> t, age |-> Timeout]>> \in Seq(SetCookie)
    BY <1>0, <1>3, CookiesTyped DEF IInv
  <1>6. /\ r \in Flight /\ r.op = req[p].op /\ r.state = req[p].state /\ r.replay = req[p].replay
        /\ r.sid = req[p].sid /\ r.token = t /\ Holds(r) /\ Dressed(r)
        /\ r.pc \in {"forget", "reply"} /\ (r.pc = "forget" => r.op = "callback" /\ r.cookies = <<>>)
        /\ r.pc = "reply" => r.op # "callback"
    <2>1. CASE b.op = "login"
      <3>1. r = [b EXCEPT !.pc = "reply", !.ok = TRUE, !.cookies = SessionCookies(b.sid, t)]
        BY <1>4, <2>1 DEF Success
      <3>2. /\ r \in Flight /\ r.op = "login" /\ r.state = b.state /\ r.replay = b.replay /\ r.sid = b.sid
            /\ r.token = t /\ r.pc = "reply" /\ r.ok /\ r.cookies = SessionCookies(r.sid, r.token)
        BY <1>3, <1>5, <2>1, <3>1 DEF Flight, PC
      <3>3. Holds(r)  BY <3>2 DEF Holds
      <3>. QED BY <1>3, <2>1, <3>2, <3>3 DEF Dressed
    <2>2. CASE b.op = "callback"
      <3>2. /\ r \in Flight /\ r.op = "callback" /\ r.state = b.state /\ r.replay = b.replay /\ r.sid = b.sid
            /\ r.token = t /\ r.pc = "forget" /\ r.cookies = <<>>
        BY <1>3, <1>4, <2>2 DEF Flight, PC
      <3>. QED BY <1>3, <2>2, <3>2 DEF Holds, Dressed
    <2>3. CASE b.op = "refresh"
      <3>1. r = [b EXCEPT !.pc = "reply", !.ok = TRUE,
                          !.cookies = <<[name |-> "csrf_token", value |-> t, age |-> Timeout]>>]
        BY <1>4, <2>3 DEF Success
      <3>2. /\ r \in Flight /\ r.op = "refresh" /\ r.state = b.state /\ r.replay = b.replay /\ r.sid = b.sid
            /\ r.token = t /\ r.pc = "reply" /\ r.ok
            /\ r.cookies = <<[name |-> "csrf_token", value |-> r.token, age |-> Timeout]>>
        BY <1>3, <1>5, <2>3, <3>1 DEF Flight, PC
      <3>3. Holds(r)  BY <3>2 DEF Holds
      <3>. QED BY <1>3, <2>3, <3>2, <3>3 DEF Dressed
    <2>. QED BY <1>4, <2>1, <2>2, <2>3
  <1>7. Sound(r)
    BY <1>0, <1>6 DEF Sound, OpOf, Op
  <1>8. PICK k : k = [session |-> b.sid, expiry |-> b.expiry, until |-> now + Timeout]  OBVIOUS
  <1>9. k \in CSRFToken /\ k # None /\ k.session = b.sid /\ token' = [token EXCEPT ![t] = k]
    <2>1. now + Timeout \in Horizon  BY Ages DEF IInv
    <2>2. k \in CSRFToken /\ k.session = b.sid
      BY <1>0, <1>3, <1>8, <2>1 DEF CSRFToken, Flight
    <2>3. token' = [token EXCEPT ![t] = k]  BY <1>1, <1>2, <1>8
    <2>. QED BY <2>2, <2>3, NoneAssumption
  <1>10. TokensKept /\ token'[t] = k /\ token' \in [Token -> CSRFToken \cup {None}]
    BY <1>1, <1>9 DEF TokensKept, IInv, TypeOK
  <1>a. UNCHANGED <<now, session, state, jar, known, spent, calm, faults>>  BY DEF IssueToken
  <1>b. req' = [req EXCEPT ![p] = r]  BY <1>4
  <1>11. TypeOK'  BY <1>a, <1>b, <1>6, <1>10 DEF IInv, TypeOK
  <1>12. Moves(p, r)  BY <1>0, <1>a, <1>b, <1>6, <1>7 DEF Moves
  <1>13. StatesMove(p, r)  BY <1>0, <1>a, <1>6 DEF StatesMove
  <1>. QED BY <1>3, <1>6, <1>9, <1>10, <1>11, <1>12, <1>13, MoveStep

LEMMA EndSessionStep ==
    ASSUME IInv, NEW p \in Request, EndSession(p)
    PROVE  IInv'
  <1>0. /\ req[p] \in Flight /\ req[p].pc = "end" /\ ~req[p].replay /\ req[p].op = "logout" /\ req[p].sid \in Sid
    <2>1. req[p].pc = "end"  BY DEF EndSession
    <2>. QED BY <2>1, InFlight DEF IInv, RequestsSound, Sound, OpOf, StateInv, ReplaysRefused
  <1>1. session' \in [Sid -> SessionRecord \cup {None}] /\ faults' \in 0..MaxFaults
    <2>1. CASE Live(req[p].sid)
      <3>1. session[req[p].sid] \in SessionRecord /\ now \in Horizon
        BY <1>0, <2>1, Ages DEF Live, IInv, TypeOK
      <3>2. session' = [session EXCEPT ![req[p].sid].until = now] /\ faults' = faults
        BY <2>1 DEF EndSession
      <3>. QED BY <1>0, <3>1, <3>2 DEF IInv, TypeOK, SessionRecord
    <2>2. CASE ~Live(req[p].sid)
      BY <2>2 DEF EndSession, IInv, TypeOK
    <2>. QED BY <2>1, <2>2
  <1>2. PICK r : r = Success(req[p], ClearedCookies)  OBVIOUS
  <1>3. req' = [req EXCEPT ![p] = r] /\ UNCHANGED <<now, jar, known, spent, calm, token, state>>
    BY <1>2 DEF EndSession, IInv, TypeOK
  <1>. QED BY <1>0, <1>1, <1>2, <1>3, SuccessFacts, QuietStep

LEMMA RaisesStep ==
    ASSUME IInv, NEW p \in Request, Raises(p)
    PROVE  IInv'
  <1>0. /\ req[p] \in Flight /\ req[p].pc \notin {"idle", "reply"}
        /\ req[p].pc = "end" => ~req[p].replay /\ req[p].op = "logout"
        /\ req[p].pc = "remember" => ~req[p].replay /\ req[p].op = "google"
        /\ UNCHANGED <<now, session, token, state, jar, known, spent, calm>>
    <2>1. /\ req[p].pc \notin {"idle", "reply"}
          /\ UNCHANGED <<now, session, token, state, jar, known, spent, calm>>  BY DEF Raises
    <2>. QED BY <2>1, InFlight DEF IInv, RequestsSound, Sound, OpOf, StateInv, ReplaysRefused
  <1>1. session' \in [Sid -> SessionRecord \cup {None}] /\ faults' \in 0..MaxFaults
    BY BoundAssumption DEF Raises, IInv, TypeOK
  <1>2. CASE req[p].pc = "end"
    <2>1. PICK r : r = Success(req[p], ClearedCookies)  OBVIOUS
    <2>2. req' = [req EXCEPT ![p] = r]
      BY <1>2, <2>1 DEF Raises, IInv, TypeOK
    <2>. QED BY <1>0, <1>1, <1>2, <2>1, <2>2, SuccessFacts, QuietStep
  <1>3. CASE req[p].pc = "remember"
    <2>1. PICK r : r = Refused(req[p])  OBVIOUS
    <2>2. req' = [req EXCEPT ![p] = r]
      BY <1>3, <2>1 DEF Raises, IInv, TypeOK
    <2>3. /\ r \in Flight /\ r.op = req[p].op /\ r.state = req[p].state /\ r.replay = req[p].replay
          /\ r.sid = req[p].sid /\ r.pc = "reply" /\ ~r.ok /\ Sound(r) /\ ~Holds(r)
      BY <1>0, <2>1, RefusedFacts
    <2>4. Moves(p, r)  BY <1>0, <2>2, <2>3 DEF Moves
    <2>5. StatesMove(p, r)  BY <1>0, <1>3, <2>3 DEF StatesMove
    <2>6. TokensKept  BY <1>0 DEF TokensKept
    <2>7. TypeOK'  BY <1>0, <1>1, <2>2, <2>3 DEF IInv, TypeOK
    <2>. QED BY <2>3, <2>4, <2>5, <2>6, <2>7, MoveStep
  <1>4. CASE req[p].pc \notin {"end", "remember"}
    <2>1. req' = [req EXCEPT ![p] = Refused(req[p])]
      BY <1>4 DEF Raises, IInv, TypeOK
    <2>. QED BY <1>0, <1>1, <1>4, <2>1, QuietRefusal
  <1>. QED BY <1>2, <1>3, <1>4

LEMMA RememberStateStep ==
    ASSUME IInv, NEW p \in Request, RememberState(p)
    PROVE  IInv'
  <1>0. /\ req[p] \in Flight /\ req[p].pc = "remember" /\ ~req[p].replay /\ req[p].op = "google"
        /\ req[p].state \in State
    <2>1. req[p].pc = "remember"  BY DEF RememberState
    <2>. QED BY <2>1, InFlight DEF IInv, RequestsSound, Sound, OpOf, StateInv, ReplaysRefused
  <1>1. /\ UNCHANGED <<now, session, token, jar, known, spent, calm, faults>>
        /\ state' = [state EXCEPT ![req[p].state] = now + StateAge]
    BY DEF RememberState
  <1>2. PICK r : r = Success(req[p], <<>>)  OBVIOUS
  <1>3. req' = [req EXCEPT ![p] = r]
    BY <1>2 DEF RememberState, IInv, TypeOK
  <1>4. /\ r \in Flight /\ r.op = req[p].op /\ r.state = req[p].state /\ r.replay = req[p].replay
        /\ r.sid = req[p].sid /\ r.pc = "reply" /\ Sound(r) /\ ~Holds(r)
    BY <1>0, <1>2, SuccessFacts
  <1>5. Moves(p, r)  BY <1>0, <1>1, <1>3, <1>4 DEF Moves
  <1>6. StatesMove(p, r)  BY <1>0, <1>1, <1>4 DEF StatesMove, OfState, IInv, TypeOK
  <1>7. TokensKept  BY <1>1 DEF TokensKept
  <1>8. TypeOK'
    <2>1. now + StateAge \in Horizon  BY Ages DEF IInv
    <2>. QED BY <1>0, <1>1, <1>3, <1>4, <2>1 DEF IInv, TypeOK
  <1>. QED BY <1>4, <1>5, <1>6, <1>7, <1>8, MoveStep

LEMMA ForgetStateStep ==
    ASSUME IInv, NEW p \in Request, ForgetState(p)
    PROVE  IInv'
  <1>0. /\ req[p] \in Flight /\ Sound(req[p]) /\ req[p].pc = "forget" /\ ~req[p].replay
        /\ req[p].op = "callback" /\ req[p].state \in State /\ Holds(req[p])
        /\ Own(req[p].token, req[p].sid)
    <2>1. req[p].pc = "forget"  BY DEF ForgetState
    <2>2. Holds(req[p])  BY <2>1 DEF Holds
    <2>. QED BY <2>1, <2>2, InFlight DEF IInv, RequestsSound, TokensOwned, Sound, OpOf, StateInv, ReplaysRefused
  <1>1. /\ UNCHANGED <<now, session, token, jar, known, spent, calm, faults>>
        /\ state' = [state EXCEPT ![req[p].state] = None]
    BY DEF ForgetState, Forgotten
  <1>2. PICK c \in {<<>>, SessionCookies(req[p].sid, req[p].token)} :
            req' = [req EXCEPT ![p] = Success(req[p], c)]
    BY Zenon DEF ForgetState
  <1>3. PICK r : r = Success(req[p], c)  OBVIOUS
  <1>4. req[p].sid \in Sid
    BY <1>0 DEF Own, IInv, TypeOK, CSRFToken, Flight
  <1>5. c \in Seq(SetCookie)
    BY <1>0, <1>4, CookiesTyped, ClearedTyped DEF Own, IInv
  <1>6. /\ r \in Flight /\ r.op = req[p].op /\ r.state = req[p].state /\ r.replay = req[p].replay
        /\ r.sid = req[p].sid /\ r.token = req[p].token /\ r.pc = "reply" /\ r.ok /\ r.cookies = c
    BY <1>0, <1>3, <1>5 DEF Success, Flight, PC
  <1>7. Holds(r)  BY <1>0, <1>6 DEF Holds
  <1>8. Sound(r)
    BY <1>0, <1>6, <1>7 DEF Sound, Dressed, OpOf, Op
  <1>9. req' = [req EXCEPT ![p] = r]  BY <1>2, <1>3
  <1>10. Moves(p, r)  BY <1>0, <1>1, <1>6, <1>8, <1>9 DEF Moves
  <1>11. StatesMove(p, r)  BY <1>0, <1>1, <1>6 DEF StatesMove, OfState, IInv, TypeOK
  <1>12. TokensKept  BY <1>1 DEF TokensKept
  <1>13. TypeOK'  BY <1>0, <1>1, <1>6, <1>9 DEF IInv, TypeOK
  <1>14. r.token \in Token /\ token'[r.token] # None /\ token'[r.token].session = r.sid
    BY <1>0, <1>1, <1>6 DEF Own
  <1>. QED BY <1>10, <1>11, <1>12, <1>13, <1>14, MoveStep

-----------------------------------------------------------------------------
(* The answer reaches the browser.                                         *)

\* What an answer does to the cookies: nothing, or it takes the CSRF cookie away, or it
\* sets both to a session and its token, or the CSRF cookie to a token of the session.
LEMMA Jars ==
    ASSUME IInv, NEW p \in Request, req[p].pc = "reply", jar' = Obeyed(Copied(req[p].cookies))
    PROVE  /\ DOMAIN jar' = {"session_id", "csrf_token"}
           /\ jar'["session_id"] \in [value : Sid \cup {None}, until : Horizon]
           /\ jar'["csrf_token"] \in [value : Token \cup {None}, until : Horizon]
           /\ Enveloped => jar'["session_id"] = jar["session_id"]
           /\ \/ jar'["csrf_token"].value = None
              \/ /\ Len(req[p].cookies) # 2
                 /\ jar'["session_id"] = jar["session_id"] /\ jar'["csrf_token"] = jar["csrf_token"]
              \/ /\ Holds(req[p]) /\ jar'["csrf_token"].value = req[p].token
                 /\ \/ Enveloped
                    \/ jar'["session_id"].value = req[p].sid
                    \/ /\ Len(req[p].cookies) # 2 /\ req[p].op = "refresh"
                       /\ jar'["session_id"] = jar["session_id"]
  <1>. DEFINE r == req[p]
  <1>0. /\ r \in Flight /\ Dressed(r) /\ TypeOK
        /\ Holds(r) => r.token \in Token /\ r.sid \in Sid
    <2>1. r \in Flight /\ Sound(r) /\ TypeOK  BY InFlight DEF IInv, RequestsSound
    <2>2. ASSUME Holds(r) PROVE r.token \in Token /\ r.sid \in Sid
      BY <2>2 DEF IInv, TypeOK, TokensOwned, Own, CSRFToken
    <2>. QED BY <2>1, <2>2 DEF Sound
  <1>1. DOMAIN jar' = {"session_id", "csrf_token"}
    BY <1>0 DEF Obeyed, TypeOK
  <1>2. /\ jar["session_id"] \in [value : Sid \cup {None}, until : Horizon]
        /\ jar["csrf_token"] \in [value : Token \cup {None}, until : Horizon]
        /\ now + 0 \in Horizon /\ now + CookieAge \in Horizon /\ now + Timeout \in Horizon
    BY <1>0, Ages DEF TypeOK
  <1>3. CASE r.cookies = <<>>
    <2>1. Copied(r.cookies) = <<>>  BY <1>3 DEF Copied
    <2>2. jar'["session_id"] = jar["session_id"] /\ jar'["csrf_token"] = jar["csrf_token"]
      BY <1>0, <2>1, ObeyedNothing
    <2>. QED BY <1>1, <1>2, <1>3, <2>2
  <1>4. CASE r.cookies = ClearedCookies
    <2>1. CASE Enveloped
      <3>1. Copied(r.cookies) = <<[name |-> "csrf_token", value |-> None, age |-> 0]>>
        BY <1>4, <2>1 DEF Copied, ClearedCookies
      <3>2. /\ jar'["session_id"] = jar["session_id"]
            /\ jar'["csrf_token"] = [value |-> None, until |-> now + 0]
        BY <1>0, <3>1, ObeyedOne
      <3>. QED BY <1>1, <1>2, <3>2
    <2>2. CASE ~Enveloped
      <3>1. Copied(r.cookies) = <<[name |-> "session_id", value |-> None, age |-> 0],
                                  [name |-> "csrf_token", value |-> None, age |-> 0]>>
        BY <1>4, <2>2 DEF Copied, ClearedCookies
      <3>2. /\ jar'["session_id"] = [value |-> None, until |-> now + 0]
            /\ jar'["csrf_token"] = [value |-> None, until |-> now + 0]
        BY <1>0, <3>1, ObeyedTwo
      <3>. QED BY <1>1, <1>2, <2>2, <3>2
    <2>. QED BY <2>1, <2>2
  <1>5. CASE Holds(r) /\ r.op # "refresh" /\ r.cookies = SessionCookies(r.sid, r.token)
    <2>1. CASE Enveloped
      <3>1. Copied(r.cookies) = <<[name |-> "csrf_token", value |-> r.token, age |-> CookieAge]>>
        BY <1>5, <2>1 DEF Copied, SessionCookies
      <3>2. /\ jar'["session_id"] = jar["session_id"]
            /\ jar'["csrf_token"] = [value |-> r.token, until |-> now + CookieAge]
        BY <1>0, <3>1, ObeyedOne
      <3>. QED BY <1>0, <1>1, <1>2, <1>5, <2>1, <3>2
    <2>2. CASE ~Enveloped
      <3>1. Copied(r.cookies) = <<[name |-> "session_id", value |-> r.sid, age |-> CookieAge],
                                  [name |-> "csrf_token", value |-> r.token, age |-> CookieAge]>>
        BY <1>5, <2>2 DEF Copied, SessionCookies
      <3>2. /\ jar'["session_id"] = [value |-> r.sid, until |-> now + CookieAge]
            /\ jar'["csrf_token"] = [value |-> r.token, until |-> now + CookieAge]
        BY <1>0, <3>1, ObeyedTwo
      <3>. QED BY <1>0, <1>1, <1>2, <1>5, <2>2, <3>2
    <2>. QED BY <2>1, <2>2
  <1>6. CASE /\ Holds(r) /\ r.op = "refresh"
             /\ r.cookies = <<[name |-> "csrf_token", value |-> r.token, age |-> Timeout]>>
    <2>1. Copied(r.cookies) = r.cookies /\ Len(r.cookies) # 2
      BY <1>6 DEF Copied
    <2>2. /\ jar'["session_id"] = jar["session_id"]
          /\ jar'["csrf_token"] = [value |-> r.token, until |-> now + Timeout]
      BY <1>0, <1>6, <2>1, ObeyedOne
    <2>. QED BY <1>0, <1>1, <1>2, <1>6, <2>1, <2>2
  <1>. QED BY <1>0, <1>3, <1>4, <1>5, <1>6 DEF Dressed

LEMMA DeliverStep ==
    ASSUME IInv, NEW p \in Request, Deliver(p)
    PROVE  IInv'
  <1>0. /\ req[p] \in Flight /\ Sound(req[p]) /\ req[p].pc = "reply"
        /\ Holds(req[p]) => Own(req[p].token, req[p].sid)
    <2>1. req[p].pc = "reply"  BY DEF Deliver
    <2>. QED BY <2>1, InFlight DEF IInv, RequestsSound, TokensOwned
  <1>1. /\ UNCHANGED <<now, session, token, state, faults>>
        /\ jar' = Obeyed(Copied(req[p].cookies))
        /\ known' \in {known, known \cup {req[p].token}} /\ (known' # known => Holds(req[p]))
        /\ spent' = IF req[p].ok /\ req[p].op = "callback" THEN spent \cup {req[p].state} ELSE spent
        /\ calm' = (calm \/ (Len(req[p].cookies) = 2 /\ \A q \in Request \ {p} : req[q].pc = "idle"))
    BY DEF Deliver, Holds
  <1>2. req'[p] = Idle /\ Idle.pc = "idle" /\ \A q \in Request : q # p => req'[q] = req[q]
    BY DEF Deliver, IInv, TypeOK, Idle
  <1>3. TypeOK'
    <2>1. known' \subseteq Token /\ spent' \subseteq State
      BY <1>0, <1>1 DEF IInv, TypeOK, Own, Sound
    <2>2. calm' \in BOOLEAN  BY <1>1 DEF IInv, TypeOK
    <2>3. req' \in [Request -> Flight \cup {Idle}]  BY DEF Deliver, IInv, TypeOK
    <2>4. /\ DOMAIN jar' = {"session_id", "csrf_token"}
          /\ jar'["session_id"] \in [value : Sid \cup {None}, until : Horizon]
          /\ jar'["csrf_token"] \in [value : Token \cup {None}, until : Horizon]
      BY <1>0, <1>1, Jars
    <2>. QED BY <1>1, <2>1, <2>2, <2>3, <2>4 DEF IInv, TypeOK
  <1>4. RequestsSound'
    BY <1>2, SMTT(40) DEF IInv, RequestsSound, Sound, Dressed, Holds
  <1>5. TokensOwned'
    BY <1>1, <1>2 DEF IInv, TokensOwned, Holds, Own
  <1>6. JarInv'
    <2>1. Alone'
      BY <1>1, <1>2 DEF IInv, JarInv, Alone
    <2>2. calm' => \A q \in Request : q # p => req[q].pc = "idle"
      BY <1>0, <1>1 DEF IInv, JarInv, Alone
    <2>3. RefreshesOwn'
      BY <1>2, <2>2 DEF RefreshesOwn
    <2>4. NeverGiven'
      BY <1>0, <1>1, Jars DEF IInv, JarInv, NeverGiven
    <2>5. Paired'
      <3>. SUFFICES ASSUME calm', jar'["session_id"].value # None, jar'["csrf_token"].value # None
                    PROVE  Own(jar'["csrf_token"].value, jar'["session_id"].value)
        BY <1>1 DEF Paired, Own
      <3>1. ~Enveloped
        BY <2>4 DEF NeverGiven
      <3>2. CASE /\ Len(req[p].cookies) # 2
                 /\ jar'["session_id"] = jar["session_id"] /\ jar'["csrf_token"] = jar["csrf_token"]
        BY <1>1, <3>2 DEF IInv, JarInv, Paired
      <3>3. CASE Holds(req[p]) /\ jar'["csrf_token"].value = req[p].token /\ jar'["session_id"].value = req[p].sid
        BY <1>0, <3>3
      <3>4. CASE /\ Holds(req[p]) /\ jar'["csrf_token"].value = req[p].token
                 /\ Len(req[p].cookies) # 2 /\ req[p].op = "refresh" /\ jar'["session_id"] = jar["session_id"]
        <4>1. calm  BY <1>1, <3>4
        <4>2. req[p].sid # None  BY <1>0, <3>4 DEF Sound
        <4>3. req[p].sid = jar["session_id"].value
          BY <1>0, <3>4, <4>1, <4>2 DEF IInv, JarInv, RefreshesOwn
        <4>. QED BY <1>0, <3>4, <4>3
      <3>. QED BY <1>0, <1>1, <3>1, <3>2, <3>3, <3>4, Jars
    <2>. QED BY <2>1, <2>3, <2>4, <2>5 DEF JarInv
  <1>7. StateInv'
    <2>1. SpentGone'
      BY <1>0, <1>1 DEF IInv, StateInv, SpentGone, SuccessSpends
    <2>2. Remembering'
      <3>. SUFFICES ASSUME NEW q \in Request, req'[q].pc = "remember"
                    PROVE  /\ req[q].state \notin spent' /\ state[req[q].state] = None
                           /\ \A o \in Request \ {q} : OfState(req'[o]) => req'[o].state # req[q].state
        BY <1>1, <1>2 DEF Remembering, OfState
      <3>1. q # p /\ req'[q] = req[q]  BY <1>2
      <3>2. req[p].op = "callback" => req[p].state # req[q].state
        BY <1>0, <3>1 DEF IInv, StateInv, Remembering, OfState
      <3>. QED BY <1>1, <1>2, <3>1, <3>2 DEF IInv, StateInv, Remembering, OfState
    <2>3. SuccessSpends'
      BY <1>1, <1>2 DEF IInv, StateInv, SuccessSpends
    <2>4. ReplaysRefused'
      BY <1>1, <1>2 DEF IInv, StateInv, ReplaysRefused
    <2>. QED BY <2>1, <2>2, <2>3, <2>4 DEF StateInv
  <1>. QED BY <1>3, <1>4, <1>5, <1>6, <1>7 DEF IInv

-----------------------------------------------------------------------------
(* The theorems.                                                           *)

LEMMA Initially ==
    ASSUME Init
    PROVE  IInv
  <1>1. TypeOK
    BY AgeAssumption, BoundAssumption DEF Init, TypeOK, Horizon
  <1>2. \A p \in Request : req[p].pc = "idle"
    BY DEF Init, Idle
  <1>3. RequestsSound /\ TokensOwned
    BY <1>2 DEF RequestsSound, TokensOwned
  <1>4. JarInv
    BY <1>2 DEF Init, JarInv, Alone, RefreshesOwn, Paired, NeverGiven
  <1>5. StateInv
    BY <1>2 DEF Init, StateInv, SpentGone, Remembering, SuccessSpends, ReplaysRefused
  <1>. QED BY <1>1, <1>3, <1>4, <1>5 DEF IInv

\* A step that only moves the clock or ends a session.
LEMMA OutsideStep ==
    ASSUME IInv, UNCHANGED <<token, state, jar, known, req, spent, calm, faults>>,
           now' \in 0..MaxTime, session' \in [Sid -> SessionRecord \cup {None}]
    PROVE  IInv'
  <1>1. TypeOK'  BY DEF IInv, TypeOK
  <1>2. RequestsSound'
    <2>. SUFFICES ASSUME NEW p \in Request, req[p].pc # "idle" PROVE Sound(req[p])'
      BY DEF RequestsSound
    <2>1. Sound(req[p])  BY DEF IInv, RequestsSound
    <2>. QED BY <2>1 DEF Sound, Dressed, Holds
  <1>3. TokensOwned'  BY DEF IInv, TokensOwned, Holds, Own
  <1>4. JarInv'  BY DEF IInv, JarInv, Alone, RefreshesOwn, Paired, NeverGiven, Own
  <1>5. StateInv'
    BY DEF IInv, StateInv, SpentGone, Remembering, SuccessSpends, ReplaysRefused, OfState
  <1>. QED BY <1>1, <1>2, <1>3, <1>4, <1>5 DEF IInv

LEMMA Inductive ==
    ASSUME IInv, [Next]_vars
    PROVE  IInv'
  <1>1. CASE \E p \in Request : Step(p)
    <2>1. PICK p \in Request : Step(p)  BY <1>1
    <2>. QED
      BY <2>1, SendLogin, SendGoogle, SendCallback, SendPage, ValidateStep, CheckTokenStep, LoadUserStep,
         CreateSessionStep, IssueTokenStep, EndSessionStep, RememberStateStep, ReadStateStep,
         ExchangeStep, ForgetStateStep, RaisesStep, DeliverStep DEF Step
  <1>2. CASE \E s \in Sid : EndElsewhere(s)
    <2>1. PICK s \in Sid : EndElsewhere(s)  BY <1>2
    <2>2. session[s] \in SessionRecord /\ now \in Horizon
      BY <2>1, Ages DEF EndElsewhere, Live, IInv, TypeOK
    <2>3. session' \in [Sid -> SessionRecord \cup {None}]
      BY <2>1, <2>2 DEF EndElsewhere, IInv, TypeOK, SessionRecord
    <2>. QED BY <2>1, <2>3, OutsideStep DEF EndElsewhere, IInv, TypeOK
  <1>3. CASE Tick
    <2>1. now' \in 0..MaxTime  BY <1>3, BoundAssumption DEF Tick, IInv, TypeOK
    <2>2. session' \in [Sid -> SessionRecord \cup {None}]  BY <1>3 DEF Tick, IInv, TypeOK
    <2>. QED BY <1>3, <2>1, <2>2, OutsideStep DEF Tick
  <1>4. CASE UNCHANGED vars
    <2>1. now' \in 0..MaxTime /\ session' \in [Sid -> SessionRecord \cup {None}]
      BY <1>4 DEF vars, IInv, TypeOK
    <2>. QED BY <1>4, <2>1, OutsideStep DEF vars
  <1>. QED BY <1>1, <1>2, <1>3, <1>4 DEF Next

LEMMA Invariant == Spec => []IInv
  <1>. QED BY Initially, Inductive, PTL DEF Spec

\* The state of the browser, of the stores and of the requests stays well formed, for
\* any number of requests, tokens and states.
THEOREM TypeCorrect == Spec => []TypeOK
  <1>1. IInv => TypeOK  BY DEF IInv
  <1>. QED BY <1>1, Invariant, PTL

\* A browser that waits for its answers never holds the token of another session, with
\* the envelope or without it. (auth.py, dependencies.py 123)
THEOREM Together == Spec => []CookiesBelongTogether
  <1>1. IInv => CookiesBelongTogether
    BY DEF IInv, TypeOK, JarInv, Paired, Own, CookiesBelongTogether, Held
  <1>. QED BY <1>1, Invariant, PTL

\* However callbacks, errors and sign-ins elsewhere interleave, a state whose callback
\* was answered with success signs nobody in again. (auth.py 390)
THEOREM Spent == Spec => []StateIsSpent
  <1>1. IInv => StateIsSpent
    BY DEF IInv, StateInv, ReplaysRefused, StateIsSpent
  <1>. QED BY <1>1, Invariant, PTL
=============================================================================
