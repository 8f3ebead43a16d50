----------------------------- MODULE AuthRoutes -----------------------------
(***************************************************************************)
(* One browser and the routes of api/v1/auth.py: password and Google       *)
(* sign-in, logout, the refresh of a CSRF token, and pages and changes     *)
(* behind the dependencies of core/auth/session/dependencies.py.  A step   *)
(* is one await on the storage of sessions, CSRF tokens or OAuth states,   *)
(* or the delivery of the answer with its cookies.                         *)
(*                                                                         *)
(* Sessions are those of SessionContract, with the time they end: Sessions *)
(* is the detailed module.  Google, and FastAPI's handling of a response   *)
(* that a route returns itself, are external.                              *)
(***************************************************************************)
EXTENDS Integers, Sequences, FiniteSets

CONSTANTS
    Sid, Token, State,  \* identifiers: uuid4, token_hex, token_urlsafe
    User, Request,
    None,
    Timeout,      \* session_timeout, and the TTL of sessions and CSRF tokens
    CookieAge,    \* SESSION_COOKIE_MAX_AGE
    StateAge,     \* the 1800 s an OAuth state is kept
    CsrfEnabled,  \* CSRF_ENABLED
    Enveloped,    \* whether answers pass through UnifiedResponseRoute
    MaxTime, MaxFaults  \* bounds

ASSUME AgeAssumption   == {Timeout, CookieAge, StateAge} \subseteq Nat \ {0}
ASSUME FlagAssumption  == CsrfEnabled \in BOOLEAN /\ Enveloped \in BOOLEAN
ASSUME BoundAssumption == MaxTime \in Nat /\ MaxFaults \in Nat

VARIABLES
    now,
    session,  \* for each session its user and the time it ends, or None
    token,    \* for each CSRF token its record, or None
    state,    \* for each OAuth state the time its record is dropped, or None
    jar,      \* the browser's cookies, with the time each ends
    known,    \* the tokens the page's script has been told
    req,      \* requests in flight
    spent,    \* history: states of callbacks answered with success
    calm,     \* history: since both cookies were last set alone, no two requests overlapped
    faults

vars == <<now, session, token, state, jar, known, req, spent, calm, faults>>

-----------------------------------------------------------------------------
Horizon == 0..(MaxTime + Timeout + CookieAge + StateAge)
SessionRecord == [user : User, until : Horizon]
CSRFToken == [session : Sid, expiry : Horizon, until : Horizon]
ASSUME NoneAssumption == None \notin CSRFToken

SetCookie == [name : {"session_id", "csrf_token"}, value : Sid \cup Token \cup {None}, age : Horizon]

Op == {"login", "google", "callback", "page", "change", "refresh", "logout"}
PC == {"remember", "state", "exchange", "create", "issue", "forget",
       "validate", "csrf", "user", "end", "reply"}
Idle == [pc |-> "idle"]
Flight == [pc : PC, op : Op, user : User \cup {None}, sid : Sid \cup {None}, token : Token \cup {None},
           state : State \cup {None}, redirect : BOOLEAN, expiry : Horizon, replay : BOOLEAN,
           ok : BOOLEAN, cookies : Seq(SetCookie)]

TypeOK ==
    /\ now \in 0..MaxTime /\ faults \in 0..MaxFaults /\ calm \in BOOLEAN
    /\ session \in [Sid -> SessionRecord \cup {None}]
    /\ token \in [Token -> CSRFToken \cup {None}]
    /\ state \in [State -> Horizon \cup {None}]
    /\ DOMAIN jar = {"session_id", "csrf_token"}
    /\ jar["session_id"] \in [value : Sid \cup {None}, until : Horizon]
    /\ jar["csrf_token"] \in [value : Token \cup {None}, until : Horizon]
    /\ known \subseteq Token /\ spent \subseteq State
    /\ req \in [Request -> Flight \cup {Idle}]

Init ==
    /\ now = 0 /\ faults = 0 /\ calm = TRUE
    /\ session = [s \in Sid |-> None]
    /\ token = [t \in Token |-> None]
    /\ state = [x \in State |-> None]
    /\ jar = [n \in {"session_id", "csrf_token"} |-> [value |-> None, until |-> 0]]
    /\ known = {} /\ spent = {}
    /\ req = [p \in Request |-> Idle]

-----------------------------------------------------------------------------
(* Cookies *)

Held(n) == IF now < jar[n].until THEN jar[n].value ELSE None

SessionCookiesOnce(s, t) ==   \* mutant: a CSRF cookie that is there is kept
    <<[name |-> "session_id", value |-> s, age |-> CookieAge]>>
        \o (IF Held("csrf_token") # None THEN <<>>
             ELSE <<[name |-> "csrf_token", value |-> t, age |-> CookieAge]>>)
SessionCookiesSwapped(s, t) ==   \* mutant: the pair of create_session is taken in the other order
    <<[name |-> "session_id", value |-> t, age |-> CookieAge],
      [name |-> "csrf_token", value |-> s, age |-> CookieAge]>>
SessionCookies(s, t) ==
    <<[name |-> "session_id", value |-> s, age |-> CookieAge],
      [name |-> "csrf_token", value |-> t, age |-> CookieAge]>>

ClearedCookies ==
    <<[name |-> "session_id", value |-> None, age |-> 0],
      [name |-> "csrf_token", value |-> None, age |-> 0]>>

\* The envelope copies headers by assignment: one name, one value.
Copied(cookies) ==
    IF Enveloped /\ cookies # <<>> THEN <<cookies[Len(cookies)]>> ELSE cookies

\* A browser obeys the Set-Cookie headers in their order.
Obeyed(cookies) ==
    [n \in DOMAIN jar |->
        LET mine == {i \in DOMAIN cookies : cookies[i].name = n} IN
        IF mine = {} THEN jar[n]
        ELSE LET c == cookies[CHOOSE i \in mine : \A j \in mine : j <= i]
             IN  [value |-> c.value, until |-> now + c.age]]

-----------------------------------------------------------------------------
(* The browser sends a request *)

Live(s) == s # None /\ session[s] # None /\ now < session[s].until
Stored(t) == t # None /\ token[t] # None /\ now < token[t].until
NewSid(s) == session[s] = None /\ \A p \in Request : req[p].pc # "idle" => req[p].sid # s
NewState(x) == state[x] = None /\ x \notin spent
                 /\ \A p \in Request : req[p].pc # "idle" => req[p].state # x

\* Bound: a token is left for each request in flight that may draw one.
TokenLeft ==
    Cardinality({p \in Request : req[p].pc # "idle" /\ req[p].op \in {"login", "callback", "refresh"}})
        < Cardinality({t \in Token : token[t] = None})

Blank == [pc |-> "reply", op |-> "page", user |-> None, sid |-> None, token |-> None, state |-> None,
          redirect |-> FALSE, expiry |-> 0, replay |-> FALSE, ok |-> FALSE, cookies |-> <<>>]

Send(p, r) ==
    /\ req[p].pc = "idle"
    /\ req' = [req EXCEPT ![p] = r]
    /\ calm' = (calm /\ \A q \in Request : req[q].pc = "idle")
    /\ UNCHANGED <<now, session, token, state, jar, known, spent, faults>>

\* login, after its password was accepted: LoginThrottle and Accounts.
Login(p) == \E u \in User, s \in Sid :
    /\ NewSid(s) /\ TokenLeft
    /\ Send(p, [Blank EXCEPT !.op = "login", !.pc = "create", !.user = u, !.sid = s])

GoogleLogin(p) == \E x \in State :
    NewState(x) /\ Send(p, [Blank EXCEPT !.op = "google", !.pc = "remember", !.state = x])

\* The browser comes back from Google, or the user asks for the page again.
Callback(p) == \E x \in State, redirect \in BOOLEAN :
    /\ (state[x] # None \/ x \in spent) /\ TokenLeft
    /\ Send(p, [Blank EXCEPT !.op = "callback", !.pc = "state", !.state = x,
                             !.redirect = redirect, !.replay = x \in spent])

Page(p) == Send(p, [Blank EXCEPT !.op = "page", !.pc = "validate", !.sid = Held("session_id")])

\* A change, with a token in the header or without: the header is preferred.
Change(p) == \E header \in known \cup {None} :
    Send(p, [Blank EXCEPT !.op = "change", !.pc = "validate", !.sid = Held("session_id"),
                          !.token = IF header # None THEN header ELSE Held("csrf_token")])

Refresh(p) ==
    /\ TokenLeft
    /\ Send(p, [Blank EXCEPT !.op = "refresh", !.pc = "validate", !.sid = Held("session_id")])

Logout(p) == Send(p, [Blank EXCEPT !.op = "logout", !.pc = "validate", !.sid = Held("session_id")])

-----------------------------------------------------------------------------
(* Its steps *)

Refused(r) == [r EXCEPT !.pc = "reply", !.ok = FALSE]
Success(r, cookies) == [r EXCEPT !.pc = "reply", !.ok = TRUE, !.cookies = cookies]

\* validate_session, and what the route does next.
Validate(p) ==
    LET r == req[p]
        admitted == CASE r.op = "page"    -> Success(r, <<>>)
                      [] r.op = "change"  -> [r EXCEPT !.pc = IF CsrfEnabled THEN "csrf" ELSE "user"]
                      [] r.op = "refresh" -> [r EXCEPT !.pc = "issue", !.expiry = now + Timeout]
                      [] r.op = "logout"  -> [r EXCEPT !.pc = "end"]
    IN  /\ r.pc = "validate"
        /\ IF Live(r.sid)
             THEN /\ session' = [session EXCEPT ![r.sid].until = now + Timeout]
                  /\ req' = [req EXCEPT ![p] = admitted]
             ELSE /\ req' = [req EXCEPT ![p] = Refused(r)]
                  /\ session' = session
        /\ UNCHANGED <<now, token, state, jar, known, spent, calm, faults>>

\* validate_csrf_token; an expired token is deleted.
CheckToken(p) ==
    LET r == req[p]
        expired == Stored(r.token) /\ token[r.token].session = r.sid /\ token[r.token].expiry < now
        valid == Stored(r.token) /\ token[r.token].session = r.sid /\ ~expired
    IN  /\ r.pc = "csrf"
        /\ req' = [req EXCEPT ![p] = IF valid THEN [r EXCEPT !.pc = "user"] ELSE Refused(r)]
        /\ token' = IF expired THEN [token EXCEPT ![r.token].until = now] ELSE token
        /\ UNCHANGED <<now, session, state, jar, known, spent, calm, faults>>

\* get_current_user: the row may be gone since the sign-in.
LoadUser(p) ==
    /\ req[p].pc = "user"
    /\ \E found \in BOOLEAN :
         req' = [req EXCEPT ![p] = IF found THEN Success(req[p], <<>>) ELSE Refused(req[p])]
    /\ UNCHANGED <<now, session, token, state, jar, known, spent, calm, faults>>

\* create_session stores the session; the expiry of its token is set next.
CreateSession(p) ==
    LET r == req[p] IN
    /\ r.pc = "create"
    /\ session' = [session EXCEPT ![r.sid] = [user |-> r.user, until |-> now + Timeout]]
    /\ req' = [req EXCEPT ![p] = [r EXCEPT !.pc = "issue", !.expiry = now + Timeout]]
    /\ UNCHANGED <<now, token, state, jar, known, spent, calm, faults>>

\* _generate_csrf_token stores a new token; the older ones stay.
IssueToken(p) == req[p].pc = "issue" /\ \E t \in Token :
    LET r == [req[p] EXCEPT !.token = t] IN
    /\ token[t] = None
    /\ token' = [token EXCEPT ![t] = [session |-> r.sid, expiry |-> r.expiry, until |-> now + Timeout]]
    /\ req' = [req EXCEPT ![p] =
                 CASE r.op = "login"    -> Success(r, SessionCookies(r.sid, t))
                   [] r.op = "callback" -> [r EXCEPT !.pc = "forget"]
                   [] r.op = "refresh"  -> Success(r, <<[name |-> "csrf_token", value |-> t, age |-> Timeout]>>)]
    /\ UNCHANGED <<now, session, state, jar, known, spent, calm, faults>>

EndSession(p) ==
    /\ req[p].pc = "end"
    /\ session' = IF Live(req[p].sid) THEN [session EXCEPT ![req[p].sid].until = now] ELSE session
    /\ req' = [req EXCEPT ![p] = Success(@, ClearedCookies)]
    /\ UNCHANGED <<now, token, state, jar, known, spent, calm, faults>>

RememberState(p) ==
    /\ req[p].pc = "remember"
    /\ state' = [state EXCEPT ![req[p].state] = now + StateAge]
    /\ req' = [req EXCEPT ![p] = Success(@, <<>>)]
    /\ UNCHANGED <<now, session, token, jar, known, spent, calm, faults>>

ReadState(p) ==
    LET r == req[p] IN
    /\ r.pc = "state"
    /\ req' = [req EXCEPT ![p] = IF state[r.state] # None /\ now < state[r.state]
                                   THEN [r EXCEPT !.pc = "exchange"] ELSE Refused(r)]
    /\ UNCHANGED <<now, session, token, state, jar, known, spent, calm, faults>>

\* Google exchanges the code and tells who it is, or does not.
Exchange(p) ==
    /\ req[p].pc = "exchange"
    /\ \/ req' = [req EXCEPT ![p] = Refused(@)]
       \/ \E u \in User, s \in Sid :
            NewSid(s) /\ req' = [req EXCEPT ![p] = [@ EXCEPT !.pc = "create", !.user = u, !.sid = s]]
    /\ UNCHANGED <<now, session, token, state, jar, known, spent, calm, faults>>

ForgottenNot(x) == state   \* mutant: the state stays until its time is over
Forgotten(x) == [state EXCEPT ![x] = None]

\* The cookies are on the injected response: FastAPI sends a redirect that
\* the route returns as it is, without them.
ForgetState(p) ==
    LET r == req[p] IN
    /\ r.pc = "forget"
    /\ state' = Forgotten(r.state)
    /\ req' = [req EXCEPT ![p] = Success(r, IF r.redirect THEN <<>> ELSE SessionCookies(r.sid, r.token))]
    /\ UNCHANGED <<now, session, token, jar, known, spent, calm, faults>>

\* The storage raises.  terminate_session swallows it, every other await
\* ends in a refusal or an error, and what was stored before stays.
Raises(p) ==
    LET r == req[p] IN
    /\ faults < MaxFaults /\ faults' = faults + 1
    /\ r.pc \in {"remember", "state", "create", "issue", "forget", "validate", "csrf", "end"}
    /\ req' = [req EXCEPT ![p] = IF r.pc = "end" THEN Success(r, ClearedCookies) ELSE Refused(r)]
    /\ UNCHANGED <<now, session, token, state, jar, known, spent, calm>>

SignsIn(r) == r.ok /\ r.op \in {"login", "callback"}

\* The answer reaches the browser; a JSON body tells the new token.
Deliver(p) ==
    LET r == req[p] IN
    /\ r.pc = "reply"
    /\ jar' = Obeyed(Copied(r.cookies))
    /\ known' = IF r.ok /\ r.op \in {"login", "callback", "refresh"} /\ ~r.redirect
                  THEN known \cup {r.token} ELSE known
    /\ spent' = IF r.ok /\ r.op = "callback" THEN spent \cup {r.state} ELSE spent
    /\ calm' = (calm \/ (Len(r.cookies) = 2 /\ \A q \in Request \ {p} : req[q].pc = "idle"))
    /\ req' = [req EXCEPT ![p] = Idle]
    /\ UNCHANGED <<now, session, token, state, faults>>

\* Eviction by a sign-in elsewhere.
EndElsewhere(s) ==
    /\ Live(s)
    /\ session' = [session EXCEPT ![s].until = now]
    /\ UNCHANGED <<now, token, state, jar, known, req, spent, calm, faults>>

Tick ==
    /\ now < MaxTime /\ now' = now + 1
    /\ UNCHANGED <<session, token, state, jar, known, req, spent, calm, faults>>

Step(p) ==
    \/ Login(p) \/ GoogleLogin(p) \/ Callback(p) \/ Page(p) \/ Change(p) \/ Refresh(p) \/ Logout(p)
    \/ Validate(p) \/ CheckToken(p) \/ LoadUser(p) \/ CreateSession(p) \/ IssueToken(p)
    \/ EndSession(p) \/ RememberState(p) \/ ReadState(p) \/ Exchange(p) \/ ForgetState(p)
    \/ Raises(p) \/ Deliver(p)

Next == (\E p \in Request : Step(p)) \/ (\E s \in Sid : EndElsewhere(s)) \/ Tick

Spec == Init /\ [][Next]_vars

-----------------------------------------------------------------------------
(* Properties *)

\* A browser that waits for each answer holds the token of the session it
\* holds, through new sign-ins, refreshes, logouts, errors and expiry.
\* (dependencies.py 123: any other token is refused.)
CookiesBelongTogether ==
    calm /\ Held("session_id") # None /\ Held("csrf_token") # None
        => token[Held("csrf_token")].session = Held("session_id")

\* Once a callback was answered with success, its state opens nothing more,
\* whoever asks and however often. (auth.py 390)
StateIsSpent == \A p \in Request : req[p].pc # "idle" /\ req[p].replay => req[p].sid = None

\* A sign-in that is answered with success gives the browser its session.
SignInGivesSession ==
    [][\A p \in Request : req[p].pc = "reply" /\ SignsIn(req[p]) /\ req'[p].pc = "idle"
          => jar'["session_id"].value = req[p].sid]_vars
=============================================================================
