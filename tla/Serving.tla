------------------------------ MODULE Serving ------------------------------
(***************************************************************************)
(* The process and the requests it serves: Application and RateRules       *)
(* together.  The rate check waits for the event the lifespan sets, and    *)
(* charges the backend the lifespan registered.                            *)
(***************************************************************************)
EXTENDS Naturals, FiniteSets

CONSTANTS Settings, Instance,
          RuleId, RuleName, Tier, Path, Limit, Default, Resident, NewRule, Change,
          Proc, None, MaxRequests

VARIABLES settings, phase, registered, open, ready, manager, warned, leaked,
          rules, req, started

App   == INSTANCE Application
Rules == INSTANCE RateRules

ASSUME SettingsAssumption == Settings \subseteq App!Configuration
ASSUME RulesAssumption    == Rules!Given

process  == <<settings, phase, registered, open, ready, manager, warned, leaked>>
requests == <<rules, req, started>>
vars     == <<process, requests>>

Init == App!Init /\ Rules!Init

\* The server lets requests in between start-up and shut-down, and shuts down when they
\* are answered.  With the limiter off, no check is made and none of this is reached.
Arrive == /\ phase = "serving" /\ settings.limiter
          /\ \E p \in Proc : Rules!Ask(p)
          /\ UNCHANGED process
Work == (\E p \in Proc : Rules!Step(p)) /\ UNCHANGED process
Start == App!StartOrClose /\ UNCHANGED requests
FirstUse == App!BuildManager /\ UNCHANGED requests
ShutDown == (\A p \in Proc : req[p].pc = "idle") /\ App!Stop /\ UNCHANGED requests
\* The process is gone.
Gone == phase = "stopped" /\ UNCHANGED vars

Next == Arrive \/ Work \/ Start \/ FirstUse \/ ShutDown \/ Gone

Spec == Init /\ [][Next]_vars

\* The lifespan and the requests are coroutines the event loop keeps running.
FairSpec == Spec /\ WF_vars(Start) /\ WF_vars(Work)

-----------------------------------------------------------------------------
TypeOK == App!TypeOK /\ Rules!TypeOK

\* The properties of the two modules, of the process as a whole.
\* A production process serves with checked settings (main.py).
ProductionIsChecked == App!ProductionIsChecked
\* What the lifespan opened is closed.
ClosesWhatItOpened  == App!ClosesWhatItOpened
\* Start-up and shut-down end.
StartsOrStops       == App!StartsOrStops
\* The check charges a limit in force while administrators change the rules.
LimitInForce        == Rules!LimitInForce

\* Nobody uses the rate limiter before it is there.  With a backend that
\* initialize_rate_limiter knows, the provider has it whenever a request is charged,
\* and a session manager, built once and kept, always has its login throttle.
LimiterReady ==
    /\ (\E p \in Proc : req[p].pc = "charge") /\ settings.limiterBackend # "memory"
          => "limiter" \in registered
    /\ App!LoginsThrottled
=============================================================================
