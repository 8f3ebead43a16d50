----------------------------- MODULE RateRules -----------------------------
(***************************************************************************)
(* Rate limit rules: RateLimitService (services/rate_limit.py) behind the  *)
(* routes of api/v1/rate_limits.py, and the check that resolves the limit  *)
(* of a request (middleware/rate_limit.py).  Every await on the database   *)
(* is a step.                                                              *)
(***************************************************************************)
EXTENDS Naturals, FiniteSets

CONSTANTS
    RuleId, RuleName, Tier, Path,
    Limit, Default,   \* limits a rule may set (with their periods), and the default one
    Resident,         \* rows of the rules made earlier
    NewRule, Change,  \* what an administrator may create, or change in a rule
    Proc,             \* requests that may be in flight at once
    None,
    MaxRequests       \* bound: requests in a behaviour

Rule   == [name : RuleName, tier : Tier, path : Path, limit : Limit]
Values == [name : RuleName \cup {None}, path : Path \cup {None}, limit : Limit \cup {None}]

\* What the constants are assumed to be; the names of the resident rules are unique.
Given ==
    /\ None \notin RuleId \cup RuleName \cup Tier \cup Path \cup Limit \cup {Default}
    /\ DOMAIN Resident \subseteq RuleId
    /\ \A r \in DOMAIN Resident : Resident[r] \in Rule
    /\ \A r, s \in DOMAIN Resident : r # s => Resident[r].name # Resident[s].name
    /\ NewRule \subseteq Rule /\ Change \subseteq Values
    /\ MaxRequests \in Nat

VARIABLES
    rules,    \* rules[r]: the row with id r, or None
    req,      \* req[p]: the request in slot p
    started,  \* requests so far
    ready     \* initialization_complete (module Application)

own == <<rules, req, started>>

\* name: the rule an administrator names; found: the row that had it; tier, path: of a
\* request to be checked; limit: the limit it is charged.
\* History: seen, every limit in force for it since it began.
Request == [op : {"none", "check", "create", "update", "delete"},
            pc : {"idle", "wait", "rule", "charge", "find", "unique", "write"},
            name : RuleName \cup {None}, found : RuleId \cup {None}, values : Values \cup Rule,
            tier : Tier \cup {None}, path : Path \cup {None},
            limit : Limit \cup {Default, None}, seen : SUBSET (Limit \cup {Default})]

Nothing == [name |-> None, path |-> None, limit |-> None]
Idle == [op |-> "none", pc |-> "idle", name |-> None, found |-> None, values |-> Nothing,
         tier |-> None, path |-> None, limit |-> None, seen |-> {}]

-----------------------------------------------------------------------------
Exists == {r \in RuleId : rules[r] # None}
Named(n) == {r \in Exists : rules[r].name = n}

\* Mutant: any tier's rule.
MatchingAnyTier(t, x) == {r \in Exists : rules[r].path = x}

\* The rules of tier t for path x.  There may be several, and the query takes one of
\* them.  The query by the sanitized path comes first and finds nothing: a stored path
\* begins with a slash, a sanitized one does not.
Matching(t, x) == {r \in Exists : rules[r].tier = t /\ rules[r].path = x}

\* The unique index on the name: n cannot be stored in row r.
Conflict(n, r) == Named(n) \ {r} # {}

\* Reference: the limits that may be charged to a request of tier t for path x when
\* the rows are rs.
InForce(rs, t, x) ==
    LET mine == {r \in RuleId : rs[r] # None /\ rs[r].tier = t /\ rs[r].path = x}
    IN  IF mine = {} THEN {Default} ELSE {rs[r].limit : r \in mine}

Init ==
    /\ rules = [r \in RuleId |-> IF r \in DOMAIN Resident THEN Resident[r] ELSE None]
    /\ req = [p \in Proc |-> Idle]
    /\ started = 0

Begin(p, r) ==
    /\ req[p] = Idle
    /\ started < MaxRequests
    /\ started' = started + 1
    /\ req' = [req EXCEPT ![p] = r]
    /\ UNCHANGED rules

Advance(p, r) == req' = [req EXCEPT ![p] = r] /\ UNCHANGED <<rules, started>>
Answer(p)     == Advance(p, Idle)

\* Row r becomes row, and request p is answered.
Store(p, r, row) ==
    LET new == [rules EXCEPT ![r] = row] IN
    /\ rules' = new
    /\ req' = [q \in Proc |-> IF q = p THEN Idle
                              ELSE IF req[q].op = "check"
                                   THEN [req[q] EXCEPT !.seen = @ \cup InForce(new, req[q].tier, req[q].path)]
                                   ELSE req[q]]
    /\ UNCHANGED started

-----------------------------------------------------------------------------
(* The check.  A request without a tier is an anonymous one, or one of a   *)
(* user without a tier; both are charged the default limit.                *)

AskCheck(p) == \E t \in Tier \cup {None}, x \in Path :
    Begin(p, [Idle EXCEPT !.op = "check", !.pc = "wait", !.tier = t, !.path = x,
                          !.seen = InForce(rules, t, x)])

\* The wait for initialization_complete, then the query for the user's tier.
Wait(p) ==
    /\ req[p].pc = "wait" /\ ready
    /\ Advance(p, IF req[p].tier = None THEN [req[p] EXCEPT !.pc = "charge", !.limit = Default]
                                        ELSE [req[p] EXCEPT !.pc = "rule"])

Resolve(p) ==
    /\ req[p].pc = "rule"
    /\ LET mine == Matching(req[p].tier, req[p].path) IN
          \/ mine = {} /\ Advance(p, [req[p] EXCEPT !.pc = "charge", !.limit = Default])
          \/ \E r \in mine : Advance(p, [req[p] EXCEPT !.pc = "charge", !.limit = rules[r].limit])

\* increment_and_check charges the limit (module RateLimiter); the request goes on, or
\* is blocked.
Charge(p) == req[p].pc = "charge" /\ Answer(p)

-----------------------------------------------------------------------------
(* Administration, for superusers only.                                    *)

\* create: the name is tested in one query and inserted in another.
AskCreate(p) == \E v \in NewRule :
    /\ Cardinality({q \in Proc : req[q].op = "create"}) < Cardinality(RuleId \ Exists)  \* bound: rows
    /\ Begin(p, [Idle EXCEPT !.op = "create", !.pc = "unique", !.name = v.name, !.values = v])

Insert(p) ==
    /\ req[p].pc = "write" /\ req[p].op = "create"
    /\ \E r \in RuleId \ Exists :
          IF Conflict(req[p].name, r) THEN Answer(p) ELSE Store(p, r, req[p].values)

\* update_rate_limit and delete_rate_limit.
AskUpdate(p) == \E n \in RuleName, v \in Change :
    Begin(p, [Idle EXCEPT !.op = "update", !.pc = "find", !.name = n, !.values = v])

AskDelete(p) == \E n \in RuleName :
    Begin(p, [Idle EXCEPT !.op = "delete", !.pc = "find", !.name = n])

\* update and delete look the name up first.
Find(p) ==
    /\ req[p].pc = "find"
    /\ \/ Named(req[p].name) = {} /\ Answer(p)
       \/ \E r \in Named(req[p].name) :
             Advance(p, [req[p] EXCEPT !.found = r,
                           !.pc = IF req[p].op = "update" /\ req[p].values.name \notin {None, req[p].name}
                                  THEN "unique" ELSE "write"])

\* The name a rule is to have must be free.
Unique(p) ==
    /\ req[p].pc = "unique"
    /\ IF Named(req[p].values.name) # {} THEN Answer(p)
       ELSE Advance(p, [req[p] EXCEPT !.pc = "write"])

\* Mutant: an update also writes the fields it was not given.
ChangedAll(row, v) == [row EXCEPT !.name = v.name, !.path = v.path, !.limit = v.limit]

\* model_dump(exclude_unset=True).
Changed(row, v) == [row EXCEPT !.name  = IF v.name = None THEN @ ELSE v.name,
                               !.path  = IF v.path = None THEN @ ELSE v.path,
                               !.limit = IF v.limit = None THEN @ ELSE v.limit]

\* update writes WHERE name = the name it was given, whichever row has it now.
Update(p) ==
    /\ req[p].pc = "write" /\ req[p].op = "update"
    /\ LET v == req[p].values IN
          \/ Named(req[p].name) = {} /\ Answer(p)
          \/ \E r \in Named(req[p].name) :
                IF v.name # None /\ Conflict(v.name, r) THEN Answer(p)
                ELSE Store(p, r, Changed(rules[r], v))

\* delete removes the row for good, by name as well.
Delete(p) ==
    /\ req[p].pc = "write" /\ req[p].op = "delete"
    /\ \/ Named(req[p].name) = {} /\ Answer(p)
       \/ \E r \in Named(req[p].name) : Store(p, r, None)

Ask(p)  == AskCheck(p) \/ AskCreate(p) \/ AskUpdate(p) \/ AskDelete(p)
Step(p) == \/ Wait(p) \/ Resolve(p) \/ Charge(p) \/ Insert(p) \/ Find(p) \/ Unique(p)
           \/ Update(p) \/ Delete(p)

-----------------------------------------------------------------------------
TypeOK ==
    /\ rules \in [RuleId -> Rule \cup {None}]
    /\ req \in [Proc -> Request]
    /\ started \in 0..MaxRequests

\* A request is charged a limit that was in force for its tier and path at some moment
\* between its arrival and its charge, however the rules change meanwhile.
LimitInForce == \A p \in Proc : req[p].pc = "charge" => req[p].limit \in req[p].seen
=============================================================================
