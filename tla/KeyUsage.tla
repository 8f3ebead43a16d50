------------------------------ MODULE KeyUsage ------------------------------
(***************************************************************************)
(* The figures get_usage_analytics reports of the use of an API key: the   *)
(* functions of models/api_key.py on the usage records it read.  Tokens    *)
(* are added up as costs are, so one amount stands for either; the average *)
(* response time is left out.  The records read are a function from their  *)
(* places in the table, in whose order they are met.                       *)
(***************************************************************************)
EXTENDS Integers, FiniteSets

CONSTANTS
    Status, Endpoint,  \* status codes and end points of recorded requests
    Amount,            \* costs, or numbers of tokens
    None               \* an amount that was not recorded

ASSUME AmountAssumption == Amount \subseteq Nat /\ None \notin Amount

Usage(day) == [status : Status, endpoint : Endpoint, amount : Amount \cup {None}, day : day]

\* The sum of the naturals f[x]: so many pairs <<x, n>> with n up to f[x].
Pairs(f) == UNION {{x} \X (1..f[x]) : x \in DOMAIN f}
Added(f) == Cardinality(Pairs(f))

Total(rows) == Added([i \in {j \in DOMAIN rows : rows[j].amount # None} |-> rows[i].amount])

\* Mutant: redirects are successes too, by the day only.
SucceededBelow400(u) == u.status \in 200..399

Succeeded(u) == u.status \in 200..299

\* calculate_basic_metrics
BasicMetrics(rows) ==
    LET requests  == Cardinality(DOMAIN rows)
        succeeded == Cardinality({i \in DOMAIN rows : rows[i].status \in 200..299})
    IN [requests |-> requests, succeeded |-> succeeded,
        failed |-> requests - succeeded, amount |-> Total(rows)]

\* calculate_endpoint_usage: the limit most used with their counts; of two used as
\* much the one that was met first.
EndpointUsage(rows, limit) ==
    LET names    == {rows[i].endpoint : i \in DOMAIN rows}
        calls(e) == {i \in DOMAIN rows : rows[i].endpoint = e}
        count(e) == Cardinality(calls(e))
        before(e, f) == \/ count(e) > count(f)
                        \/ count(e) = count(f) /\ \E i \in calls(e) : \A j \in calls(f) : i < j
        place(e) == Cardinality({f \in names : before(f, e)})
    IN [e \in {f \in names : place(f) < limit} |-> count(e)]

\* calculate_error_breakdown
ErrorBreakdown(rows) ==
    [s \in {rows[i].status : i \in DOMAIN rows} \ (0..399) |->
        Cardinality({i \in DOMAIN rows : rows[i].status = s})]

\* calculate_daily_usage; every record has its creation time.
DailyUsage(rows) ==
    [d \in {rows[i].day : i \in DOMAIN rows} |->
        LET that == {i \in DOMAIN rows : rows[i].day = d}
            good == {i \in that : Succeeded(rows[i])}
        IN [requests |-> Cardinality(that), succeeded |-> Cardinality(good),
            failed |-> Cardinality(that \ good), amount |-> Total([i \in that |-> rows[i]])]]

-----------------------------------------------------------------------------
\* The parts of the report agree: the days add up to the totals, errors are failures,
\* and the end points listed are the most used, all requests when few enough.
Agree(rows, limit) ==
    LET basic == BasicMetrics(rows)
        daily == DailyUsage(rows)
        errors == ErrorBreakdown(rows)
        top   == EndpointUsage(rows, limit)
        days  == DOMAIN daily
        calls(e) == {i \in DOMAIN rows : rows[i].endpoint = e}
    IN /\ Added([d \in days |-> daily[d].requests])  = basic.requests
       /\ Added([d \in days |-> daily[d].succeeded]) = basic.succeeded
       /\ Added([d \in days |-> daily[d].failed])    = basic.failed
       /\ Added([d \in days |-> daily[d].amount])    = basic.amount
       /\ Added(errors) <= basic.failed
       /\ Added(top) <= basic.requests
       /\ Cardinality({rows[i].endpoint : i \in DOMAIN rows}) <= limit => Added(top) = basic.requests
       /\ \A i \in DOMAIN rows : rows[i].endpoint \notin DOMAIN top =>
             \A e \in DOMAIN top : Cardinality(calls(rows[i].endpoint)) <= top[e]
=============================================================================
