SPECIFICATION FairSpec
CONSTANTS
    d1 = d1
    d2 = d2
    r1 = r1
    r2 = r2
    a = a
    b = b
    t1 = t1
    t2 = t2
    x1 = x1
    x2 = x2
    low = low
    high = high
    usual = usual
    p1 = p1
    p2 = p2
    none = none
    Settings <- MCSettings
    Instance = {d1, d2}
    RuleId = {r1, r2}
    RuleName = {a, b}
    Tier = {t1, t2}
    Path = {x1, x2}
    Limit = {low, high}
    Default = usual
    Resident <- MCResident
    NewRule <- MCNewRule
    Change <- MCChange
    Proc = {p1, p2}
    MaxRequests = 3
    None = none
INVARIANTS
    TypeOK
    ProductionIsChecked
    ClosesWhatItOpened
    LimiterReady
    LimitInForce
PROPERTIES
    StartsOrStops
