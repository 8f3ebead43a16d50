SPECIFICATION Spec
CONSTANTS
    Key = {k1}
    Proc = {p1, p2}
    Backends = {"redis", "memcached"}
    Ops = {"check", "increment", "count", "reset"}
    Limit = 1
    Period = 2
    LongestTtl = 9
    Configured = "open"
    Override = {"none", "closed"}
    MaxTime = 3
    MaxLatency = 2
    MaxServed = 2
    MaxFaults = 1
SYMMETRY Symmetry
INVARIANTS
    TypeOK
    WindowLimit
    LateLimit
    LimitedOnlyAfterLimit
    OverridesAreTemporary
CHECK_DEADLOCK FALSE
