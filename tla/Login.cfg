SPECIFICATION FairSpec
CONSTANTS
    Ip = {i1}
    Name = {n1}
    Proc = {p1, p2}
    Backends = {"redis", "memcached"}
    FailOpen = FALSE
    MaxAttempts = 2
    LoginWindow = 2
    Cap = 3
    MaxFaults = 1
INVARIANTS
    TypeOK
    AttemptsBounded
    SuccessClears
PROPERTIES
    LockoutEnds
