SPECIFICATION Spec
CONSTANTS
    u1 = u1
    Sid = {s1}
    User = {u1}
    Proc = {p1, p2}
    NoSid = NoSid
    Owner <- OneUser
    MaxSessions = 1
    Timeout = 2
    Grace = 1
    CleanupInterval = 1
    MaxTime = 0
    MaxLatency = 0
    MaxFaults = 0
SYMMETRY Symmetry
INVARIANTS
    LogoutIsFinal
