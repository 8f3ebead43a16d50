SPECIFICATION FairSpec
CONSTANTS
    u1 = u1
    Sid = {s1, s2, s3}
    User = {u1}
    NoSid = NoSid
    Owner <- OneUser
    Proc = {p1}
    MaxSessions = 2
    Timeout = 2
    Grace = 1
    CleanupInterval = 1
    MaxTime = 4
    MaxLatency = 0
    MaxFaults = 0
PROPERTIES
    EvictsOldestFirst
    KeepsContract
    RequestAnswered
