SPECIFICATION Spec
CONSTANTS
    u1 = u1
    Sid = {s1, s2, s3}
    User = {u1}
    NoSid = NoSid
    Owner <- OneUser
    Proc = {p1, p2}
    MaxSessions = 1
    Timeout = 1
    Grace = 1
    CleanupInterval = 2
    MaxTime = 2
    MaxLatency = 1
    MaxFaults = 1
SYMMETRY Symmetry
VIEW View
INVARIANTS
    TypeOK
    IndexCoversLive
    TtlTracksActivity
PROPERTIES
    SoloLoginRestoresLimit
    EndedStaysEnded
