SPECIFICATION Spec
CONSTANTS
    u1 = u1
    u2 = u2
    k1 = k1
    k2 = k2
    x1 = x1
    r1 = r1
    a1 = a1
    any = any
    unknown = unknown
    never = never
    e1 = e1
    e2 = e2
    p1 = p1
    p2 = p2
    none = none
    User = {u1, u2}
    KeyId = {k1, k2}
    Prefix = {x1}
    Resource = {r1}
    Action = {a1}
    Wild = any
    Unknown = unknown
    Never = never
    Resident <- MCResident
    Expiry = {0}
    Granted <- MCGranted
    Text <- MCText
    Asked <- MCAsked
    Update <- MCUpdate
    Spent <- MCSpent
    Proc = {p1, p2}
    Status = {200, 302, 404}
    Endpoint = {e1, e2}
    Amount = {1, 2}
    PageLimit = 2
    TopEndpoints = 1
    MaxRequests = 3
    MaxGrants = 1
    MaxUsage = 2
    MaxTime = 1
    None = none
SYMMETRY MCSymmetry
INVARIANTS
    TypeOK
    RevokedKeyIsRefused
    MostSpecificRowDecides
    AnalyticsAgree
