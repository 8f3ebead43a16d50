SPECIFICATION Spec
CONSTANTS
    root = root
    u1 = u1
    u2 = u2
    n0 = n0
    n1 = n1
    n2 = n2
    e0 = e0
    e1 = e1
    e2 = e2
    g1 = g1
    t1 = t1
    t2 = t2
    p1 = p1
    p2 = p2
    none = none
    Uid = {root, u1, u2}
    Username = {n0, n1, n2}
    Email = {e0, e1, e2}
    Google = {g1}
    EmailAt <- MCEmailAt
    Tier = {t1}
    TierId = {t1, t2}
    Resident <- MCResident
    SignUp <- MCSignUp
    Update <- MCUpdate
    Proc = {p1, p2}
    MaxRequests = 3
    None = none
SYMMETRY MCSymmetry
INVARIANTS
    TypeOK
    NamesUnique
    OwnProfileOnly
