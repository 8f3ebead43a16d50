SPECIFICATION Spec
CONSTANTS
    Sid = {s1, s2}
    Token = {t1, t2}
    State = {x1}
    User = {u1}
    Request = {q1, q2}
    s1 = s1
    s2 = s2
    t1 = t1
    t2 = t2
    x1 = x1
    u1 = u1
    q1 = q1
    q2 = q2
    None = None
    Timeout = 1
    CookieAge = 1
    StateAge = 1
    CsrfEnabled = TRUE
    Enveloped = FALSE
    MaxTime = 2
    MaxFaults = 1
SYMMETRY Symmetry
INVARIANTS
    TypeOK
    CookiesBelongTogether
    StateIsSpent
