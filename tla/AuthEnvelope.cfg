SPECIFICATION Spec
CONSTANTS
    Sid = {s1}
    Token = {t1}
    State = {x1}
    User = {u1}
    Request = {q1}
    s1 = s1
    t1 = t1
    x1 = x1
    u1 = u1
    q1 = q1
    None = None
    Timeout = 1
    CookieAge = 1
    StateAge = 1
    CsrfEnabled = TRUE
    Enveloped = TRUE
    MaxTime = 0
    MaxFaults = 0
PROPERTIES
    SignInGivesSession
