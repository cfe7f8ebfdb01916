SPECIFICATION Spec
CONSTANTS
    c1 = c1
    c2 = c2
    t1 = t1
    t2 = t2
    t3 = t3
    w1 = w1
    w2 = w2
    e1 = e1
    e2 = e2
    k1 = k1
    Admin = Admin
    NoPassword = NoPassword
    NoRow = NoRow
    NoToken = NoToken
    GoneToken = GoneToken
    Customers = {c1}
    Creds = {k1, NoPassword}
    Tokens = {t1}
    Clients = {w1}
    Editors = {e1, e2}
    ExpiryTimes <- OnlyForever
    InitCreds = k1
    Lifetime = 1
    Retention = 1
    MaxClock = 0
    MaxEpoch = 1
    MaxFaults = 0
INVARIANTS
    ResetLasts
SYMMETRY Interchangeable
\* With every token used and the clock at its bound nothing is left to do.
CHECK_DEADLOCK FALSE
