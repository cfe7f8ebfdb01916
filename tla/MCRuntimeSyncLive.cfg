SPECIFICATION FairSpec
CONSTANTS
    n1 = n1
    n2 = n2
    x1 = x1
    x2 = x2
    a1 = a1
    a2 = a2
    s1 = s1
    i1 = i1
    i2 = i2
    c1 = c1
    c2 = c2
    NoUser = NoUser
    NoRow = NoRow
    Nodes = {n1, n2}
    Addresses = {x1, x2}
    InitAddress = x1
    Accounts = {a1}
    Statics = {s1}
    Idents = {i1, i2}
    StaticIdent = i1
    Customers = {c1}
    Concurrency = 1
    ExpiryTimes <- OnlyForever
    InitAccount <- BoundEverywhere
    MaxClock = 1
    MaxFaults = 1
INVARIANTS
    SyncedSince
    WithinConcurrency
PROPERTY
    EventuallySynced
\* With every node deleted and the clock at its bound nothing is left to do.
CHECK_DEADLOCK FALSE
