SPECIFICATION Spec
CONSTANTS
    c1 = c1
    t1 = t1
    t2 = t2
    l1 = l1
    l2 = l2
    e1 = e1
    e2 = e2
    w1 = w1
    m1 = m1
    NoLink = NoLink
    NoToken = NoToken
    GoneToken = GoneToken
    Customers = {c1}
    Tokens = {t1, t2}
    Links = {l1, l2}
    Editors = {e1, e2}
    Clients = {w1}
    Ensurers = {m1}
    ExpiryTimes <- SoonOrForever
    InitTokens <- OldOrNoRows
    MaxClock = 1
    MaxFaults = 1
SYMMETRY Interchangeable
INVARIANTS
    TypeOK
    ShownLinkWorks
PROPERTY
    RevivedOnlyBySave
\* With every link given out and the clock at its bound nothing is left to do.
CHECK_DEADLOCK FALSE
