SPECIFICATION FairSpec
CONSTANTS
    c1 = c1
    a1 = a1
    a2 = a2
    n1 = n1
    n2 = n2
    n3 = n3
    x = x
    y = y
    z = z
    g = g
    h = h
    s1 = s1
    s2 = s2
    q1 = q1
    q2 = q2
    Customers = {c1}
    Accounts = {a1, a2}
    Nodes = {n1, n2, n3}
    Names = {x, y, z}
    Configs = {g, h}
    Settings = {s1, s2}
    Requests = {q1, q2}
    Bodies <- BothWays
    InitNodes <- TwoNodes
    InitAccounts <- OneAccount
    Unset = Unset
    None = None
    Gone = Gone
    Muddled = Muddled
    MaxRequests = 3
    MaxFaults = 1
INVARIANTS
    TypeOK
    AsRequested
PROPERTIES
    SyncComplete
    EnabledKept
    RequestsEnd
\* With every request answered and the bound reached nothing is left to do.
CHECK_DEADLOCK FALSE
