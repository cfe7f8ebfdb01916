SPECIFICATION FairSpec
CONSTANTS
    n1 = n1
    n2 = n2
    x1 = x1
    x2 = x2
    NoRow = NoRow
    a1 = a1
    a2 = a2
    u1 = u1
    u2 = u2
    u3 = u3
    Nodes = {n1, n2}
    Accounts = {a1, a2}
    Instances = {x1, x2}
    InitApi <- OneEach
    Units = {u1, u2, u3}
    AccountOf <- TwoAndOne
    InstanceOf <- TwoInstances
    MaxEvents = 1
    MaxFaults = 2
INVARIANTS
    TypeOK
    RecordedOnce
PROPERTIES
    LossExplained
    EventuallyRecorded
\* With every unit transferred and the nodes unregistered nothing is left to do.
CHECK_DEADLOCK FALSE
