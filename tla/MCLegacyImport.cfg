SPECIFICATION Spec
CONSTANTS
    i1 = i1
    i2 = i2
    u1 = u1
    u2 = u2
    n1 = n1
    n2 = n2
    f1 = f1
    f2 = f2
    k1 = k1
    k2 = k2
    Uuids = {u1, u2}
    Flows = {f1, f2}
    Nodes = {n1, n2}
    Keys = {k1, k2}
    Importers = {i1, i2}
    File <- OppositeFiles
    Kind <- BothKinds
    InitNodes = {n1}
    MaxChanges = 2
    MaxFaults = 1
INVARIANT
    TypeOK
PROPERTIES
    ImportComplete
    RerunChangesNothing
    OthersUntouched
