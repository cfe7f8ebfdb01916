SPECIFICATION FairSpec
CONSTANTS
    p1 = p1
    p2 = p2
    a = a
    b = b
    c = c
    b2 = b2
    blank = blank
    absent = absent
    Processes = {p1, p2}
    Versions = {1, 2, 3}
    Contents = {a, b, c, b2}
    Blank = blank
    Absent = absent
    Releases <- MCReleases
    MaxDeploys = 1
    MaxFaults = 1
INVARIANTS TypeOK OncePerFile SuccessMeansApplied
PROPERTIES InOrder EventuallyMigrated
