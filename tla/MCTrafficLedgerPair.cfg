SPECIFICATION FairSpec
CONSTANTS
    r1 = r1
    r2 = r2
    r3 = r3
    s1 = s1
    s2 = s2
    c1 = c1
    c2 = c2
    Rows = {r1, r2}
    Series = {s1}
    SeriesOf <- OneSeries
    Cleaners = {c1, c2}
    Loop = {c1}
    DayLength = 1
    DetailRetention = 1
    DailyRetention = 2
    Ages = {0, 2}
    Windows <- NoTotals
    MaxClock = 3
    MaxFaults = 1
INVARIANT
    LedgerKeeps
PROPERTY
    RetentionEnforced
\* With the clock at its bound and all rows written nothing is left to do.
CHECK_DEADLOCK FALSE
