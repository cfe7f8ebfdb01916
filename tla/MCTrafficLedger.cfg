SPECIFICATION Spec
CONSTANTS
    r1 = r1
    r2 = r2
    r3 = r3
    s1 = s1
    s2 = s2
    c1 = c1
    c2 = c2
    Rows = {r1, r2, r3}
    Series = {s1, s2}
    SeriesOf <- TwoAndOne
    Cleaners = {c1}
    Loop = {c1}
    DayLength = 2
    DetailRetention = 1
    DailyRetention = 2
    Ages = {0, 2}
    Windows <- AllOrLate
    MaxClock = 4
    MaxFaults = 1
INVARIANTS
    TypeOK
    LedgerExact
    TotalMissesNothing
SYMMETRY Interchangeable
\* With the clock at its bound and all rows written nothing is left to do.
CHECK_DEADLOCK FALSE
