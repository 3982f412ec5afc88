SPECIFICATION SuiteSpec
CONSTANTS
    Reader = {r1}
    Appender = {a1}
    Maintainer = {m1, m2}
    DataPages = 1
    MaxRetired = 1
    Threshold = 2
    Budget = 1
    MaxBlock = 6
    MaxWrite = 8
    MaxFault = 2
    m1 = m1
    m2 = m2
    b1 = b1
    b2 = b2
SYMMETRY Symmetric
CHECK_DEADLOCK FALSE
INVARIANTS
    PagesIntact
    PagesAccounted
    RangesExact
    HeatHonest
