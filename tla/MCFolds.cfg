SPECIFICATION Spec
CONSTANTS
    s1 = s1
    s2 = s2
    s3 = s3
    s4 = s4
    t1 = t1
    t2 = t2
    t3 = t3
SYMMETRY Symmetric
CHECK_DEADLOCK FALSE
INVARIANTS
    ReadsOnce
    FoldsAccepted
    SnapshotsKept
    SummariesExact
PROPERTIES
    CoverageMonotone
