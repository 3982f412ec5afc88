CONSTANTS
    MaxSequence = 6
    MaxSegmentId = 11
    MaxSlot = 5
    RotationLimit = 2
    MaxRecords = 3
    MaxSegments = 3
    NoBuild = NoBuild
    Workload = {"vacuum", "multiPass"}
SPECIFICATION Spec
CHECK_DEADLOCK FALSE
INVARIANTS
    NoStaleResult
