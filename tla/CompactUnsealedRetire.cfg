CONSTANTS
    MaxSequence = 6
    MaxSegmentId = 14
    MaxSlot = 5
    RotationLimit = 3
    MaxRecords = 3
    MaxSegments = 3
    NoBuild = NoBuild
    Workload = {"vacuum", "compaction", "compactEarly"}
SPECIFICATION Spec
CHECK_DEADLOCK FALSE
INVARIANTS
    PendingSealable
