CONSTANTS
    MaxSequence = 5
    MaxSegmentId = 7
    MaxSlot = 3
    RotationLimit = 2
    MaxRecords = 2
    BuiltDocuments = 0
    RecordKinds = {"UPSERT", "RETIRE"}
    Publishers = {p1, p2}
    NoBuild = NoBuild
SPECIFICATION Spec
SYMMETRY Symmetry
CHECK_DEADLOCK FALSE
INVARIANTS
    TypeOK
    RootAlwaysValid
    NoRecordLost
    UpsertSlotsIncrease
    TailClosed
    PendingTailContiguous
PROPERTY NoLostPublication
