SPECIFICATION SuiteSpec
CONSTANTS
    MaxSequence = 6
    MaxSegmentId = 10
    MaxSlot = 5
    RotationLimit = 2
    MaxRecords = 3
    MaxSegments = 3
    NoBuild = NoBuild
    Workload = {"semantic", "accelerator", "compaction", "vacuum", "crash", "interrupt", "fenceBusy", "multiPass"}
CHECK_DEADLOCK FALSE
INVARIANTS
    AnswersFresh
    MaintenanceAlwaysPossible
    AnswersComplete
    RecordsExact
PROPERTIES
    SlotHistoryMovesForward
    ImplementsRootPublication
