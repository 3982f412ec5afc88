CONSTANTS
    Indexes = {1, 2}
    Capacity = 2
    Home <- Together
    Databases = {1}
    DbOf <- Both
    Workers = {1, 2}
    ReconcileCapacity = 1
    Preloads = {1, 2}
    Derived = {}
    Workload = {"write"}
    Terminations = 0
    MaxSequence = 3
SPECIFICATION SuiteSpec
CHECK_DEADLOCK FALSE
INVARIANTS
    SchedulerTyped
    RunningHasWorker
    HintTableSound
    LockMatchesAction
    UrgentDebtRemembered
    ColdIndexRemembered
