CONSTANTS
    Indexes = {1}
    Capacity = 1
    Home <- OneSlot
    Databases = {1}
    DbOf <- OneDatabase
    Workers = {1}
    ReconcileCapacity = 1
    Preloads = {}
    Derived = {"semantic", "eligible"}
    Workload = {}
    Terminations = 0
    MaxSequence = 5
SPECIFICATION BacklogSpec
CHECK_DEADLOCK FALSE
PROPERTIES
    CompletionGoesOn
