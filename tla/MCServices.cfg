SPECIFICATION SuiteSpec
CONSTANTS
    b1 = b1
    b2 = b2
    b3 = b3
    w1 = w1
    w2 = w2
    w3 = w3
    s1 = s1
    s2 = s2
    None = None
    Backends = {b1, b2}
    Workers = {w1, w2, w3}
    Models = {m1}
    ResponseCapacity = 3
    ReservedResponses = 1
    PipelineDepth = 2
    ReserveQueryLane = TRUE
    AffinityBypassLimit = 1
    Kinds = {"query", "document"}
    Faults = {"interrupt", "exit", "stop", "die", "fail"}
    Sweepers = {s1, s2}
    MaxRequests = 3
    MaxStarts = 3
SYMMETRY Symmetric
CHECK_DEADLOCK FALSE
INVARIANTS
    RequestsTracked
    AnswersOwn
    LeasesSound
    ArenaExact
