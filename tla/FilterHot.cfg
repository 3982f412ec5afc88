SPECIFICATION Spec
CONSTANTS
    Tids = {t1, t2, t3}
    t1 = t1
    t2 = t2
    t3 = t3
    Scores = {0, 1}
    Features = {"hot"}
    Filter = "plain"
    K = 2
    MaxSlots = 4
    MaxSequence = 4
    OverfetchFloor = 1
    OverfetchMax = 2
    Multiplier = 2
    RankBump = 1
    ResolveMaxRows = 5
    PrefixMinK = 1
    PrefixMaxK = 2
    PrefixCorpus = 2
CHECK_DEADLOCK FALSE
INVARIANTS
    AnswerFilled
