SPECIFICATION Spec
CONSTANTS
    t1 = t1
    t2 = t2
    t3 = t3
SYMMETRY Symmetric
CHECK_DEADLOCK FALSE
INVARIANTS
    TopKExact
    AnswersCurrent
    AnswersFilled
    LookupsExact
