SPECIFICATION SuiteSpec
CONSTANTS
    Launchers = {l1, l2}
    Procs = {p1, p2, p3}
    MaxLimit = 2
    Losses = 1
    Reloads = 2
    b1 = b1
    b2 = b2
    w1 = w1
    w2 = w2
    l1 = l1
    l2 = l2
    p1 = p1
    p2 = p2
    p3 = p3
    s1 = s1
    s2 = s2
    s3 = s3
    m1 = m1
    None = None
    NoBuild = NoBuild
CHECK_DEADLOCK FALSE
INVARIANTS
    AdmissionExact
PROPERTIES
    WorkServed
    ServicesAnswer
    BatchesSealed
