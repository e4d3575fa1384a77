SPECIFICATION Spec
CONSTANTS
    Threads = {t1, t2}
    t1 = t1
    t2 = t2
    p1 = p1
    Pairs = {p1}
    None = None
    MaxJobs = 1
    MaxKeyVersion = 1
CHECK_DEADLOCK FALSE
INVARIANTS
    WlcKeyMatches
