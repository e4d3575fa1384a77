SPECIFICATION FairSpec
CONSTANTS
    Threads = {t1, t2}
    t1 = t1
    t2 = t2
    p1 = p1
    p2 = p2
    Pairs = {p1, p2}
    None = None
    MaxJobs = 3
    MaxKeyVersion = 2
CHECK_DEADLOCK FALSE
INVARIANTS
    PrimedAtDoorbell
    KeysMatch
PROPERTIES
    LaunchedWhenAwaited
    LaunchesEnd
