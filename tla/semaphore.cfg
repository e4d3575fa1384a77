SPECIFICATION FairSpec
CONSTANTS
    Threads = {t1, t2}
    t1 = t1
    t2 = t2
    None = None
    NumGpfifoEntries = 4
    Modulus = 8
    SecureModes = {TRUE, FALSE}
    MaxToComplete = 2
    GpuMayFail = TRUE
    MaxPushes = 9
CHECK_DEADLOCK FALSE
INVARIANTS
    NoFalseTampering
    CompletedIsExecuted
    UpdateIsFresh
PROPERTIES
    CounterSpec
    UpdateReturnsOrStopped
