SPECIFICATION FairSpec
CONSTANTS
    Threads = {t1, t2}
    t1 = t1
    t2 = t2
    None = None
    NumChannels = 1
    NumGpfifoEntries = 3
    MaxToComplete = 1
    WlcReady = FALSE
    IvLimit = 1
    IvMin = 1
    IvSpace = 2
    GpuMayFail = TRUE
    BeginMayFail = TRUE
    Calls = {"pool", "channel", "ctrl"}
    MaxCalls = 3
    MaxKeyVersion = 1
CHECK_DEADLOCK FALSE
PROPERTIES
    CallsReturn
    StrandedWaitStays
