SPECIFICATION FairSpec
CONSTANTS
    t1 = t1
    t2 = t2
    Threads = {t1, t2}
    None = None
    Channels = {1, 2}
    Entries = 3
    Launchers = 2
    ChunkCount = 2
    ChunkSize = 4
    MaxPushSize = 2
    PushSizes = {1, 2}
    MaxFailures = 1
    MaxPushes = 5
CHECK_DEADLOCK FALSE
INVARIANTS
    WritesAreFree
    ResourcesOwned
    BitmapsExact
PROPERTIES
    PushesEnd
