SPECIFICATION FairSpec
CONSTANTS
    t1 = t1
    t2 = t2
    Threads = {t1, t2}
    None = None
    Channels = {1, 2}
    Entries = 3
    Launchers = 1
    ChunkCount = 1
    ChunkSize = 4
    MaxPushSize = 2
    PushSizes = {2}
    MaxFailures = 1
    MaxPushes = 4
CHECK_DEADLOCK FALSE
PROPERTIES
    BeginsReturn
