\* query_arp misses the client IP.
CONSTANTS
    d1 = d1
    d2 = d2
    Device <- MCDevice
    Password <- MCPassword1
    EngineFaults = FALSE
    LinkFaults = FALSE
    KeyDirGiven = FALSE
    ArpMiss = TRUE
    ColonMacs = FALSE
    ArpFileFaults = FALSE
    FileFaults = FALSE
    Mutex = FALSE
    ToolDevice <- MCToolDevice
    FileShape <- MCFileShape
    SameIo = TRUE
    MaxToolRuns = 0
    MaxConn = 3
SPECIFICATION Spec
INVARIANTS RestoreFinishDeliversKey
CHECK_DEADLOCK FALSE
