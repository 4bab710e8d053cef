\* A failed restore import still ends in FINISH.
CONSTANTS
    d1 = d1
    d2 = d2
    Device <- MCDevice
    Password <- MCPassword1
    EngineFaults = TRUE
    LinkFaults = FALSE
    KeyDirGiven = FALSE
    ArpMiss = FALSE
    ColonMacs = FALSE
    ArpFileFaults = FALSE
    FileFaults = FALSE
    Mutex = FALSE
    ToolDevice <- MCToolDevice
    FileShape <- MCFileShape
    SameIo = TRUE
    MaxToolRuns = 0
    MaxConn = 2
SPECIFICATION Spec
INVARIANTS RestoreFinishDeliversKey
CHECK_DEADLOCK FALSE
