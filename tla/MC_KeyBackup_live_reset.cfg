\* A connection reset while the client waits for an answer.
CONSTANTS
    d1 = d1
    d2 = d2
    Device <- MCDevice
    Password <- MCPassword1
    EngineFaults = FALSE
    LinkFaults = TRUE
    KeyDirGiven = FALSE
    ArpMiss = FALSE
    ColonMacs = FALSE
    ArpFileFaults = FALSE
    FileFaults = FALSE
    Mutex = FALSE
    ToolDevice <- MCToolDevice
    FileShape <- MCFileShape
    SameIo = TRUE
    MaxToolRuns = 0
    MaxConn = 2
SPECIFICATION Spec
PROPERTIES Termination
CHECK_DEADLOCK FALSE
