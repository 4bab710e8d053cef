\* Engine faults on a link that is never reset.
CONSTANTS
    d1 = d1
    d2 = d2
    Device <- MCDevice
    Password <- MCPassword1
    EngineFaults = TRUE
    LinkFaults = FALSE
    KeyDirGiven = FALSE
    ArpMiss = FALSE
    ColonMacs = FALSE
    ArpFileFaults = FALSE
    FileFaults = FALSE
    Mutex = FALSE
    ToolDevice <- MCToolDevice
    FileShape <- MCFileShape
    SameIo = TRUE
    MaxToolRuns = 0
    MaxConn = 2
SPECIFICATION Spec
PROPERTIES Termination
CHECK_DEADLOCK FALSE
