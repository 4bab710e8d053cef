\* encryptData on d1 beside backup and restore clients as built (MUTEX 0):
\* nothing keeps a restore from replacing the key in the middle of a file.
CONSTANTS
    d1 = d1
    d2 = d2
    Device <- MCDevice
    Password <- MCPassword1
    EngineFaults = FALSE
    LinkFaults = FALSE
    KeyDirGiven = FALSE
    ArpMiss = FALSE
    ColonMacs = FALSE
    ArpFileFaults = FALSE
    FileFaults = FALSE
    Mutex = FALSE
    ToolDevice <- MCToolDevice
    FileShape <- MCFileShape
    SameIo = TRUE
    MaxToolRuns = 2
    MaxConn = 3
SPECIFICATION Spec
INVARIANTS
    ToolZeroExitMeansFileTransformed
CHECK_DEADLOCK FALSE
