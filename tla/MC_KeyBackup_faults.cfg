\* Every engine and file call may fail.
CONSTANTS
    d1 = d1
    d2 = d2
    Device <- MCDevice
    Password <- MCPassword
    EngineFaults = TRUE
    LinkFaults = FALSE
    KeyDirGiven = FALSE
    ArpMiss = FALSE
    ColonMacs = FALSE
    ArpFileFaults = TRUE
    FileFaults = TRUE
    Mutex = FALSE
    ToolDevice <- MCToolDevice
    FileShape <- MCFileShapeFull
    SameIo = TRUE
    MaxToolRuns = 1
    MaxConn = 2
SPECIFICATION Spec
INVARIANTS BackupOKMeansRecordOnDisk
CHECK_DEADLOCK FALSE
