\* Fault-free engine and files; the link may be reset. The system also
\* refines BackupService here.
CONSTANTS
    d1 = d1
    d2 = d2
    Device <- MCDevice
    Password <- MCPassword
    EngineFaults = FALSE
    LinkFaults = TRUE
    KeyDirGiven = FALSE
    ArpMiss = FALSE
    ColonMacs = FALSE
    ArpFileFaults = FALSE
    FileFaults = FALSE
    Mutex = FALSE
    ToolDevice <- MCToolDevice
    FileShape <- MCFileShape
    SameIo = TRUE
    MaxToolRuns = 0
    MaxConn = 3
SPECIFICATION Spec
INVARIANTS
    TypeOK
    RestoreFinishDeliversKey
    BackedUpKeysStayRestorable
    RestoreOfBackedUpKeySucceeds
CHECK_DEADLOCK FALSE

PROPERTIES
    ServiceRefined
    BackupReportsOK
