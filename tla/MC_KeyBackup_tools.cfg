\* encryptData and hmacKey on d1 beside backup and restore clients, with
\* the engine mutex compiled in (MUTEX 1); fopen and fwrite may fail.
CONSTANTS
    d1 = d1
    d2 = d2
    Device <- MCDevice
    Password <- MCPassword1
    EngineFaults = FALSE
    LinkFaults = FALSE
    KeyDirGiven = FALSE
    ArpMiss = FALSE
    ColonMacs = FALSE
    ArpFileFaults = FALSE
    FileFaults = TRUE
    Mutex = TRUE
    ToolDevice <- MCToolDevice
    FileShape <- MCFileShape
    SameIo = TRUE
    MaxToolRuns = 2
    MaxConn = 3
SPECIFICATION Spec
INVARIANTS
    ToolChunksUnderOneKey
CHECK_DEADLOCK FALSE
