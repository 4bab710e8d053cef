\* Passwords that share their first 32 bytes, over a healthy link and a
\* fault-free engine: a restore with the other password of such a pair
\* obtains the key.
CONSTANTS
    d1 = d1
    d2 = d2
    Device <- MCDevice
    Password <- MCPassword
    EngineFaults = FALSE
    LinkFaults = FALSE
    KeyDirGiven = FALSE
    ArpMiss = FALSE
    ColonMacs = FALSE
    ArpFileFaults = FALSE
    FileFaults = FALSE
    Mutex = FALSE
    ToolDevice <- MCToolDevice
    FileShape <- MCFileShape
    SameIo = TRUE
    MaxToolRuns = 0
    MaxConn = 2
SPECIFICATION Spec
INVARIANTS
    RestoreNeedsBackupPassword
CHECK_DEADLOCK FALSE
