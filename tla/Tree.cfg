SPECIFICATION FairSpec
CONSTANTS
    d = d
    f = f
    g = g
    Paths <- OneFile
    Dirs <- MCDirs
    Limit = 1
    MaxOps = 5
    MaxWire = 1
    MaxFaults = 1
CHECK_DEADLOCK FALSE
INVARIANTS
    TypeOK
    NoOrphans
    OneItemPerFile
    SyncedReachedBackend
PROPERTY DeletedIsDelisted
