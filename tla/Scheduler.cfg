SPECIFICATION FairSpec
CONSTANTS
    f = f
    d = d
    x = x
    t1 = t1
    t2 = t2
    Paths = {f, d, x}
    Dir <- MCDir
    Below <- MCBelow
    Targets = {t1, t2}
    Watched <- Nested
    renamePairTTL = 1
    eventQueueSize = 1
    maxRetries = 2
    MaxOps = 3
    MaxBusy = 3
    MaxFaults = 1
    None = None
    Jobs = {1, 2}
    backupCooldown = 1
    fileSettlePolls = 3
CHECK_DEADLOCK FALSE
INVARIANTS
    SchedulerTypeOK
    RenamesPairRight
    RowsFollowDisk
    LastChangeBackedUp
PROPERTIES
    BackupsEnd
    OneBackupAtATime
