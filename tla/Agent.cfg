SPECIFICATION FairSpec
CONSTANTS
    d1 = d1
    d2 = d2
    f1 = f1
    Domains = {d1, d2}
    Foreign = {f1}
    Callers = {"loop", "main"}
    Start = Start
    End = End
    Nobody = Nobody
    Commands <- AllCommands
    MaxCommands = 2
    RandomIds = {}
    MaxRetries = 2
CHECK_DEADLOCK FALSE
INVARIANTS
    CommandsTypeOK
    RunsUnderIssuedId
    ForeignLinesKept
    BlockingAsOrdered
    BackupOffStaysOff
PROPERTIES
    RestoreKeepsFile
    ShutdownEnds
