SPECIFICATION Spec
CONSTANTS
    d = d
    f = f
    g = g
    Paths <- RootFile
    Dirs <- NoDirs
    Limit = 1
    MaxOps = 3
    MaxWire = 1
    MaxFaults = 0
CHECK_DEADLOCK FALSE
INVARIANT ReportedIsListed
