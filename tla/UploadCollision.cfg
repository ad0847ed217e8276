SPECIFICATION Spec
CONSTANTS
    u1 = u1
    u2 = u2
    p1 = p1
    p2 = p2
    b = b
    Uploads <- MCUploads
    Paths <- MCPaths
    Bases = {b}
    PathOf <- TwoPaths
    BaseOf <- MCBaseOf
    Chunks <- MCChunks
    Wrap = 2
    MaxSecond = 0
    MaxCrashes = 0
    Hole = Hole
    Absent = Absent
    NoName = NoName
    Nobody = Nobody
CHECK_DEADLOCK FALSE
INVARIANT VersionsKeepTheirFile
