SPECIFICATION FairSpec
CONSTANTS
    u1 = u1
    u2 = u2
    p1 = p1
    p2 = p2
    b = b
    Uploads <- MCUploads
    Paths <- MCPaths
    Bases = {b}
    PathOf <- SamePath
    BaseOf <- MCBaseOf
    Chunks <- MCChunks
    Wrap = 1
    MaxSecond = 1
    MaxCrashes = 1
    Hole = Hole
    Absent = Absent
    NoName = NoName
    Nobody = Nobody
CHECK_DEADLOCK FALSE
INVARIANTS
    TypeOK
    
    VersionNumbersDense
    UndisturbedIsIntact
PROPERTIES
    
    UploadEnds
