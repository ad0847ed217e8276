SPECIFICATION FairSpec
CONSTANTS
    v1 = v1
    v2 = v2
    a = a
    b = b
    c = c
    Devices = {v1, v2}
    Dirs = {a, b, c}
    Owner <- MCOwner
    Parent <- MCParent
    PageSize = 1
    Fields <- MCFields
    MaxLogins = 2
    MaxEvents = 5
    Root = Root
    None = None
CHECK_DEADLOCK FALSE
INVARIANTS
    TypeOK
    NeverDeaf
    ListingIsCurrent
    ParentsAreTrue
PROPERTY RepliesAreTaken
