SPECIFICATION Spec
CHECK_DEADLOCK FALSE
CONSTANTS
    Attr <- MCAttr
    MaxCells = 2
    TargetBytes = 2
    MinOverlap = 3
    Requests <- MCRequests
    IndexKinds = {"exact", "fuse"}
    Ghosts = {"b"}
    Idf <- MCIdf
    MinPool = 3
    CacheCapacity = 2
    MaxPage = 5
    MaxOver = 1
    Overrides = {"deprecated", "rejected"}
INVARIANTS
    TypeOK
    OnlyPermitted
    PacketIsBest
    FullScopeComplete
    PruningIsSafe
    FuseMissesOnlyFocused
    CacheIsLru
PROPERTIES
    BuildsFit
