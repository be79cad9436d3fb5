SPECIFICATION RunSpec
CONSTANTS
    NSys = 2
    SystemCode <- MCSystemCode
    RequestCodes <- MCRequestCodes
    Wild = 255
    SystemNode = sysnode
    Areas <- MCAreas
    KeyedServices <- MCKeyed
    FreeServices <- MCFree
    AreaLists <- MCAreaLists
    ServiceLists <- MCServiceLists
    Elements <- MCElements
    Random1 <- MCRandom1
    MaxTransaction = 5
    MaxAuth = 2
    None = None
    Ranges <- MCRanges
    Services <- MCServices
    Direct = TRUE
    MaxMade = 4
    MaxDrafts = 2
    root = root
    keyed = keyed
    free = free
    sysnode = sysnode
CHECK_DEADLOCK FALSE
INVARIANTS
    TypeOK
    ModeConsistent
    NoReplay
    AccessAuthorised
    PollsAreAnswered
    RangesNest
    AcceptedOverlapsShare
PROPERTIES
    SwitchDropsSession
    IgnoredIsHarmless
    ImplementsTable41
    RegisteredKeepsItsBlocks
