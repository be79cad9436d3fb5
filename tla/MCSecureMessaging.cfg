CONSTANTS
    NSys = 2
    SystemCode <- MCSystemCode
    RequestCodes <- MCRequestCodes
    Wild = 255
    SystemNode = sysnode
    Areas <- MCAreas
    KeyedServices <- MCKeyed
    FreeServices <- MCFree
    AreaLists <- MCAreaLists
    ServiceLists <- MCServiceLists
    Elements <- MCElements
    Random1 <- MCRandom1
    MaxTransaction = 4
    MaxAuth = 2
    Target = 1
    ReaderAreas <- MCReaderAreas
    ReaderServices <- MCReaderServices
    ReaderCommands <- MCReaderCommands
    None = None
    root = root
    keyed = keyed
    free = free
    sysnode = sysnode
SPECIFICATION MessagingSpec
INVARIANTS
    AnswerMatches
    CounterLead
    SessionsAreFresh
