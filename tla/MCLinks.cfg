SPECIFICATION RunSpec
CONSTANTS
    d1 = d1
    o1 = o1
    None = None
    Readers <- MCReaders
    Codes = {"card", "init"}
    SeqMod = 5
    MaxSends = 6
    MaxBacklog = 2
    MaxPipe = 2
    MaxFaults = 1
    Drivers = {d1}
    Others = {o1}
    MaxRequests = 2
    MaxHuge = 0
    MaxCuts = 1
INVARIANTS
    AnswersStayInStep
    RequestIsDoneOnce
PROPERTIES
    CommandEnds
