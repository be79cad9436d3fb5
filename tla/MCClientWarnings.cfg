SPECIFICATION RunSpec
CONSTANTS
    c1 = c1
    c2 = c2
    None = None
    Cards = {c1, c2}
    Slow = {c2}
    Pmm <- ApiPmm
    CardRates <- ApiCardRates
    Polls <- ApiPolls
    Requests <- ApiRequests
    WarnsFF <- ApiWarnsFF
    MaxCalls = 2
    MaxFaults = 1
INVARIANT CompletedIsNotRefused
