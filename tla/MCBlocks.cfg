SPECIFICATION RunSpec
CONSTANTS
    SignedMax = 3
    ExecutionIds = {0, 1, 2}
    UserData = {0}
    Properties <- MCProperties
    Codes <- MCCodes
    Node <- MCNode
    Lists <- MCLists
    Initial <- MCInitial
    Count <- WideRing
INVARIANTS
    RetryIsHarmless
    ChangeIsAuthorised
    RingKeepsOrder
    AllOrNothing
    ResendIsHarmless
PROPERTIES
    ResultWithinLimits
    ValueNeverMinted
