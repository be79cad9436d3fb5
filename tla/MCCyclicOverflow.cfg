SPECIFICATION RunSpec
CONSTANTS
    SignedMax = 3
    ExecutionIds = {0, 1, 2}
    UserData = {0}
    Properties = {}
    Codes <- MCCodes
    Node <- MCNode
    Lists <- MCLists
    Initial <- MCInitial
    Count <- SmallRing
PROPERTY CyclicOverflowRefused
