SPECIFICATION RunSpec
CONSTANTS
    Parts = {"device"}
    InitialSpeeds <- MCSpeeds
    CallerSpeeds = {1}
    MaxFaults = 1
    MaxLives = 1
    Operations <- AllOperations
    Afterwards <- MCAfterwards
    Configs <- MCConfigs
    Lengths = {0, 290}
    AnswerLengths = {100, 300}
    CardChunks = {60, 250}
    Wtxms = {63}
    IfsValues = {1}
    Numbering = "next"
    MaxExchanges = 2
    MaxLosses = 1
PROPERTY SpeedsSurviveFaults
