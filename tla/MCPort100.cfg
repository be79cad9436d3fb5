SPECIFICATION RunSpec
CONSTANTS
    Parts = {"initiator", "target", "frames", "fields"}
    Rates = {"106A", "212F"}
    Values = {0, 1}
    Defaults <- MCDefaults
    Plans <- MCPlans
    Lossy = FALSE
    None = None
CHECK_DEADLOCK FALSE
INVARIANTS
    RecordIsTrue
    ExchangeIsConfigured
    RightPeerIsAnswered
    InitiatorIsFound
    FormatsAreFaithful
