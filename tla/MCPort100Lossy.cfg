SPECIFICATION RunSpec
CONSTANTS
    Parts = {"initiator"}
    Rates = {"106A", "212F"}
    Values = {0, 1}
    Defaults <- MCDefaults
    Plans <- MCPlans
    Lossy = TRUE
    None = None
INVARIANT ExchangeIsConfigured
