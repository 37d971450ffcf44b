SPECIFICATION FairSpec
CONSTANTS
    Limit = 1
    MaxChunks = 3
    Timeouts = TRUE
INVARIANTS
    OneResponse
    NoBareError
    LoggedIsSent
    ReleasedAtTheEnd
PROPERTIES
    OversizeIsRefused
    EveryRequestEnds
