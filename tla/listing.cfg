\* A walk over the pages of up to four users while two commits go by and a
\* token expires, under every setting.
SPECIFICATION Spec
CONSTANTS
    Null = Null
    Ids <- MCIds
    Kinds <- MCKinds
    Starts <- MCStarts
    Leeway = 1
    MaxClock = 3
    MaxLimit = 2
INVARIANTS
    QuietWalkIsComplete
    DriftIsBounded
    ProductionIsConfigured
PROPERTIES
    RowsNeedAReader
CHECK_DEADLOCK FALSE
