SPECIFICATION FairSpec
CONSTANTS
    Reqs = {r1, r2, r3}
    DrainTimeout = 1
    Servers = {"stops_first", "keeps_accepting"}
INVARIANTS
    CounterIsExact
    ClosedOnlyWhenQuiet
    OnlyLatecomersLose
PROPERTIES
    EngineIsDisposed
