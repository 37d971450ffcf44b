SPECIFICATION FairSpec
CONSTANTS
    Callers = {c1, c2}
    Kids = {k1}
    Task = task
    Ttl = 2
    MinRefresh = 1
    Faults = {"down", "bad", "timeout"}
PROPERTIES
    EveryCheckEnds
    CacheFollowsProvider
