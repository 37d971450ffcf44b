SPECIFICATION Spec
CONSTANTS
    Callers = {c1, c2}
    Kids = {k1, k2}
    Task = task
    Ttl = 2
    MinRefresh = 1
    Faults = {"down", "bad", "timeout"}
SYMMETRY Symmetry
INVARIANTS
    LockIsSound
PROPERTIES
    FetchesAreSpaced
    ArrivedKeyIsServed
