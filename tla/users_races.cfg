SPECIFICATION Spec
CONSTANTS
    Reqs = {r1, r2}
    Seeds = {u1, u2}
    r1 = r1
    r2 = r2
    r3 = r3
    r4 = r4
    u1 = u1
    u2 = u2
    Null = none
    p = p
    q = q
    Profiles = {p, q}
    Emails <- MCEmails
    Lower <- MCLower
    SeedRows <- MCSeedRows
    Workload <- AnyRequest
    Faults = {"db_error", "timeout"}
    PoolSize = 2
SYMMETRY Symmetry
INVARIANTS
    AcknowledgedIsStored
    RefusedLeavesNoTrace
    LiveEmailsUnique
PROPERTIES
    TombstonesAreFinal
    RegistryPromise
