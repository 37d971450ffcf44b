SPECIFICATION Spec
CONSTANTS
    Reqs = {r1, r2}
    Seeds = {u1, u2}
    r1 = r1
    r2 = r2
    r3 = r3
    r4 = r4
    u1 = u1
    u2 = u2
    Null = none
    p = p
    q = q
    Profiles = {p, q}
    Emails <- MCEmails
    Lower <- MCLower
    SeedRows <- MCSeedRows
    Workload <- DeleteOnly
    Faults = {}
    PoolSize = 2
SYMMETRY Symmetry
INVARIANTS
    DeletedOnce
