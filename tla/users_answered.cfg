SPECIFICATION FairSpec
CONSTANTS
    Reqs = {r1, r2, r3, r4}
    Seeds = {u1, u2}
    r1 = r1
    r2 = r2
    r3 = r3
    r4 = r4
    u1 = u1
    u2 = u2
    Null = none
    p = p
    q = q
    Profiles = {p}
    Emails <- SwapEmails
    Lower <- SwapLower
    SeedRows <- SwapRows
    Workload <- SwapWorkload
    Faults = {"timeout"}
    PoolSize = 3
INVARIANTS
    ServerErrorsAreDeadlocks
PROPERTIES
    EveryRequestAnswered
