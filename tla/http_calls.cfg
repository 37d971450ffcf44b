SPECIFICATION FairSpec
CONSTANTS
    Calls = {c1, c2}
    Hosts = {h1, h2}
    NoHost = NoHost
    h1 = h1
    h2 = h2
    Requests <- MCRequests
    Attempts = 2
    Threshold = 2
    Ttl = 0
    Faults = {"connect", "read_timeout", "transient", "cancelled"}
INVARIANTS
    AppliedAtMostOnce
    AnswersAreTruthful
PROPERTIES
    OneResultPerCall
    CircuitRecovers
