SPECIFICATION MCSpec
CONSTANTS
    e1 = e1
    e2 = e2
    r1 = r1
    r2 = r2
    i1 = i1
    i2 = i2
    Consumer = Consumer
    Startup = Startup
    NoRelay = NoRelay
    Events <- TwoEvents
    Relays <- TwoRelays
    MaxRetries = 3
    BatchSize = 2
    LockEnabled = TRUE
    MaxTime = 1
    MaxFaults <- MixedFaults
    Instances <- TwoInstances
    Requests = {q1}
    Subjects = {s1}
    Roles = {member}
    Permissions = {p1}
    MaxEdits = 2
    MaxRuleFaults <- FailedCalls
SYMMETRY Symmetric
CHECK_DEADLOCK FALSE
INVARIANTS
    OverlapNeedsLostLease
    DriftNeedsCrossing
    RevocationReachesAll
PROPERTIES
    ImplementsDelivery
