SPECIFICATION Spec
CONSTANTS
    k1 = k1
    k2 = k2
    k3 = k3
    m1 = m1
    m2 = m2
    Requests = {q1, q2, q3}
    Keys = {k1, k2, k3}
    Manifests = {m1, m2}
    Inputs <- RelayedInputs
    RelayMode = "relay"
    StrictProof = FALSE
    StrictStorage = TRUE
    StorageRequired = TRUE
    KnownRobots = TRUE
    MaxRetries = 3
    BackoffBase = 1
    Retention = 1
    StuckAfter = 0
    TTL = 1
    MaxTime = 2
    MaxEvents = 1
PROPERTIES
    FirstSuccessCached
CHECK_DEADLOCK FALSE
