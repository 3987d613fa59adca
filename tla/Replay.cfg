SPECIFICATION FairSpec
CONSTANTS
    Requests = {q1, q2}
    MaxRetries = 2
    BackoffBase = 1
    Retention = 1
    Replayers = {p1, p2}
    Limit = 1
    StorageOutcomes = {TRUE, FALSE}
    WithManifest = {q1}
    Types = {"UPLOAD_FAIL", "TX_FAIL"}
    EnqueueUntil = 0
    MaxTime = 3
    MaxOddRuns = 1
INVARIANTS
    RetriesBounded
PROPERTIES
    ResolutionKept
    EventsEnd
CHECK_DEADLOCK FALSE
