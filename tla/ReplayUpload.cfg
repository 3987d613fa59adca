SPECIFICATION Spec
CONSTANTS
    Requests = {q1}
    MaxRetries = 2
    BackoffBase = 1
    Retention = 1
    Replayers = {p1}
    Limit = 1
    StorageOutcomes = {TRUE}
    WithManifest = {}
    Types = {"UPLOAD_FAIL"}
    EnqueueUntil = 0
    MaxTime = 6
    MaxOddRuns = 0
INVARIANTS
    UploadsReplayed
CHECK_DEADLOCK FALSE
