\* Nobody interferes: steps, retries, failed and skipped compensation.
CONSTANTS
    N = 4
    MaxAttempts = 3
    Reverse = TRUE
    MaySkip = TRUE
    HasTimeout = FALSE
    StorageFaults = FALSE
    MayRefuse = FALSE
    Worker = worker
    Cancellers = {}
    Stoppers = {}
SPECIFICATION Spec
INVARIANTS
    GaugeSettles
PROPERTIES
    StorageConverges
    ImplementsSaga
\* A saga ends.
CHECK_DEADLOCK FALSE
