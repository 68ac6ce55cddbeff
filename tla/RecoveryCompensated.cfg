\* The process dies, and one recovery follows.
CONSTANTS
    N = 2
    MaxAttempts = 1
    Reverse = TRUE
    MaySkip = FALSE
    HasTimeout = FALSE
    StorageFaults = FALSE
    MayRefuse = FALSE
    Worker = worker
    Cancellers = {r1}
    Recoverers = {r1}
    Operators = {}
    Late = {r1}
    Stoppers = {}
    MaxCrashes = 1
SPECIFICATION RecoverySpec
INVARIANTS
    CompensatedIsTrue
\* A saga ends.
CHECK_DEADLOCK FALSE
