\* The process dies under a saga that may be stopped and recovered.
CONSTANTS
    N = 2
    MaxAttempts = 1
    Reverse = TRUE
    MaySkip = FALSE
    HasTimeout = FALSE
    StorageFaults = FALSE
    MayRefuse = FALSE
    Worker = worker
    Cancellers = {r1, r2, o1}
    Recoverers = {r1, r2}
    Operators = {o1}
    Late = {r2, o1}
    Stoppers = {s1}
    MaxCrashes = 2
SPECIFICATION RecoverySpec
INVARIANTS
    RecordedBeforeDone
    CompensationRecordsTrue
    CompletedIsTrue
    OneRecoveryAtATime
PROPERTIES
    RecoveryEnds
\* A saga ends.
CHECK_DEADLOCK FALSE
