\* A cancel, a stop and a timeout race with the execution.
CONSTANTS
    N = 2
    MaxAttempts = 1
    Reverse = TRUE
    MaySkip = FALSE
    HasTimeout = TRUE
    StorageFaults = FALSE
    MayRefuse = TRUE
    Worker = worker
    Cancellers = {c1}
    Stoppers = {s1}
SPECIFICATION Spec
INVARIANTS
    UndoneOnlyIfDone
    OutcomeIsTrue
    OwnOutput
PROPERTIES
    EventuallyTerminal
    StartSagaReturns
\* A saga ends.
CHECK_DEADLOCK FALSE
