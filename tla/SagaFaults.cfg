\* Every call to the storage may fail while a cancel races with the execution.
CONSTANTS
    N = 2
    MaxAttempts = 1
    Reverse = TRUE
    MaySkip = FALSE
    HasTimeout = FALSE
    StorageFaults = TRUE
    MayRefuse = FALSE
    Worker = worker
    Cancellers = {c1}
    Stoppers = {}
SPECIFICATION Spec
PROPERTIES
    EventuallyTerminal
\* A saga ends.
CHECK_DEADLOCK FALSE
