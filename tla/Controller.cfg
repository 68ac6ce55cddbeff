\* Failing and cancelled executions, under a Shutdown.
CONSTANTS
    Sagas = {a, b}
    Workers = {w1, w2}
    MaxConcurrentSagas = 1
    Closers = {k1}
    MayFail = TRUE
    MayCancel = TRUE
SPECIFICATION Spec
INVARIANTS
    NoSlotLeak
    BooksExact
    ShutdownDrains
PROPERTIES
    StartSagaAnswers
    ShutdownReturns
\* Every saga is started once, and a panic ends the process.
CHECK_DEADLOCK FALSE
