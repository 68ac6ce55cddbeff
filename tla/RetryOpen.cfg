\* Two executors share a breaker through WithCircuitBreaker.
CONSTANTS
    Executors = {e1, e2}
    MaxAttempts = 2
    MaxFailures = 2
    HalfOpenMaxRequests = 1
    Guarded = TRUE
SPECIFICATION Spec
PROPERTIES
    LeavesOpen
