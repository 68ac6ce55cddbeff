SPECIFICATION Spec
CONSTANTS
    Callers = {c1, c2, c3}
    MaxRequests = 2
    MinimumRequests = 3
    FailureThreshold = 2
    FailureRatePercent = 60
    MaxGeneration = 5
    MaxWindow = 4
INVARIANTS CountedOnce ProbesBounded NoFailureOverlooked
PROPERTIES ClosesAfterAllProbes FullHalfOpenResolves
CHECK_DEADLOCK FALSE
