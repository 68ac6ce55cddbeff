CONSTANTS
    Callers = {c1, c2}
    N = 2
    MaxRetries = 1
    MaxCalls = 2
SPECIFICATION Spec
INVARIANTS
    CommittedEverywhere
    FailedNowhere
    UndoneInReverse
PROPERTIES
    CommitNeedsVotes
    DecisionIsFinal
    ExecuteReturns
