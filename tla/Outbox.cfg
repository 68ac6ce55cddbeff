CONSTANTS
  m1 = m1
  m2 = m2
  w1 = w1
  c1 = c1
  Messages <- MCMessages
  Workers <- MCWorkers
  Callers <- MCCallers
  Cancellable <- MCWorkers
  BatchSize = 2
  MaxRetries = 1
  MaxFaults = 2
SPECIFICATION Spec
INVARIANTS
  NeverLost
  GivesUpOnlyAfterRetries
  DuplicatesExplained
PROPERTIES
  EventuallySettled
  ImplementsPublication
CHECK_DEADLOCK FALSE
