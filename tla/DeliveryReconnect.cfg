CONSTANTS
  m1 = m1
  m2 = m2
  Messages <- MCMessages
  Slots = {s1}
  Concurrency = 1
  Prefetch = 2
  MaxRetries = 2
  MaxCopies = 2
  MaxFaults = 1
SPECIFICATION Spec
INVARIANTS
  AckedAfterProcessing
\* Every message may have been handled.
CHECK_DEADLOCK FALSE
