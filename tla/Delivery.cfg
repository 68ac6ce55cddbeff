CONSTANTS
  m1 = m1
  m2 = m2
  Messages <- MCMessages
  Slots = {s1, s2}
  Concurrency = 2
  Prefetch = 2
  MaxRetries = 2
  MaxCopies = 1
  MaxFaults = 2
SPECIFICATION Spec
INVARIANTS
  TypeOK
  NeverDropped
  HandledOnceUnlessForgotten
  RecordedMeansHandled
PROPERTIES
  EventuallyProcessed
\* Every message may have been handled.
CHECK_DEADLOCK FALSE
