SPECIFICATION RestartingSpec
CONSTANTS
  Events = {e1}
  Workers = {w1, w2}
  BatchSize = 2
  RetryLimit = 1
  Prefetch = 1
  MaxCopies = 2
  None = None
INVARIANTS
  NothingLost
  AppliedOnce
PROPERTY
  ImplementsDelivery
CHECK_DEADLOCK FALSE
