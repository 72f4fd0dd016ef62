SPECIFICATION Spec
CONSTANTS
  Events = {e1}
  Workers = {w1}
  BatchSize = 1
  RetryLimit = 1
  Prefetch = 1
  MaxCopies = 1
  None = None
PROPERTY
  PublishedIsSettled
CHECK_DEADLOCK FALSE
