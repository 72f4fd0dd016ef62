SPECIFICATION OnboardingSpec
CONSTANTS
  Addresses = {u1}
  Workers = {w1}
  RetryLimit = 2
  MaxGeneration = 1
  MaxStatusChanges = 0
  MaxFaults = 2
  Null = Null
INVARIANTS
  AcceptedIsNotFailed
CHECK_DEADLOCK FALSE
