SPECIFICATION OnboardingFairSpec
CONSTANTS
  Addresses = {u1}
  Workers = {w1, w2}
  RetryLimit = 2
  MaxGeneration = 2
  MaxStatusChanges = 1
  MaxFaults = 2
  Null = Null
INVARIANTS
  EndedAttemptIsReported
  OneLinkAtMost
PROPERTIES
  AuthNeverGoesBack
  EveryMailSettles
CHECK_DEADLOCK FALSE
