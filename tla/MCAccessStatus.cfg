SPECIFICATION AccessSpec
CONSTANTS
  Users = {u1}
  Requests = {r1, r2}
  Sockets = {s1}
  CacheTtl = 2
  FetchTimeout = 1
  PollEvery = 1
  Expiries = {3, 7}
  MaxVersion = 2
  MaxTime = 6
  None = None
INVARIANTS
  OpenSocketWasValid
PROPERTIES
  GrantedWasValid
  RefusedHasCause
CHECK_DEADLOCK FALSE
