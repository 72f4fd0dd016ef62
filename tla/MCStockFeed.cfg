SPECIFICATION FeedFairSpec
CONSTANTS
  b1 = b1
  b2 = b2
  Nothing = Nothing
  Branches <- MCBranches
  Remembered = 1
  MaxChanges = 3
  MaxFaults = 1
PROPERTIES
  DashboardNeverGoesBack
  DashboardCatchesUp
CHECK_DEADLOCK FALSE
