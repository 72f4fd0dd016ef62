SPECIFICATION Spec
CONSTANTS
  Prices = {1, 2}
  MaxUnits = 2
  MaxCalls = 3
  MaxVisits = 2
  MaxEdits = 3
  None = None
INVARIANT NewTotalIsReviewed
CHECK_DEADLOCK FALSE
