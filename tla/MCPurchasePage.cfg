SPECIFICATION Spec
CONSTANTS
  Prices = {1, 2}
  MaxUnits = 2
  MaxCalls = 2
  MaxVisits = 2
  MaxEdits = 3
  None = None
INVARIANTS
  TypeOK
  SalesAreKnown
  OneBagPerKey
  SoldAsShown
  BagKeepsTheRest
CHECK_DEADLOCK FALSE
