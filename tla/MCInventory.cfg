SPECIFICATION Spec
CONSTANTS
  s1 = s1
  s2 = s2
  e1 = e1
  Stocks = {s1, s2}
  Keys = {k1, k2}
  OpKeys = {o1, o2}
  Events = {e1}
  EventItems <- MCEventItems
  MaxQuantity = 2
  MaxOnHand = 3
  SweepLimit = 2
  None = None
INVARIANTS
  ReservedIsHeld
  NeverOversold
  StockConserved
  AnnouncedIsCurrent
PROPERTIES
  ReservationLifecycle
  DueIsFreed
CHECK_DEADLOCK FALSE
