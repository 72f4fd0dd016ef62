SPECIFICATION Spec
CONSTANTS
  o1 = o1
  s1 = s1
  s2 = s2
  Orders = {o1}
  Stocks = {s1, s2}
  Cart <- MCCart
  InitialStock <- MCInitialStock
  MaxQuantity = 1
  MaxCancellations = 2
  SweepLimit = 2
  None = None
INVARIANTS
  CompensatedNeverDispatched
  CompensatedAtMostOnce
  FailedNeverSold
  SoldLeavesNoHold
  DispatchedStaysSold
PROPERTIES
  CancelledSaleIsSettled
CHECK_DEADLOCK FALSE
