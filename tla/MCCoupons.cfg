SPECIFICATION CouponSpec
CONSTANTS
  o1 = o1
  o2 = o2
  r1 = r1
  Orders = {o1, o2}
  Rights = {r1}
  Wanted <- MCWanted
  Cancellable = {o1}
  MaxLate = 1
  None = None
INVARIANTS
  DiscountedSaleHoldsRight
PROPERTY
  RightFollowsOrder
CHECK_DEADLOCK FALSE
