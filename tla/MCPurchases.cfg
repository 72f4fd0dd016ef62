SPECIFICATION Spec
CONSTANTS
  o1 = o1
  o2 = o2
  c1 = c1
  h1 = h1
  h2 = h2
  h3 = h3
  Orders = {o1, o2}
  Buyer <- MCBuyer
  Handlers = {h1, h2, h3}
SYMMETRY MCSymmetry
INVARIANTS
  TypeOK
  CancelledIsNoSale
  CustomerCountsPurchases
CHECK_DEADLOCK FALSE
