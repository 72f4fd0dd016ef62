SPECIFICATION Spec
CONSTANTS
  all = all
  single = single
  v1 = v1
  v2 = v2
  Promotions = {p1, p2}
  Deals = {all, single}
  Variants = {v1, v2}
  Targets <- MCTargets
  Priority <- MCPriority
  Discount <- MCDiscount
  BasePrice <- MCBasePrice
  Pages = {h1}
  Runs = {r1}
  Refresh = 2
  MaxTime = 3
  MaxEdits = 2
INVARIANTS
  TypeOK
  HeldQuoteIsCurrent
  ExpiredIsOver
  StatusIsAnnounced
PROPERTY
  OverIsExpired
CHECK_DEADLOCK FALSE
