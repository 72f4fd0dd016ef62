SPECIFICATION Spec
CONSTANTS
  Orders = {o1, o2}
  Online = {o1}
  Employees = {e1, e2}
  Admins = {adm}
  MaxVersion = 6
  MaxTime = 2
  None = None
SYMMETRY MCSymmetry
INVARIANTS
  AcceptedNeverDispatched
PROPERTIES
  NoBlindUpdate
  ImplementsLifecycle
CHECK_DEADLOCK FALSE
