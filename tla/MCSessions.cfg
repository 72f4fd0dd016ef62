SPECIFICATION Spec
CONSTANTS
  Users = {u1}
  Calls = {c1, c2}
  MaxTokens = 3
  MaxVersion = 2
  None = None
SYMMETRY MCSymmetry
INVARIANTS
  LiveTokenIsOfEnabledVersion
  OneLiveTokenPerFamily
PROPERTIES
  EndedFamilyStaysEnded
CHECK_DEADLOCK FALSE
