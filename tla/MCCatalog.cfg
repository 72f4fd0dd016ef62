SPECIFICATION Spec
CONSTANTS
  Reads = {r1, r2}
  Edits = {e1}
  MaxVersion = 2
  None = None
INVARIANTS
  AnswersShowConfirmedEdits
PROPERTIES
  AnswersCatchUp
CHECK_DEADLOCK FALSE
