SPECIFICATION FairSpec
CONSTANTS
  RowCount = 2
  PageSize = 1
  MaxRevision = 2
INVARIANTS
  CompleteSyncCoversAll
PROPERTIES
  ProjectionNeverGoesBack
  ProjectionCatchesUp
CHECK_DEADLOCK FALSE
