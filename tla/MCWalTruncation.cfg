CONSTANTS
  Scenarios <- MCTruncation
  OrderedMetadata = FALSE
  MaxMaintains = 0
SPECIFICATION Spec
INVARIANTS
  RecoveryNeverFails
CHECK_DEADLOCK FALSE
