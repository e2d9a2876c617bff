CONSTANTS
  Scenarios <- MCScenarios
  OrderedMetadata = TRUE
  MaxMaintains = 1
SPECIFICATION Spec
INVARIANTS
  RecoveryNeverFails
  RecoverableAtEveryMoment
PROPERTIES
  ImplementsAtomicLog
CHECK_DEADLOCK FALSE
