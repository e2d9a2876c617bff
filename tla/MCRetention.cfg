SPECIFICATION Spec
CONSTANTS
  Consumers = {"index"}
  Kinds <- MCKinds
  Keys = {1, 2}
  SizeOf <- MCSizeOf
  BatchLimits <- MCBatchLimits
  CheckpointInterval = 2
  MaxSequence = 2
  MaxCursorId = 3
  MaxNamespace = 2
CHECK_DEADLOCK FALSE
INVARIANTS
  ClaimsAreKept
  DerivedIsSource
