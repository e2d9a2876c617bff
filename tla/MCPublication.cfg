CONSTANTS
  Scenarios <- MCScenarios
SPECIFICATION Spec
INVARIANTS SelectionIsComplete PinnedFilesStay AttachedOrMarked
CHECK_DEADLOCK FALSE
