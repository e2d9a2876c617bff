SPECIFICATION Spec
CONSTANTS
  Bodies = {"put", "guard"}
  Baseline <- MCBaseline
  Options <- MCOptions
  Size <- MCSize
  Overhead <- MCOverhead
  MaxSequence = 5
  MaxFailures = 3
CHECK_DEADLOCK FALSE
INVARIANTS
  ReplicaIsPrefix
PROPERTIES
  ReplicaCatchesUp
