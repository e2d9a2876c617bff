CONSTANTS
  MAX_VALUE_BYTES = 6
  MAX_KEY_BYTES = 8
  MAX_ROWS = 2
  MAX_FIELDS = 2
  MAX_DEPTH = 2
  Keys <- MCKeys
  Table = 2
  Sequences <- MCSequences
  Cases <- MCCases
  MaxSequence = 2
  PENDING = 1
  MaxEdits = 3
SPECIFICATION StateSpec
INVARIANTS
  ReadsAreLogical
  PublishedIsValid
CHECK_DEADLOCK FALSE
