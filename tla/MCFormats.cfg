CONSTANTS
  MAX_VALUE_BYTES = 6
  MAX_KEY_BYTES = 8
  MAX_ROWS = 2
  MAX_FIELDS = 2
  MAX_DEPTH = 2
  Messages <- StoredMessages
  Ceilings <- StoredCeilings
  TOP = 24
  MAX_NAME = 2
  MAX_INSTRUCTIONS = 20
  MAX_EFFECTS = 2
  MAX_STATE_KEY = 2
  MAX_STATE_VALUE = 2
  MAX_OVERLAY = 8
  MAX_ENTRIES = 2
  MAX_OUTCOME_BYTES = 40
  MAX_BODY = 40
  MaxChanges = 1
SPECIFICATION FormatsSpec
INVARIANTS
  PagesAreCanonical
  CodecsAreExact
  ManifestsAreExact
  VerifierIsExact
CHECK_DEADLOCK FALSE
