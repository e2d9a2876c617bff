CONSTANTS
  MAX_VALUE_BYTES = 16
  MAX_KEY_BYTES = 8
  MAX_ROWS = 4
  MAX_FIELDS = 4
  MAX_DEPTH = 4
  Cases <- MCCases
  Stores <- TwoStores
SPECIFICATION Spec
INVARIANTS UsageIsExact OutcomeValidates ManifestDecides ReservationCovers
