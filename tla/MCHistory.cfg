CONSTANTS
  Commands <- MCCommands
  Programs <- MCPrograms
  SchemaOf <- MCSchemaOf
  GenesisPolicy = 2
  MaxSequence = 5
SPECIFICATION Spec
INVARIANTS
  HistoryValidates
  HistorySurvives
  DamageIsMet
