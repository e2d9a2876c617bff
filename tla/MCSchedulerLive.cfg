CONSTANTS
  t = t
  k1 = k1
  k2 = k2
  Table = {t}
  Key = {k1, k2}
  AnyKey = AnyKey
  Metadata = Metadata
  Value = {1, 2}
  Absent = Absent
  Reads <- MCReads
  Writes <- MCWrites
  Run <- MCRun
  Admits <- MCAdmits
  LogBytes <- MCLogBytes
  Reservation <- MCReservation
  Close = Close
  Maintenance = Maintenance
  Txn = {"bump", "guard", "copy"}
  Admin = {"policy"}
  Workers = {1, 2}
  submission_queue_count = 3
  assigned_backlog_count = 2
  assigned_backlog_bytes = 3
  preparation_bytes = 4
  execution_bytes = 4
  execution_window = 3
  checkpoint_interval = 2
  GroupLimit = 2
  Control = {Maintenance}
  ControlSlots = 1
  MaxOpens = 1
SPECIFICATION FairSpec
INVARIANTS
  BudgetsHold
  NobodyWaitsForNobody
PROPERTIES
  NobodyIsOvertaken
  EveryCallerIsAnswered
  CloseEnds
CHECK_DEADLOCK FALSE
