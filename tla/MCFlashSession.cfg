SPECIFICATION Spec
CONSTANTS
  Sectors = 3
  Persist = 2
  Images = {"i1", "i2"}
  MaxSessions = 2
  MaxOutages = 1
INVARIANTS OriginalSafe SuccessMeansFlashed
CHECK_DEADLOCK FALSE
