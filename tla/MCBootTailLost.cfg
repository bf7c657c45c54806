SPECIFICATION FairSpec
CONSTANTS
  Children = {c1, c2}
  MaxSignals = 1
PROPERTIES
  ShutdownHonoured
CHECK_DEADLOCK FALSE
