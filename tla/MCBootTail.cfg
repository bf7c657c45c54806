SPECIFICATION FairSpec
CONSTANTS
  Children = {c1, c2}
  MaxSignals = 3
INVARIANTS
  TypeOK
  CommandIsLastRequest
  CleanUnlessCut
PROPERTIES
  ZombiesReaped
  SignalActs
  ShutdownEnds
CHECK_DEADLOCK FALSE
