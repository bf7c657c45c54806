CONSTANTS
  Chips <- MCChips
  QueueCap = 2
  MaxNoise = 3
  MaxIntr = 2
SPECIFICATION FairSpec
CHECK_DEADLOCK FALSE
INVARIANT NoLostWakeup
INVARIANT OfflineJustified
PROPERTY CardNoticed
PROPERTY DeadlineKept
