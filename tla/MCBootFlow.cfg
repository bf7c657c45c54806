CONSTANTS
  Platforms <- MCPlatforms
  Targets <- MCTargets
  HostapdAttempts = 5
SPECIFICATION FairSpec
CHECK_DEADLOCK FALSE
INVARIANT TypeOK
INVARIANT GadgetOnce
INVARIANT BluezReadsPatched
INVARIANT ApComplete
INVARIANT LoadersAgree
INVARIANT WayIn
PROPERTY BootEnds
PROPERTY CrashCaught
