CONSTANTS
  Platforms <- MCPlatforms
  Targets <- MCTargets
  HostapdAttempts = 5
SPECIFICATION Spec
CHECK_DEADLOCK FALSE
INVARIANT NoLeftover
