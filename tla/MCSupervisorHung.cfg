SPECIFICATION FairSpec
CONSTANTS
  Miners = {1}
  Hanging = {1}
  Capacity = 1
  BaseDelay = 1
  MaxDelay = 2
  Budget = 2
  Window = 3
  MaxTime = 1
  MaxCrashes = 1
PROPERTIES
  ShutdownCompletes
CHECK_DEADLOCK FALSE
