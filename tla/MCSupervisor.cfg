SPECIFICATION FairSpec
CONSTANTS
  Miners = {1, 2}
  Hanging = {2}
  Capacity = 1
  BaseDelay = 1
  MaxDelay = 2
  Budget = 1
  Window = 1
  MaxTime = 2
  MaxCrashes = 2
INVARIANTS
  NoOrphans
PROPERTIES
  BudgetIsExact
  StopCompletes
CHECK_DEADLOCK FALSE
