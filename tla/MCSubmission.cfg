SPECIFICATION FairSpec
CONSTANTS
  Calls = {1, 2}
  Mixes <- MCMixes
  MaxForks = 1
INVARIANTS
  SuccessIsOurs
  NoWinDisowned

  
CHECK_DEADLOCK FALSE
