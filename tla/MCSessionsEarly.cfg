SPECIFICATION Spec
CONSTANTS
  Miners = {1}
  SessionIds = {1, 2}
  MinerOf <- SameMiner
  GrantDepth = 1
  Depth = 1
  MaxRequests = 1
  FirstRound = 0
  MaxRound = 2
  MaxSpawns = 1
INVARIANTS
  NoEarlyJob
CHECK_DEADLOCK FALSE
