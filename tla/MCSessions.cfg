SPECIFICATION FairSpec
CONSTANTS
  Miners = {1}
  SessionIds = {1, 2}
  MinerOf <- SameMiner
  GrantDepth = 1
  Depth = 1
  MaxRequests = 1
  FirstRound = 1
  MaxRound = 2
  MaxSpawns = 1
INVARIANTS
  TypeOK
  ToldBeforeJobs
PROPERTIES
  WorkReachesMiner
CHECK_DEADLOCK FALSE
