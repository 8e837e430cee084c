SPECIFICATION FairSpec
CONSTANTS
  Extrinsics <- Once
  EasesAt <- MCEasesAt
  AwaitClearPolls = 2
  AwaitMaxBlocks = 2
  MaxRoot = 1
  MaxBlock = 3
  MaxGeneration = 4
  Answering = {1, 2, 3, 4}

  
PROPERTIES
  AwaitEnds
  
CHECK_DEADLOCK FALSE
