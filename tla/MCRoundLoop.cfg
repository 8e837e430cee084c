SPECIFICATION Spec
CONSTANTS
  Extrinsics <- Three
  EasesAt <- MCEasesAt
  AwaitClearPolls = 2
  AwaitMaxBlocks = 2
  MaxRoot = 1
  MaxBlock = 3
  MaxGeneration = 5
  Answering = {}
INVARIANTS
  OneRootPerGeneration
  OnlyRegisteredMine
  NoClearingProofMissed
PROPERTIES
  StopsOncePerRoot
CHECK_DEADLOCK FALSE
