SPECIFICATION FairSpec
CONSTANTS
  Jobs = {1, 2, 3}
  Workloads <- MCWorkloads
  Labels <- MCLabels
  QueueDepth = 3
  OutCap = 1
  GrantCap = 3
  InCap = 1
  Specs <- MCSpecs
  Lists <- MCLists
  MaxCount = 5
INVARIANTS
  OneRowPerJob
  SlotsConserved
  RowsTrue
  NothingLost
  JobsSound
  GraphsSound
PROPERTIES
  RunEnds
  Promise
CHECK_DEADLOCK FALSE
