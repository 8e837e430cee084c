SPECIFICATION FairSpec
CONSTANTS
  Sessions = {s1, s2}
  Ids = {1, 2}
  Energies = {1, 2, 3}
  Rules = {"stepwise", "continuous"}
  Clearing <- MCClearing
  Ceiling <- MCCeiling
  MaxElapsed = 1
  MaxGeneration = 2
  K = 1
  MaxAttempts = 2
  Models <- MCModels
  Horizon = 260
  Nodes <- MCNodes
  Edges <- MCEdges
  Fields <- MCFields
  Couplings <- MCCouplings
  Inline <- MCInline
  Results <- MCResults
  Gates <- MCGates
  Ceilings = {0, 1, 2, 3, 5}
  MAX_PROOF_SOLUTIONS = 3
INVARIANTS
  
  WinnersKept
  ProjectionSound
  ProofsSound
PROPERTIES
  ReadyResolves
CHECK_DEADLOCK FALSE
