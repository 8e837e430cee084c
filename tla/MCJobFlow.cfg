SPECIFICATION Spec
CONSTANTS
  Miners = {1, 2}
  Orders = {1}
  Envelopes = {"full", "plain"}
  LeaseEnvelopes = {"full"}
  Topologies = {"base", "wide"}
  Fits <- MCFits
  MaxDepth = 1
  MaxGrant = 1
  MaxCredits = 1
  MaxSalt = 1
  MaxGeneration = 2
  Chains <- MCChains
  PageSizes = {1, 2, 3, 4, 5}
  Outages <- MCOutages
  MaxBlock = 6
  Me = "me"
  SolverTypes = {"Cpu", "Gpu"}
  Runtimes <- MCRuntimes
  PoolEntries <- MCPoolEntries
  Hashes = {"A", "B"}
INVARIANTS
  SinglePlacement
  OrdersAccounted
  NoStaleWork
  MinedIsEvidence
  ReadsSound
CHECK_DEADLOCK FALSE
