SPECIFICATION FairSpec
CONSTANTS
  CudaKeys <- MCCudaKeys
  DeviceOf <- MCDeviceOf
  Validators = {1, 2}
  Api <- MCApi
  Configs <- MCConfigs
  Floor = 2
  TopUp = 10
  Timeout = 5
  BackoffStart = 2
  BackoffMax = 3
  PollInterval = 5
  UnreachableGrace = 5
  SyncedConfirmations = 2
  SubmitAttempts = 2
  MaxMints = 1
  MaxStarts = 2
  Hosts <- MCHosts
  Operators <- MCOperators
  MaxBytes = 9
  MAX_GPUS = 2
  MAX_RPC_ENDPOINTS = 2
  MaxU32 = 9
INVARIANTS
  
  
  SeedReportTrue
  PlanSound
  

  
CHECK_DEADLOCK FALSE
