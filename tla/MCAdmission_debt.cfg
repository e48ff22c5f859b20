SPECIFICATION LiveSpec
CONSTANTS
  Rids = {r1, r2}
  Window = 1
  TpmRate = 3
  RpmRate = 2
  RpmUnit = 1
  LeaseLengths = {1}
  MaxConcurrency = 1
  MaxQueueDepth = 1
  ReclaimBatch = 1
  IdempotencyTtl = 2
  DefaultService = 2
  Reserves = {1, 3, 4}
  Slos = {0}
  Actuals <- DeepActuals
  Services = {0}
  RetryHorizon = 1
  MaxLag = 0
  MaxRewind = 0
  MaxClock = 6
PROPERTIES
  AdmittedOutOfTheHole
