SPECIFICATION CallSpec
CONSTANTS
  Rids = {r1, r2}
  Calls = {c1, c2}
  Asks <- OneAsk
  Modes = {"adaptive"}
  FactorPercent = 110
  MaxBreaks = 1
  Window = 3
  TpmRate = 3
  RpmRate = 3
  RpmUnit = 1
  LeaseLengths = {2}
  MaxConcurrency = 1
  MaxQueueDepth = 1
  ReclaimBatch = 1
  IdempotencyTtl = 1
  DefaultService = 2
  Reserves = {4}
  Slos = {0}
  Actuals <- ShortAndLong
  Services = {0}
  RetryHorizon = 2
  MaxLag = 1
  MaxRewind = 0
  MaxClock = 8
SYMMETRY Symmetry
INVARIANTS
  LeaseHonoured
  NothingLost
  HoldsCalibrated
