SPECIFICATION TimedLiveSpec
CONSTANTS
  Rids = {r1, r2}
  Window = 2
  TpmRate = 3
  RpmRate = 3
  RpmUnit = 5
  LeaseLengths = {3}
  MaxConcurrency = 1
  MaxQueueDepth = 1
  ReclaimBatch = 1
  IdempotencyTtl = 2
  DefaultService = 2
  Reserves = {3, 7}
  Slos = {0, 3}
  Actuals <- MixedActuals
  Services = {6}
  RetryHorizon = 1
  MaxLag = 0
  MaxRewind = 0
  MaxClock = 10
INVARIANTS
  EffectiveRate
  RequestRate
  RetryAfterExact
PROPERTIES
  LedgerIsEager
  ExpiredLeaseReclaimed
