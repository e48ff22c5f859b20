SPECIFICATION Spec
CONSTANTS
  Rids = {r1, r2, r3}
  Window = 1
  TpmRate = 3
  RpmRate = 3
  RpmUnit = 1
  LeaseLengths = {1, 4}
  MaxConcurrency = 1
  MaxQueueDepth = 1
  ReclaimBatch = 1
  IdempotencyTtl = 2
  DefaultService = 2
  Reserves = {2, 4}
  Slos = {0}
  Actuals <- SmallActuals
  Services = {0}
  RetryHorizon = 1
  MaxLag = 1
  MaxRewind = 1
  MaxClock = 4
SYMMETRY Symmetry
INVARIANTS
  TypeOK
  LedgerConsistent
  Conservation
  ChargedOnce
  EveryHoldLeavesOnce
  InflightBounded
  BudgetOutlivesLeases
