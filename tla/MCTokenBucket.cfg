SPECIFICATION Spec
CONSTANTS
  Limit = 2
  Window = 3
  Unit = 3
  Rate = 2
  MaxLag = 2
  MaxRewind = 2
  MaxClock = 9
INVARIANTS
  TypeOK
  RetryAfterExact
PROPERTIES
  BurstThenRate
  LazyRefillIsEager
