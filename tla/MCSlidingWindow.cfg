SPECIFICATION Spec
CONSTANTS
  Replicas = {1, 2}
  Pid <- DistinctPids
  Limit = 2
  Window = 3
  MaxLag = 1
  MaxCalls = 3
  MaxClock = 7
INVARIANTS
  RetryAfterExact
PROPERTIES
  ExactWindow
