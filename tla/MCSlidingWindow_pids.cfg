SPECIFICATION Spec
CONSTANTS
  Replicas = {1, 2}
  Pid <- SamePid
  Limit = 2
  Window = 3
  MaxLag = 0
  MaxCalls = 3
  MaxClock = 4
INVARIANTS
  WithinLimit
