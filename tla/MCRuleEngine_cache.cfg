SPECIFICATION LiveSpec
CONSTANTS
  Callers = {c1, c2}
  Ids = {i1}
  Dims <- GlobalOnly
  Limits <- OneLimit
  Priorities = {1}
  DefaultPriority = 100
  None = None
  Ttl = 2
  MaxQuery = 1
  MaxWrites = 2
INVARIANTS
  BoundedStaleness
  UnracedWritesShow
PROPERTIES
  EventuallyCurrent
