SPECIFICATION LiveSpec
CONSTANTS
  Callers = {c1, c2}
  Pairs = {p1, p2}
  Ttl = 2
  MaxQuery = 1
  MaxWrites = 2
INVARIANTS
  OneSetAtATime
  BoundedStaleness
  UnracedWritesShow
PROPERTIES
  CallersAnswered
  EventuallyCurrent
