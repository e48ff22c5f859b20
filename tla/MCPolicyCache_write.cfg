SPECIFICATION Spec
CONSTANTS
  Callers = {c1}
  Pairs = {p1}
  Ttl = 2
  MaxQuery = 1
  MaxWrites = 2
INVARIANTS
  WritesTakeEffectHere
