SPECIFICATION Spec
CONSTANTS
  DefaultPriority = 100
  None = None
  Tables <- SomeTables
  Contexts <- AllContexts
  Overrides <- SomeOverrides
  Defaults <- Default
  Resets = {None, 3}
  Unit = 6
  Start = 24
  MaxClock = 31
INVARIANTS
  TypeOK
  PromiseKept
  RejectionsDeserved
