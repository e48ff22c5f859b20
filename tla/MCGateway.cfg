SPECIFICATION LiveSpec
CONSTANTS
  Requests = {q1, q2}
  Surfaces = {"check", "own", "reserve", "commit"}
  FailureMode <- DefaultModes
  MaxRetries = 1
  MaxOutages <- Outages
INVARIANTS
  TypeOK
  DegradedExplained
  GuardedNeverErrors
  ErrorsExplained
PROPERTIES
  RequestsAnswered
  ReconnectsOrGaveUp
