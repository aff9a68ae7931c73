SPECIFICATION FairSpec
CONSTANTS
  MaxCalls = 3
  Modes = {"inmemory", "http", "direct", "other"}
  Outcomes = {"value", "employee_not_found", "crash"}
INVARIANTS
  TypeOK
  NothingLeftBehind
  FailureKeepsItsStatus
PROPERTIES
  ImplementsSession
  SessionEnds
CHECK_DEADLOCK FALSE
