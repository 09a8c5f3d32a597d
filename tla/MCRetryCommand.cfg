SPECIFICATION Spec
CONSTANTS
  MaxAttempts = 8
  IntMax = 6
  Statuses <- SomeStatuses
INVARIANTS
  TypeOK
  ExitTellsTheAttempts
PROPERTIES
  AttemptsRunOut
  Ends
CHECK_DEADLOCK FALSE
