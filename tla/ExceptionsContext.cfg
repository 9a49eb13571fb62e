SPECIFICATION Spec
CONSTANTS
  Programs <- MyPrograms
  Code <- MyCode
  MaxTrace = 20
  Everything = TRUE
INVARIANT ThrowsFromRunningContext
CHECK_DEADLOCK FALSE
