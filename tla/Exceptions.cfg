SPECIFICATION Spec
CONSTANTS
  Programs <- MyPrograms
  Code <- MyCode
  MaxTrace = 20
  Everything = FALSE
INVARIANTS
  RunsAsWritten
  HandlersFollowNesting
  StackBalanced
  ThrowsFromRunningContext
