CONSTANTS
  Symbols <- MCSymbols
  Outer <- MCOuter
  Params <- MCParams
  Bodies <- MCBodies
  FirstArgument = 1
  FirstOuter = 5
  Native = "h"
  External <- MCExternal
SPECIFICATION Spec
INVARIANTS StaysInFrame ComputesMeaning
PROPERTIES Returns
CHECK_DEADLOCK FALSE
