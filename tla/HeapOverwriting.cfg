CONSTANTS
  Programs <- MCOverwriting
  Depth <- MCDepth
  Registers = {1, 2, 3, 4, 5}
  DropsInstances = FALSE
  MaxStack = 12
  MaxObjects = 40
SPECIFICATION Spec
INVARIANT NothingInUseIsFreed
CHECK_DEADLOCK FALSE
