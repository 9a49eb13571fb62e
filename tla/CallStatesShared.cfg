\* two threads that call the functions of one object
CONSTANTS
  Threads = {main, t1}
  Main = main
  Objects = {a}
  Clones = {c1, c2}
  Private = {}
  MainCalls = 1
  OtherCalls = 1
  Reach <- MCReach
  MaxCalls <- MCCalls
  Args = 1
SPECIFICATION Spec
SYMMETRY AlikeStates
INVARIANTS
  OneRunPerState
CHECK_DEADLOCK FALSE
