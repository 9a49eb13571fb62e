\* two threads: the object a and the clone c2 are shared
CONSTANTS
  Threads = {main, t1}
  Main = main
  Objects = {a}
  Clones = {c1, c2}
  Private = {c1}
  MainCalls = 3
  OtherCalls = 1
  Reach <- MCReach
  MaxCalls <- MCCalls
  Args = 1
SPECIFICATION Spec
SYMMETRY AlikeStates
INVARIANTS
  TypeOK
  UnsharedRunOnce
  RunningFlagExact
  CallsNotMixed
  ClonesRooted
  CallersStackKept
