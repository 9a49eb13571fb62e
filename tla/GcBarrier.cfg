\* main and three async threads, each started at most once
CONSTANTS
  Main = main
  NoThread = NoThread
  Threads = {main, t1, t2, t3}
SPECIFICATION Spec
SYMMETRY StartedThreads
INVARIANTS
  TypeOK
  IInv
  StopTheWorld
  NoMixedRounds
  JoinAfterCreate
  MainExitsLast
PROPERTIES
  ReinitUnused
  ImplementsStopTheWorld
