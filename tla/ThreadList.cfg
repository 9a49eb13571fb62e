\* four async threads, of which main or another one starts each
CONSTANTS
  Main = main
  NoThread = NoThread
  Threads = {t1, t2, t3, t4}
  InitialCapacity = 3
SPECIFICATION Spec
INVARIANTS
  ReadsLiveMemory
CHECK_DEADLOCK FALSE
