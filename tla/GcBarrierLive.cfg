\* main and two async threads; no symmetry, since liveness is checked
CONSTANTS
  Main = main
  NoThread = NoThread
  Threads = {main, t1, t2}
SPECIFICATION FairSpec
PROPERTIES
  WaitersReleased
  ProgramEnds
