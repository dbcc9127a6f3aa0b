SPECIFICATION FairSpec
CONSTANTS
  t1 = t1
  t2 = t2
  t3 = t3
  Threads = {t1, t2, t3}
  MaxRuns = 3
INVARIANTS
  PortReleased
  ReachableWhileRunning
PROPERTIES
  LateStopEndsRun
CHECK_DEADLOCK FALSE
