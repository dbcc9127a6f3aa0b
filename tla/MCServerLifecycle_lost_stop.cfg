SPECIFICATION FairSpec
CONSTANTS
  t1 = t1
  t2 = t2
  t3 = t3
  Threads = {t1, t2}
  MaxRuns = 1
PROPERTIES
  StopEndsRun
CHECK_DEADLOCK FALSE
