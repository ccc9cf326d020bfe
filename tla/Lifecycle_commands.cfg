SPECIFICATION LiveSpec
CONSTANTS
  p1 = p1  p2 = p2  p3 = p3
  None = None
  Procs <- ThreeProcs
  MaxCrashes = 2
INVARIANTS TypeOK AloneIsReachable AloneStatusIsTrue
PROPERTIES ServeStarts StopEnds
CHECK_DEADLOCK FALSE
