SPECIFICATION RestartSpec
CONSTANTS
  p1 = p1  p2 = p2  p3 = p3
  None = None
  Procs <- TwoProcs
  MaxCrashes = 0
INVARIANTS Reachable
CHECK_DEADLOCK FALSE
