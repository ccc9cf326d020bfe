SPECIFICATION LiveSpec
CONSTANTS
  k1 = k1  k2 = k2  d1 = d1  d2 = d2
  Writer = Writer  NoJob = NoJob
  Conns <- TwoConns
  Dirs <- OneDir
  Configs <- OneIndex
  Watched <- First
  MaxEdits = 1
  MaxRequests = 2
  MaxFaults = 1
INVARIANTS TypeOK QueueDestroyedUnused NobodyWaitsInVain
PROPERTIES ShutdownCompletes ChangesAreIndexed
CHECK_DEADLOCK FALSE
