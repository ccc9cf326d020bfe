SPECIFICATION Spec
CONSTANTS
  c1 = c1  c2 = c2  n1 = n1  n2 = n2  t1 = t1  d1 = d1
  NoEntry = NoEntry  NoKey = NoKey  NoClient = NoClient
  Notes <- OneNote
  Terms <- None
  Docs <- None
  Clients <- OneHandler
  MaxContent = 1
  Writable = TRUE
  MaxVersion = 1
  MaxTime = 0
  MaxFaults = 1
  MaxQueue = 1
INVARIANTS EveryEntryHasVector
