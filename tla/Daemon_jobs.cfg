SPECIFICATION LiveSpec
CONSTANTS
  c1 = c1  c2 = c2  n1 = n1  n2 = n2  t1 = t1  d1 = d1
  NoEntry = NoEntry  NoKey = NoKey  NoClient = NoClient
  Notes <- OneNote
  Terms <- OneTerm
  Docs <- OneDoc
  Clients <- OneHandler
  MaxContent = 1
  Writable = TRUE
  MaxVersion = 2
  MaxTime = 1
  MaxFaults = 1
  MaxQueue = 1
INVARIANTS TypeOK SavedIsPublished DocStatusSound
PROPERTIES NoLostUpdate IndexRepairsNotes ImplementsKnowledgeStore EveryRequestAnswered
