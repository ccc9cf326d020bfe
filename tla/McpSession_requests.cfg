SPECIFICATION SmallSpec
CONSTANTS
  mcp1 = mcp1  mcp2 = mcp2  old = old  new = new
  web = web  api = api  main = main  NoCommand = NoCommand
  Commands <- TwoCommands
  Builds <- TwoBuilds
  Callers <- SomeCallers
  EntryTypes <- DocsAndNotes
  Indexes <- TwoIndexes
  Paths <- OnePath
  Requests <- SomeRequests
  MaxHits = 2
  MaxFaults = 1
INVARIANTS TypeOK ToldTheTruth HandledOnceByRightDaemon CursorReachesItsHit
PROPERTIES AckedNoteIsStored RequestsAnswered
CHECK_DEADLOCK FALSE
