SPECIFICATION Spec
CONSTANTS
  src = src  doc = doc  here = here  there = there  Web = Web
  Files <- TwoFiles
  Code <- OneCode
  Markdown <- OneDoc
  Roots <- TwoRoots
  RootOf <- Under
  Links <- Targets
  Chunks <- TwoChunks
  MaxVersion = 3
  MaxFaults = 1
INVARIANTS EntriesAndGraphAgree QuietRunConverges ForcedRunIsExact
