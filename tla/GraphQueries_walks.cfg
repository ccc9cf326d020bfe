SPECIFICATION Spec
CONSTANTS
  F1 = F1
  F2 = F2
  F3 = F3
  F4 = F4
  Functions <- MCFunctions
  CallGraphs <- MCCallGraphs
  CallDepths = {1, 2, 3}
  Files <- MCFiles
  Inputs <- MCInputs
  ImportGraphs <- MCImportGraphs
  AffectedDepths = {1, 2}
  FileOrder <- MCFileOrder
  BARREL_FANIN = 1
  MaxEdges = 4
  MaxInputs = 2
  MaxImports = 3
  MaxNodes = 6
  MaxUnits = 6
  window = 3
  overlap = 1
INVARIANTS
  TreeHangsTogether
  TreeComplete
  AffectedExact
  AttributedOnce
  ChunksLocateText
CHECK_DEADLOCK FALSE
