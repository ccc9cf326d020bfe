SPECIFICATION Spec
CONSTANTS
  F1 = F1
  F2 = F2
  F3 = F3
  F4 = F4
  Functions <- MCFunctions
  CallGraphs <- MCCallGraphs
  CallDepths = {1, 2, 3}
  Files <- MCFiles
  Inputs <- MCInputs
  ImportGraphs <- MCImportGraphs
  AffectedDepths = {1, 2}
  FileOrder <- MCFileOrder
  BARREL_FANIN = 1
  MaxEdges = 0
  MaxInputs = 2
  MaxImports = 2
  MaxNodes = 1
  MaxUnits = 0
  window = 3
  overlap = 1
INVARIANTS
  DependentsFound
CHECK_DEADLOCK FALSE
