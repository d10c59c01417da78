CONSTANTS
  Names = {1, 2, 3, 4}
  Graphs <- MCGraphs
  Depths = {0, 2, 9}
  MaxDepth = 3
SPECIFICATION Spec
CHECK_DEADLOCK FALSE
INVARIANTS
  RowsAreSimplePaths
  FindsEverySimplePath
