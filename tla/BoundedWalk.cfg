CONSTANTS
  Names = {1, 2, 3, 4}
  Graphs <- MCGraphs
  RootLists <- MCRootLists
  Depths = {0, 2, 9}
  Limits = {0, 2, 3, 9}
  MaxDepth = 3
  MaxNodes = 4
SPECIFICATION Spec
CHECK_DEADLOCK FALSE
INVARIANTS
  TypeOK
  PathsAreCallPaths
  EdgesHaveEnds
  WithinLimits
  HonestTruncation
