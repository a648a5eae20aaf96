SPECIFICATION Spec
CONSTANTS
  Tables <- MCTables
  Paths <- MCPaths
INVARIANTS
  TypeOK
  ResolvesLikeTree
  VisitsEverythingBelow
PROPERTIES
  WalksEnd
  ParentEncloses
CHECK_DEADLOCK FALSE
