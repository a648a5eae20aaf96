SPECIFICATION Spec
CONSTANTS
  Tables <- MCTables
  Paths <- MCPaths
PROPERTIES
  RemovesFilename
CHECK_DEADLOCK FALSE
