SPECIFICATION Spec
CONSTANTS
  Byte = 16
  Stack = 16384
  Cells <- MCCells
  Lists <- MCLists
  MemoryBegin = 36864
  MemorySize = 180
  CopyInline = 8
  BranchReach = 40
  BranchSpan = 16384
  Memories <- MCMemories
INVARIANTS
  TypeOK
  CompiledMeansList
  PlaceholdersAreOpen
  HooksReturn
  BlocksApart
CHECK_DEADLOCK FALSE
