SPECIFICATION Spec
CONSTANTS
  Byte = 16
  Stack = 16384
  Cells <- MCCells
  Lists <- ArrayLists
  MemoryBegin = 36864
  MemorySize = 180
  CopyInline = 8
  BranchReach = 40
  BranchSpan = 16384
  Memories <- MCMemories
INVARIANTS
  ArraysWritten
CHECK_DEADLOCK FALSE
