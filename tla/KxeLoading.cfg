SPECIFICATION Spec
CONSTANTS
  Half = 16
  Reach = 64
  Branch = 128
  CodeBase = 136
  Pads = 152
  CoreVersion = 0
  Table <- MCTable
  Discs <- LoadDiscs
  Blocks = {b1, b2, b3, b4}
  Null = null
  SystemRoom = 40
SYMMETRY Symmetry
INVARIANTS
  TypeOK
  HeapBalanced
  LoadedIsLinked
  TrampolineReturns
CHECK_DEADLOCK FALSE
