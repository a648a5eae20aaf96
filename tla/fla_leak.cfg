SPECIFICATION Spec
CONSTANTS
  Base = 32
  HeapSize = 64
  Requests <- EightRequests
  U8 = 256
  U16 = 65536
  USize = 1048576
PROPERTY
  FreedIsInserted
CHECK_DEADLOCK FALSE
