SPECIFICATION Spec
CONSTANTS
  Base = 32
  HeapSize = 96
  Requests <- MCRequests
  U8 = 256
  U16 = 40
  USize = 1048576
INVARIANTS
  TypeOK
  SortedAndCoalesced
  UsedIsLive
  NoOverlap
PROPERTIES
  LossOnlyAboveLastNode
  ImplementsHeap
CHECK_DEADLOCK FALSE
