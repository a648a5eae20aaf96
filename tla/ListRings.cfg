SPECIFICATION Spec
CONSTANTS
  Places = {p1, p2, p3, p4, p5, p6}
  Null = Null
SYMMETRY Symmetry
INVARIANTS
  NextPermutes
  NeighboursAreReachable
  LinkedBothWays
CHECK_DEADLOCK FALSE
