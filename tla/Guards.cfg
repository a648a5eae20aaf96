SPECIFICATION Spec
CONSTANTS
  Critical = Critical
  Contexts = {context}
  Statics = {static}
  MaxDepth = 3
  MaxSections = 5
INVARIANTS
  SectionsUninterrupted
  MaskRestored
PROPERTIES
  InterruptsServed
CHECK_DEADLOCK FALSE
