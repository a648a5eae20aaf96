SPECIFICATION ConverterSpec
CONSTANTS
  Half = 16
  Reach = 64
  Branch = 128
  CodeBase = 144
  HeaderSize = 40
  FileAlign = 8
  U8 = 9
  Table <- MCTable
  Inputs <- MCInputs
INVARIANTS
  ConverterTypeOK
  SectionsLaidOut
  LoadedAsCompiled
  RefusedOnlyUnknown
  FileIsReadable
  ConstructorsRun
CHECK_DEADLOCK FALSE
