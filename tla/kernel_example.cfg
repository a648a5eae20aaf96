SPECIFICATION FairSpec
CONSTANTS
  A = A
  B = B
  C = C
  x = x
  y = y
  z = z
  hook = hook
  f = f
  g = g
  kx = kx
  Kernel = Kernel
  Game = Game
  Unsaved = Unsaved
  HandlerBranch = HandlerBranch
  Modules <- ModuleSet
  Symbols = {f, g, kx}
  Addresses = {x, y, z, hook}
  HandlerAddress = hook
  KernelSymbols = {kx}
  Capacity = 5
  Disc <- DiscA
  Imports <- NoImports
  Statics <- ExampleStatics
  Block <- ExampleBlock
  Refusing = {}
  GameCalls = {"reload"}
INVARIANT
  RevertedOnUnload
CHECK_DEADLOCK FALSE
