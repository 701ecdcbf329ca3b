\* INT 13 on the stub path.
CONSTANTS
  Backends <- OnlyKvm
  HostBitmaps <- NoBitmap
  Instrs <- PlainAndInt
  MaxRip = 2
  Rsps <- StackPointers
  RunLimit = 3
  MaxRun = 3
SPECIFICATION Spec
INVARIANTS RspBack
