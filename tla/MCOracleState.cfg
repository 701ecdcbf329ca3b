\* Every accessor of the four backends, in call sequences of three and four.
CONSTANTS
  Machines <- MCMachines
  Cells <- MCCells
  VecRegs <- MCVecRegs
  AddrSpace = 32
  Ranges <- MCRanges
  CellWrites <- MCCellWrites
  ZmmData <- MCZmmData
  MemWrites <- MCMemWrites
  Ops <- MCOps
  ShadowRanges <- MCShadowRanges
  Frame = 4
  IdLimit = 12
  PtBase = 9
  PtBytes = 2
  Phys = 16
  Ram = 8
  Page = 2
  Block = 4
SPECIFICATION Spec
INVARIANTS MappedTracksWrites ShadowStacksHold
PROPERTIES ImplementsAccessContract
