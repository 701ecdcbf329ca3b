CONSTANTS
  Instrs <- AllInstrs
  MaxRip = 2
  Rsps <- StackPointers
  GuardLimit = 3
SPECIFICATION Spec
INVARIANTS ErrorCodeIsOwn
