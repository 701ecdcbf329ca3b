\* Every instruction class on KVM and on three WHP hosts.
CONSTANTS
  Backends <- BothBackends
  HostBitmaps <- Bitmaps
  Instrs <- AllInstrs
  MaxRip = 2
  Rsps <- StackPointers
  RunLimit = 3
  MaxRun = 3
SPECIFICATION FairSpec
INVARIANTS TypeOK FaultRestoresState OutcomeIsExact NoRunaway
PROPERTIES ImplementsStepContract StepReturns
