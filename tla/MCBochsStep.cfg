CONSTANTS
  Instrs <- AllInstrs
  MaxRip = 2
  Rsps <- StackPointers
  GuardLimit = 3
SPECIFICATION FairSpec
INVARIANTS TypeOK OneInstruction OutcomeIsExact FaultRestoresState FaultIsDescribed
PROPERTIES ImplementsStepContract StepReturns
