\* Two writes: one to lay out code, one to change it.
CONSTANTS
  Pages = 2
  LinesPerPage = 2
  SplitEntries = 1
  MaxWrites = 2
SPECIFICATION Spec
INVARIANTS TypeOK StampsCoverTraces StackPageHoldsNoCode HostWritesAreSeen
