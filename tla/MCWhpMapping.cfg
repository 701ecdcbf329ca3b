\* Three oracles over three handle values, so that one can drop while another
\* steps and a third is created with a reused handle.
CONSTANTS
  Oracles = {o1, o2, o3}
  Handles = {h1, h2, h3}
  Pages = {p1}
  None = None
SPECIFICATION FairSpec
INVARIANTS TypeOK RunsOnOwnRam MappingBacksLiveRam OwnerIsAccurate
PROPERTIES WhpLockReturned ImplementsIndependentOracles
