\* Two threads over two oracles and two blocks to fight about, and slices of two bytes.
CONSTANTS
  Threads = {t1, t2}
  Oracles = {o1, o2}
  Regions = {r1}
  Addresses = {a1, a2}
  RegionOf <- OneRegion
  Blocks = {b1, b2}
  Messages = {ud}
  Syscall = Syscall
  None = None
SPECIFICATION FairSpec
INVARIANTS TypeOK BlocksHaveOneOwner LibraryIsUp FaultIsOwn
PROPERTIES LockReturned ImplementsIndependentOracles
