\* A store to a page the guest has not written yet.
CONSTANTS
  Pages = 2
  LinesPerPage = 2
  SplitEntries = 1
  MaxWrites = 2
SPECIFICATION Spec
INVARIANTS GuestStoresAreSeen
