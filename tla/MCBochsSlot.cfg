\* Three threads, so that a notified waiter, a sleeper and a newcomer meet.
CONSTANTS
  Threads = {t1, t2, t3}
  Pages = {p1, p2}
  NoThread = NoThread
  Lost = Lost
  Boots = {TRUE, FALSE}
  MaxSpurious = 1
SPECIFICATION FairSpec
INVARIANTS TypeOK OneOracle SlotCoversCore NoLostWakeup
PROPERTIES HopelessWaitPanics ImplementsSingleOracle
