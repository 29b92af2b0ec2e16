SPECIFICATION FairSpec
CONSTANTS
  Threads = {t1, t2, t3, t4}
  Nobody = nobody
  Capacity = 3
  MaxFaults = 2
INVARIANTS
  TypeOK
  AlertedOnce
PROPERTIES
  LockIsReleased
