SPECIFICATION FairSpec
CONSTANTS
  Threads = {t1, t2, t3}
  Nobody = nobody
  Capacity = 2
  MaxFaults = 0
PROPERTY
  AlertPromise
