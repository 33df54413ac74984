CONSTANTS
  Threads = {t1, t2, t3}
  MaxReadc = 2
  MaxWaitc = 3
SPECIFICATION MCSpec
INVARIANTS
  WordIsExact
  WakeOwed
PROPERTIES
  ImplementsRWLock
  WakeDelivered
  DiskServes
