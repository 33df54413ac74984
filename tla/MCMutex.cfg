CONSTANTS
  Chans = {c1, c2, c3}
  Asked <- CrossModes
  Expresses <- Both
  Aborts = FALSE
  OneAtATime = TRUE
  MaxWaiting = 3
  None = None
SPECIFICATION MCSpec
CHECK_DEADLOCK FALSE
INVARIANTS
  CountsExact
  NeverCrashes
PROPERTIES
  ImplementsLockTable
  LoopServes
  FlagServed
  NobodyStarves
