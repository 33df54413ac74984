CONSTANTS
  Timers = {t1, t2, i1}
  IoTimers = {i1}
  Callers = {c1, c2}
  Delays <- NowOrAhead
  MaxTime = 2
  None = None
  Users = {"u", "v", "w"}
  Expirers = {"c", "d"}
  Intervals = {1}
  MaxSets = 1
SPECIFICATION MCSpec
CHECK_DEADLOCK FALSE
INVARIANTS
  LowiplOnce
  AlarmSet
  IoCompletedOnce
  TimerOwned
PROPERTIES
  ImplementsTimerRequests
  DueServed
  FreedInTheEnd
  CalledInTheEnd
