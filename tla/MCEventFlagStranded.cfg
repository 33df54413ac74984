CONSTANTS
  Events = {e1}
  Users = {u1, u2}
  Cpus = {c1}
  Cbs = {b1}
  Values <- ClearSet
  Incs <- NoIncs
  MaxValue = 1
  None = None
SPECIFICATION Spec
CHECK_DEADLOCK FALSE
INVARIANT
  NobodyStranded
