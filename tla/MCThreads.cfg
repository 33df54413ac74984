CONSTANTS
  a = a
  b = b
  d = d
  Threads = {a, b, d}
  Cpus = {c1, c2}
  None = None
  Base <- Prios
  MaxAsts = 1
  Sleepers = {a}
  Targets = {a}
  Inhibitors = {}
  Reniced = {}
  NewPrios = {}
  Mortals = {}
SPECIFICATION MCSpec
SYMMETRY Symmetry
CHECK_DEADLOCK FALSE
INVARIANTS
  OnePlace
  QueueInOrder
  NobodySleepsOn
  AstsInterrupt
  NeverCrashes
