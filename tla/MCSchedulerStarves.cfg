CONSTANTS
  a = a
  b = b
  d = d
  Threads = {a, b}
  Cpus = {c1}
  None = None
  Base <- Ones
  MaxAsts = 0
  Sleepers = {a}
  Targets = {}
  Inhibitors = {}
  Reniced = {}
  NewPrios = {}
  Mortals = {}
SPECIFICATION FairSpec
CHECK_DEADLOCK FALSE
PROPERTY
  NobodyStarves
