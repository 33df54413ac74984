CONSTANTS
  Chans = {c1, c2, c3}
  Asked <- OrderModes
  Expresses <- Both
  Aborts = FALSE
  OneAtATime = TRUE
  MaxWaiting = 3
  None = None
SPECIFICATION Spec
CHECK_DEADLOCK FALSE
INVARIANT
  LoopMoves
