CONSTANTS
  Keys = {1}
  Users = {u1}
  Ops = {"writew"}
  Ranges <- FirstHalf
  PageSize = 4
  BlockSize = 2
  Errors = FALSE
  Terminates = FALSE
  MaxRefs = 3
  None = None
SPECIFICATION Spec
CHECK_DEADLOCK FALSE
INVARIANT
  RefsGivenBack
