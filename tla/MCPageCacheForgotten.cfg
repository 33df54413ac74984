CONSTANTS
  Pages = {p1, p2}
  Keys = {k1, k2}
  Users = {u1, u2}
  Sects = {s1}
  Asked <- AllModes
  Asts = FALSE
  None = None
SPECIFICATION Spec
SYMMETRY Symmetry
CHECK_DEADLOCK FALSE
INVARIANT
  NobodyForgotten
