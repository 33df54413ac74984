CONSTANTS
  Pages = {p1, p2}
  Keys = {k1, k2}
  Users = {u1, u2, u3}
  Sects = {s1}
  Asked <- AllModes
  Asts = TRUE
  None = None
SPECIFICATION MCSpec
SYMMETRY Symmetry
INVARIANTS
  PagesStay
  PagesCounted
  LockWakeOwed
PROPERTY
  ImplementsKeyLocks
