SPECIFICATION MCSpec
CONSTANTS
  Keys = {1, 2}
  Users = {u1, u2}
  Ops = {"readw", "writew", "writethru", "prefetch", "map", "mapthru", "mapwrite", "pfmap", "pfupd", "pfthru"}
  Ranges <- Overlapping
  PageSize = 4
  BlockSize = 2
  Errors = TRUE
  Terminates = TRUE
  MaxRefs = 3
  None = None
  Ends = {"A", "B"}
  Client = "A"
  Sends <- TwoOne
  ReadSize <- Each
  NoCopy = {}
  Closers = {"A"}
  Aborters = {}
  Cancellers = {}
  Early = {}
  WindowSize = 3
  MinWin = 2
  Mss = 2
  Cap = 6
  Zero <- Past
  MaxNet = 2
  Dups = FALSE
  Patience = TRUE
  MaxTicks = 1
SYMMETRY Symmetry
INVARIANTS
  NothingLost
  PagesHeld
  StreamIntact
  EndMeansAll
  NeverCrashes
