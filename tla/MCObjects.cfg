CONSTANTS
  Events = {e}
  Users = {u, v, w}
  Cpus = {c}
  Cbs = {k}
  Values <- ClearSet
  Incs <- NoIncs
  MaxValue = 1
  None = None
  Threads = {"t", "u"}
  Objects = {"o", "p"}
  ObjType <- MCObjType
  NoHandle = NoHandle
  InitialCount = 2
  MaxCount = 4
  MaxAssigns = 4
  Listers = {"t"}
  Copies = 1
  Structs = {"l", "m", "n"}
  LowiplCpus = {"cpu", "cpv"}
  NULL = NULL
  MaxCalls = 2
SPECIFICATION MCSpec
SYMMETRY Symmetry
CHECK_DEADLOCK FALSE
INVARIANTS
  AtMostOneStranded
  CallbackOwed
  RefcountExact
  HandlesKeepMeaning
  TableExact
  CalledOnce
PROPERTIES
  CallbackOnceAtSoftint
