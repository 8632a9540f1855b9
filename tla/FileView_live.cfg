SPECIFICATION FairSpec
CONSTANTS
  Paths = {p1}
  Data = {a}
  Ops = {o1, o2}
  Empty = Empty
  NoPath = NoPath
  NoFile = NoFile
  NoOp = NoOp
  Options <- WatchOptions
  Calls = {"setPath", "read", "setData"}
  Writes = {a}
  Handlers = FALSE
  External = TRUE
  Faults = TRUE
  ReloadOnChange = TRUE
  MaxDepth = 0
INVARIANTS TypeOK
PROPERTIES AtomicOrNothing OperationsEnd
