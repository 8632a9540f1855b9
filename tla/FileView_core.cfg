SPECIFICATION Spec
CONSTANTS
  Paths = {p1, p2}
  Data = {a}
  Ops = {o1, o2}
  Empty = Empty
  NoPath = NoPath
  NoFile = NoFile
  NoOp = NoOp
  Options <- EagerOptions
  Calls = {"setPath", "read", "setData", "reload", "waitForJob", "setOption"}
  Writes = {Empty, a}
  Handlers = FALSE
  External = FALSE
  Faults = FALSE
  ReloadOnChange = FALSE
  MaxDepth = 0
SYMMETRY OpSymmetry
INVARIANTS ConnectedIsLive WriterAlone PreparedIsCurrent ViewMatchesDisk
PROPERTIES OutcomeAnnounced
