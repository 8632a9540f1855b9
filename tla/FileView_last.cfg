SPECIFICATION Spec
CONSTANTS
  Paths = {p1}
  Data = {a, b}
  Ops = {o1, o2}
  Empty = Empty
  NoPath = NoPath
  NoFile = NoFile
  NoOp = NoOp
  Options <- DefaultOptions
  Calls = {"setPath", "setData"}
  Writes = {a, b}
  Handlers = FALSE
  External = FALSE
  Faults = FALSE
  ReloadOnChange = FALSE
  MaxDepth = 0
INVARIANTS LastSetWins
