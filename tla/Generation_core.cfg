SPECIFICATION Spec
CONSTANTS
  MaxGens = 3
  MaxDepth = 2
  MaxActs = 1
  Objs = {x}
  Codes = {1}
  Hards = {TRUE, FALSE}
  Reenter = {"create", "completed", "failed", "deleted"}
  None = None
INVARIANTS TypeOK CurIsAllocated OneConfiguration SoftHooksRunAlone
CHECK_DEADLOCK FALSE
