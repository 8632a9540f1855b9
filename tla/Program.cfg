SPECIFICATION Spec
CONSTANTS
  Explored = {"loaders", "variants", "retain", "entries", "ipc", "log", "instances", "files"}
  MaxLoadActs = 5
  MaxVariants = 2
  MaxModels = 2
  Held = {o1, o2}
  Locks = {l1, l2}
  Wrap = 16
  MaxLockActs = 5
  Nothing = nothing
  EntryObjs = {1, 2, 3, 4, 5, 6, 7, 8}
  MaxFileChanges = 2
  HandlerGens <- ThreeHandlers
  CallGens = {1, 2}
  Clients = {c1}
  Targets = {t}
  MaxIpcActs = 3
  Levels = {"Debug", "Fatal"}
  Ring = 2
  Tails = {0}
  MaxMessages = 3
  Pids = {1, 2}
  MaxInstances = 3
  MaxProcActs = 3
  RootTexts = {"plain", "uses", "quiet", "scan"}
  TypeTexts = {"one", "bad", "gated", "scan"}
  MaxEdits = 2
INVARIANTS ProgramHolds WishesAreServed LogReadsBack
PROPERTY NotWhileLocked
CHECK_DEADLOCK FALSE
