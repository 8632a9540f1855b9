SPECIFICATION Spec
CONSTANTS
  Explored = {"lock"}
  Items <- ListItems
  MaxItems = 4
  Bytes = {"x", "m", "n"}
  Markers <- ShortMarkers
  MaxStream = 5
  MaxPart = 3
  Commands = {c1, c2}
  NoCommand = NoCommand
  CanFail = TRUE
  MaxOutput = 2
  SocketPaths = {p1, p2}
  NoSocketPath = NoSocketPath
  CanRefuse = TRUE
  LastServer = 2
  MaxServerActs = 7
  Locks = {l1, l2}
  Screens = {s1, s2}
  MaxUnlocks = 2
  Apps = {a1, a2}
  AppWithTwo = a1
  MaxInbox = 2
  Properties = {q1, q2}
  Values = {1, 2}
  Unset = Unset
  MaxMessages = 2
  Numbers = {"1", "2"}
  MaxJsonActs = 4
INVARIANTS NeverAborts
CHECK_DEADLOCK FALSE
