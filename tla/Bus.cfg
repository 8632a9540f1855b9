SPECIFICATION Spec
CONSTANTS
  Explored = {"registry", "links", "volumes", "player", "bluetooth", "upower", "profiles", "menu", "devices", "wireless", "security"}
  NodeIds = {1, 2}
  NodeNames = {a}
  NoName = noname
  MaxWire = 2
  MaxTurns = 3
  MaxStarts = 2
  Sources = {s1}
  Sinks = {k1, m1}
  Monitors = {m1}
  LinkIds = {1, 2}
  Nothing = nothing
  MaxLinks = 4
  OnDevice = {1, 2}
  Alone = {}
  Volumes = {0, 1, 3}
  Step = 2
  MaxSets = 2
  MaxBinds = 2
  Rates = {1, 2}
  Tracks = {1, 2}
  Positions = {3}
  MaxPlayers = 2
  MaxTime = 3
  MaxPlayerActs = 1
  Adapters = {a1, a2}
  Devices = {d1, d2}
  MaxSignals = 3
  MaxBluezActs = 2
  PowerDevices = {d1, d2}
  DeviceObjs = {o1, o2, o3, o4, o5}
  MaxPowerActs = 3
  ExtraProfiles = {"custom"}
  MaxProfileActs = 2
  Ids = {1, 2, 3, 4}
  ItemObjs = {1, 2, 3, 4, 5, 6, 7, 8}
  Openers = {p1, p2}
  MaxMenuActs = 3
  NetPaths = {d1, d2}
  NetObjs = {o1, o2, o3, o4, o5, o6}
  MaxNetActs = 2
  Points = {a1}
  Profiles = {c1, c2}
  MaxWifiActs = 2
INVARIANTS PointersHold AudioIsMirrored ProgramsAreMirrored
PROPERTY SecurityOnlyGrows
CHECK_DEADLOCK FALSE
