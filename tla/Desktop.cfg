SPECIFICATION Spec
CONSTANTS
  Explored = {"hyprland", "toplevels", "i3", "windows", "surfaces", "screencopy", "workspaces"}
  Monitors = {m1, m2}
  WsIds = {1, 2}
  HyprNames = {a, b}
  Windows = {x}
  Objs = {o1, o2, o3, o4}
  Nil = nil
  MaxEvents = 2
  MaxChanges = 3
  Tops = {t1, t2, t3}
  MaxTopActs = 6
  Outputs = {p1, p2}
  SwayNames = {n1, n2, n3}
  WsObjs = {1, 2, 3, 4, 5, 6, 7, 8}
  MaxSwayActs = 3
  Mains = {w1, w2}
  Popup = pop
  Screens = {s1, s2}
  WinIds = {1, 2, 3, 4, 5, 6}
  MaxWinActs = 2
  MaxSurfaces = 3
  MaxSurfActs = 4
  MaxCapActs = 2
  Groups = {g1, g2}
  Spaces = {e1, e2}
  Displays = {d1, d2}
  MaxSpaceActs = 5
INVARIANTS ObjectsHold CompositorIsMirrored WindowsShow
CHECK_DEADLOCK FALSE
