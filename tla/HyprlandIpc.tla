------------------------------ MODULE HyprlandIpc ------------------------------
(* The client of the Hyprland compositor: src/src/wayland/hyprland/ipc.  What *)
(* the compositor tells arrives on two channels that know nothing of each     *)
(* other: a stream of events, in order, and answers to requests, each on a    *)
(* socket of its own.  An object that is named before it was announced is     *)
(* created early.                                                             *)
EXTENDS Integers, Sequences, FiniteSets, FiniteSetsExt

CONSTANTS
  Monitors,    \* names of monitors
  WsIds,       \* ids of workspaces, positive numbers
  WsNames,     \* names of workspaces
  Windows,     \* addresses of windows
  Objs,        \* HyprlandWorkspace objects
  None,        \* a null pointer, an empty name
  MaxEvents,   \* bound: events under way
  MaxChanges   \* bound: changes the compositor makes

VARIABLES
  server,      \* what the compositor has
  events,      \* the event socket: what was not read yet
  questions,   \* requests under way, by kind
  shell,       \* what HyprlandIpc and its objects have
  changes,     \* changes the compositor made
  crossed      \* history: an answer and an event passed each other

hyprVars == <<server, events, questions, shell, changes, crossed>>

NoId == 0
Kinds == {"monitors", "workspaces", "toplevels"}

-----------------------------------------------------------------------------
(* What the shell has.  `focus', `act' and the fields `mon', `ws' and        *)
(* `active' are pointers, which destroyed() of their target resets.          *)

NoMonitor   == [alive |-> FALSE, listed |-> FALSE, active |-> None]
NoWorkspace == [alive |-> FALSE, id |-> NoId, name |-> None, mon |-> None,
                tops |-> {}, urgent |-> FALSE]
NoToplevel  == [alive |-> FALSE, ws |-> None, urgent |-> FALSE]

FocusedWorkspace(s) == IF s.focus = None THEN None ELSE s.mon[s.focus].active

\* Is one of the windows of a workspace marked urgent?
HasUrgent(s, w) == \E x \in s.ws[w].tops : s.top[x].urgent

\* updateUrgent() of workspaces: the focused one takes the mark from its windows,
\* which in turn updates each workspace that lists them.
\* Mutant: the focused workspace is marked as others are.
MarkUrgent(s, W) == [s EXCEPT !.ws = [w \in Objs |-> IF w \in W THEN [@[w] EXCEPT !.urgent = HasUrgent(s, w)] ELSE @[w]]]
UpdateUrgent(s, W) ==
  LET cleared == UNION {s.ws[w].tops : w \in W \cap {FocusedWorkspace(s)}}
      t == [s EXCEPT !.top = [x \in Windows |-> [@[x] EXCEPT !.urgent = @ /\ x \notin cleared]]]
  IN [t EXCEPT !.ws = [w \in Objs |-> IF w \in W \/ @[w].tops \cap cleared # {}
                                      THEN [@[w] EXCEPT !.urgent = HasUrgent(t, w)] ELSE @[w]]]

\* Setting the mark of a window.
SetUrgent(s, x, mark) ==
  UpdateUrgent([s EXCEPT !.top[x].urgent = mark], {w \in Objs : x \in s.ws[w].tops})

\* focusedChanged(): the binding of a workspace that comes into focus.
Refocused(old, s) ==
  IF FocusedWorkspace(s) \in {None, FocusedWorkspace(old)} THEN s
  ELSE UpdateUrgent(s, {FocusedWorkspace(s)})

SetActiveToplevel(s, x) ==
  LET t == [s EXCEPT !.act = x]
  IN IF x = s.act THEN s
     ELSE FoldSet(LAMBDA y, u : IF u.top[y].urgent THEN SetUrgent(u, y, FALSE) ELSE u, t, {x, s.act} \ {None})

SetActiveWorkspace(s, m, w) ==
  IF w = s.mon[m].active THEN s
  ELSE LET t == IF w = None THEN s ELSE [s EXCEPT !.ws[w].mon = m]
       IN [t EXCEPT !.mon[m].active = w]

InsertToplevel(s, w, x) ==
  IF x \in s.ws[w].tops THEN s ELSE UpdateUrgent([s EXCEPT !.ws[w].tops = @ \cup {x}], {w})
RemoveToplevel(s, w, x) == UpdateUrgent([s EXCEPT !.ws[w].tops = @ \ {x}], {w})

\* Deleting an object: everyone who points to it hears of it.
DeleteWorkspace(s, w) ==
  [s EXCEPT !.ws[w] = NoWorkspace,
            !.mon = [m \in Monitors |-> IF @[m].active = w THEN [@[m] EXCEPT !.active = None] ELSE @[m]],
            !.top = [x \in Windows |-> IF @[x].ws = w THEN [@[x] EXCEPT !.ws = None] ELSE @[x]]]
DeleteToplevel(s, x) ==
  FoldSet(LAMBDA w, t : RemoveToplevel(t, w, x), [s EXCEPT !.top[x] = NoToplevel],
          {w \in Objs : x \in s.ws[w].tops})

\* The list is sorted by descending ids: an early one without an id comes last.
First(s, W) == CHOOSE w \in W : \A v \in W : s.ws[w].id >= s.ws[v].id
ById(s, id)     == {w \in Objs : s.ws[w].alive /\ s.ws[w].id = id}
ByName(s, name) == {w \in Objs : s.ws[w].alive /\ s.ws[w].name = name}

\* findWorkspaceByName(name, false, id).
FindWorkspace(s, name, id) ==
  IF id # NoId /\ ById(s, id) # {} THEN First(s, ById(s, id))
  ELSE IF ByName(s, name) # {} THEN First(s, ByName(s, name)) ELSE None

Unused(s) == CHOOSE w \in Objs : ~s.ws[w].alive
NewWorkspace(s, name, id) ==
  [s EXCEPT !.ws[Unused(s)] = [NoWorkspace EXCEPT !.alive = TRUE, !.id = id, !.name = name]]

\* findWorkspaceByName(name, true, id): then FindWorkspace finds one.
EnsureWorkspace(s, name, id) == IF FindWorkspace(s, name, id) # None THEN s ELSE NewWorkspace(s, name, id)

\* findMonitorByName(name, true), findToplevelByAddress(address, true).
EnsureMonitor(s, m) ==
  IF s.mon[m].listed THEN s ELSE [s EXCEPT !.mon[m] = [NoMonitor EXCEPT !.alive = TRUE, !.listed = TRUE]]
EnsureToplevel(s, x) == IF s.top[x].alive THEN s ELSE [s EXCEPT !.top[x] = [NoToplevel EXCEPT !.alive = TRUE]]

-----------------------------------------------------------------------------
(* The compositor (external).  It answers a request with what it has at that *)
(* moment, and tells of each change when it makes it.                        *)

Event(kind) == [kind |-> kind, ws |-> NoId, name |-> None, mon |-> None, win |-> None]
Exists(w) == server.name[w] # None
Active(w) == \E m \in server.mons : server.active[m] = w

\* Bound: no more changes once an answer and an event have passed each other.
Change(s, e) ==
  /\ changes < MaxChanges /\ Len(events) < MaxEvents /\ ~crossed
  /\ server' = s /\ events' = Append(events, e) /\ changes' = changes + 1
  /\ UNCHANGED <<questions, shell, crossed>>

OfWs(kind, w) == [Event(kind) EXCEPT !.ws = w, !.name = server.name[w]]

MonitorAdded(m, w) ==
  /\ m \notin server.mons /\ Exists(w) /\ ~Active(w)
  /\ Change([server EXCEPT !.mons = @ \cup {m}, !.active[m] = w, !.mon[w] = m],
            [Event("monitoradded") EXCEPT !.mon = m])
MonitorRemoved(m) ==
  /\ m \in server.mons /\ m # server.focus
  /\ Change([server EXCEPT !.mons = @ \ {m}, !.active[m] = NoId,
                           !.mon = [w \in WsIds |-> IF @[w] = m THEN server.focus ELSE @[w]]],
            [Event("monitorremoved") EXCEPT !.mon = m])
WorkspaceCreated(w, name) ==
  /\ ~Exists(w) /\ \A v \in WsIds : server.name[v] # name
  /\ Change([server EXCEPT !.name[w] = name, !.mon[w] = server.focus],
            [Event("createworkspace") EXCEPT !.ws = w, !.name = name])
WorkspaceDestroyed(w) ==
  /\ Exists(w) /\ ~Active(w) /\ \A x \in Windows : server.win[x] # w
  /\ Change([server EXCEPT !.name[w] = None, !.mon[w] = None], OfWs("destroyworkspace", w))
WorkspaceRenamed(w, name) ==
  /\ Exists(w) /\ \A v \in WsIds : server.name[v] # name
  /\ Change([server EXCEPT !.name[w] = name], [Event("renameworkspace") EXCEPT !.ws = w, !.name = name])
WorkspaceShown(w) ==
  /\ Exists(w) /\ server.mon[w] = server.focus /\ ~Active(w)
  /\ Change([server EXCEPT !.active[server.focus] = w], OfWs("workspace", w))
WorkspaceMoved(w, m) ==
  /\ Exists(w) /\ ~Active(w) /\ m \in server.mons \ {server.mon[w]}
  /\ Change([server EXCEPT !.mon[w] = m], [OfWs("moveworkspace", w) EXCEPT !.mon = m])
MonitorFocused(m) ==
  /\ m \in server.mons \ {server.focus}
  /\ Change([server EXCEPT !.focus = m], [OfWs("focusedmon", server.active[m]) EXCEPT !.mon = m])
WindowOpened(x, w) ==
  /\ server.win[x] = NoId /\ Exists(w)
  /\ Change([server EXCEPT !.win[x] = w], [OfWs("openwindow", w) EXCEPT !.win = x])
WindowMoved(x, w) ==
  /\ server.win[x] \notin {NoId, w} /\ Exists(w)
  /\ Change([server EXCEPT !.win[x] = w], [OfWs("movewindow", w) EXCEPT !.win = x])
WindowClosed(x) ==
  /\ server.win[x] # NoId
  /\ Change([server EXCEPT !.win[x] = NoId], [Event("closewindow") EXCEPT !.win = x])
WindowTold(x, kind) ==
  /\ server.win[x] # NoId /\ kind \in {"activewindow", "urgent", "windowtitle"}
  /\ Change(server, [Event(kind) EXCEPT !.win = x])
ConfigReloaded == Change(server, Event("configreloaded"))
Fullscreen == Change(server, Event("fullscreen"))

\* What an answer of a kind says, or nothing.
Said(kind, srv) == [srv EXCEPT !.mons = IF kind = "monitors" THEN @ ELSE {},
                               !.mon  = IF kind = "workspaces" THEN @ ELSE [w \in WsIds |-> None],
                               !.win  = IF kind = "toplevels" THEN @ ELSE [x \in Windows |-> NoId]]
Nothing == [mons |-> {}, active |-> [m \in Monitors |-> NoId], name |-> [w \in WsIds |-> None],
            mon |-> [w \in WsIds |-> None], win |-> [x \in Windows |-> NoId], focus |-> None]

\* The compositor reads a request.
Answers(kind) ==
  /\ questions[kind].state = "asked"
  /\ questions' = [questions EXCEPT ![kind].state = "answered", ![kind].says = Said(kind, server),
                                    ![kind].behind = Len(events)]
  /\ UNCHANGED <<server, events, shell, changes, crossed>>

-----------------------------------------------------------------------------
(* Requests.  `behind' is how many events that came before the answer are    *)
(* still to be read, -1 if one that came after it was.                       *)

NoQuestion == [state |-> "none", canCreate |-> FALSE, says |-> Nothing, behind |-> 0]

\* refreshMonitors(), refreshWorkspaces() and refreshToplevels(): nothing comes of
\* them while one of the kind is under way.
Refreshed(q, K, canCreate) ==
  [k \in Kinds |-> IF k \in K /\ q[k].state = "none"
                   THEN [NoQuestion EXCEPT !.state = "asked", !.canCreate = canCreate] ELSE q[k]]

\* HyprlandWorkspace::updateFromObject() for the object of an entry, if it has one.
WorkspaceEntry(s, w, says, canCreate) ==
  LET early == {v \in ByName(s, says.name[w]) : s.ws[v].id = NoId}
      known == IF ById(s, w) # {} THEN ById(s, w) ELSE early
      t == IF known = {} THEN NewWorkspace(s, says.name[w], w) ELSE s
      o == IF known = {} THEN Unused(s) ELSE First(s, known)
  IN IF known = {} /\ ~canCreate THEN s
     ELSE [EnsureMonitor(t, says.mon[w]) EXCEPT !.ws[o].id = w, !.ws[o].mon = says.mon[w]]

WorkspacesAnswer(s, says, canCreate) ==
  LET ids == {w \in WsIds : says.name[w] # None}
      t == FoldSet(LAMBDA w, u : WorkspaceEntry(u, w, says, canCreate), s, ids)
      removed == {o \in Objs : t.ws[o].alive /\ t.ws[o].id \notin ids}
  IN IF canCreate THEN FoldSet(LAMBDA o, u : DeleteWorkspace(u, o), t, removed) ELSE t

\* HyprlandMonitor::updateFromObject().
MonitorEntry(s, m, says, canCreate) ==
  LET t == EnsureMonitor(s, m)
      w == says.active[m]
      same == t.mon[m].active # None /\ t.ws[t.mon[m].active].name = says.name[w]
      u == IF same THEN t ELSE EnsureWorkspace(t, says.name[w], w)
      o == FindWorkspace(u, says.name[w], w)
      v == IF same THEN u ELSE SetActiveWorkspace([u EXCEPT !.ws[o].mon = m], m, o)
  IN IF ~s.mon[m].listed /\ ~canCreate THEN s
     ELSE IF says.focus = m THEN [v EXCEPT !.focus = m] ELSE v

MonitorsAnswer(s, says, canCreate) ==
  LET t == FoldSet(LAMBDA m, u : MonitorEntry(u, m, says, canCreate), s, says.mons)
  IN [t EXCEPT !.mon = [m \in Monitors |-> IF m \in says.mons THEN @[m] ELSE [@[m] EXCEPT !.listed = FALSE]]]

\* HyprlandToplevel::updateFromObject(): the workspace is looked up by its name.
ToplevelEntry(s, x, says) ==
  LET name == says.name[says.win[x]]
      t == EnsureWorkspace(EnsureToplevel(s, x), name, NoId)
      w == FindWorkspace(t, name, NoId)
  IN InsertToplevel([t EXCEPT !.top[x].ws = w], w, x)

ToplevelsAnswer(s, says) ==
  FoldSet(LAMBDA x, u : ToplevelEntry(u, x, says), s, {x \in Windows : says.win[x] # NoId})

\* The callback of a request runs when the first part of its answer can be read, and
\* takes it for the whole: a part is no JSON, and reads as an empty list.
Answered(kind, whole) ==
  LET q == questions[kind]
      says == IF whole THEN q.says ELSE Nothing
  IN /\ q.state = "answered"
     /\ \A m \in Monitors : shell.mon[m].alive => shell.mon[m].listed
     /\ questions' = [questions EXCEPT ![kind] = NoQuestion]
     /\ shell' = Refocused(shell, CASE kind = "workspaces" -> WorkspacesAnswer(shell, says, q.canCreate)
                                    [] kind = "monitors"   -> MonitorsAnswer(shell, says, q.canCreate)
                                    [] kind = "toplevels"  -> ToplevelsAnswer(shell, says))
     /\ crossed' = (crossed \/ q.behind # 0 \/ ~whole)
     /\ UNCHANGED <<server, events, changes>>

\* The socket of a request fails.
Failed(kind) ==
  /\ questions[kind].state = "asked"
  /\ questions' = [questions EXCEPT ![kind] = NoQuestion]
  /\ crossed' = TRUE
  /\ UNCHANGED <<server, events, shell, changes>>

-----------------------------------------------------------------------------
(* onEvent(), by the name of the event.                                      *)

e == Head(events)

\* The next event is read, with what follows for the objects and the requests.
Reads(kind, s, K, canCreate) ==
  /\ events # <<>> /\ e.kind = kind
  /\ \A m \in {e.mon} \cap Monitors : shell.mon[m].alive => shell.mon[m].listed
  /\ shell' = Refocused(shell, s)
  /\ questions' = Refreshed([k \in Kinds |-> [questions[k] EXCEPT
                      !.behind = IF questions[k].state = "answered" /\ @ >= 0 THEN @ - 1 ELSE @]], K, canCreate)
  /\ events' = Tail(events)
  /\ crossed' = (crossed \/ \E k \in Kinds : questions[k].state # "none" /\ questions[k].canCreate)
  /\ UNCHANGED <<server, changes>>

OnConfigReloaded == Reads("configreloaded", shell, Kinds, TRUE)

OnMonitorAdded == Reads("monitoradded", EnsureMonitor(shell, e.mon), {"monitors"}, FALSE)

\* The object is deleted later; a monitor that is not tracked is none of ours.
OnMonitorRemoved == Reads("monitorremoved", [shell EXCEPT !.mon[e.mon].listed = FALSE], {}, FALSE)
\* The deferred deletion.
MonitorDestroyed(m) ==
  /\ shell.mon[m].alive /\ ~shell.mon[m].listed
  /\ shell' = [shell EXCEPT !.mon[m] = NoMonitor, !.focus = IF @ = m THEN None ELSE @,
                            !.ws = [w \in Objs |-> IF @[w].mon = m THEN [@[w] EXCEPT !.mon = None] ELSE @[w]]]
  /\ UNCHANGED <<server, events, questions, changes, crossed>>

OnCreateWorkspace ==
  LET t == EnsureWorkspace(shell, e.name, NoId)
  IN Reads("createworkspace", [t EXCEPT !.ws[FindWorkspace(t, e.name, NoId)].id = e.ws],
           IF t = shell THEN {} ELSE {"workspaces"}, FALSE)

OnDestroyWorkspace ==
  LET known == ById(shell, e.ws)
      t == DeleteWorkspace(shell, First(shell, known))
      bereft == known # {} /\ \E m \in Monitors : t.mon[m].listed /\ t.mon[m].active = None
  IN Reads("destroyworkspace", IF known = {} THEN shell ELSE t, IF bereft THEN {"monitors"} ELSE {}, FALSE)

OnFocusedMon ==
  LET t == EnsureMonitor(shell, e.mon)
  IN Reads("focusedmon", SetActiveWorkspace([t EXCEPT !.focus = e.mon], e.mon,
                                            FindWorkspace(shell, e.name, NoId)), {}, FALSE)

OnWorkspace ==
  LET t == EnsureWorkspace(shell, e.name, e.ws)
  IN Reads("workspace", IF shell.focus = None THEN shell
                        ELSE SetActiveWorkspace(t, t.focus, FindWorkspace(t, e.name, e.ws)), {}, FALSE)

OnMoveWorkspace ==
  LET t == EnsureMonitor(EnsureWorkspace(shell, e.name, e.ws), e.mon)
  IN Reads("moveworkspace", [t EXCEPT !.ws[FindWorkspace(t, e.name, e.ws)].mon = e.mon], {}, FALSE)

OnRenameWorkspace ==
  LET known == ById(shell, e.ws)
  IN Reads("renameworkspace", IF known = {} THEN shell
                              ELSE [shell EXCEPT !.ws[First(shell, known)].name = e.name], {}, FALSE)

OnFullscreen == Reads("fullscreen", shell, {"workspaces"}, FALSE)

OnOpenWindow ==
  LET w == FindWorkspace(shell, e.name, NoId)
  IN Reads("openwindow", IF w = None THEN shell
                         ELSE InsertToplevel([EnsureToplevel(shell, e.win) EXCEPT !.top[e.win].ws = w], w, e.win),
           {}, FALSE)

OnCloseWindow ==
  Reads("closewindow", IF ~shell.top[e.win].alive THEN shell
                       ELSE DeleteToplevel(IF shell.act = e.win THEN SetActiveToplevel(shell, None) ELSE shell, e.win),
        {}, FALSE)

OnMoveWindow ==
  LET w == FindWorkspace(shell, e.name, NoId)
      old == shell.top[e.win].ws
      t == [shell EXCEPT !.top[e.win].ws = w]
      u == IF old = None THEN t ELSE RemoveToplevel(t, old, e.win)
  IN Reads("movewindow", IF ~shell.top[e.win].alive \/ w = None THEN shell
                         ELSE InsertToplevel(u, w, e.win), {}, FALSE)

OnWindowTitle == Reads("windowtitle", EnsureToplevel(shell, e.win), {}, FALSE)
OnActiveWindow == Reads("activewindow", SetActiveToplevel(EnsureToplevel(shell, e.win), e.win), {}, FALSE)
OnUrgent == Reads("urgent", SetUrgent(EnsureToplevel(shell, e.win), e.win, TRUE), {}, FALSE)

-----------------------------------------------------------------------------
(* The specification.                                                        *)

\* The compositor runs with a monitor and a workspace; the shell asks for all.
Init ==
  /\ LET m == CHOOSE m \in Monitors : TRUE
         w == CHOOSE w \in WsIds : TRUE
         n == CHOOSE n \in WsNames : TRUE IN
       server = [mons |-> {m}, active |-> [k \in Monitors |-> IF k = m THEN w ELSE NoId],
                 name |-> [v \in WsIds |-> IF v = w THEN n ELSE None],
                 mon |-> [v \in WsIds |-> IF v = w THEN m ELSE None],
                 win |-> [x \in Windows |-> NoId], focus |-> m]
  /\ events = <<>> /\ changes = 0 /\ crossed = FALSE
  /\ questions = Refreshed([k \in Kinds |-> NoQuestion], Kinds, TRUE)
  /\ shell = [mon |-> [m \in Monitors |-> NoMonitor], ws |-> [o \in Objs |-> NoWorkspace],
              top |-> [x \in Windows |-> NoToplevel], focus |-> None, act |-> None]

Compositor ==
  \/ \E m \in Monitors : \/ MonitorRemoved(m) \/ MonitorFocused(m)
                         \/ \E w \in WsIds : MonitorAdded(m, w) \/ WorkspaceMoved(w, m)
  \/ \E w \in WsIds : \/ WorkspaceDestroyed(w) \/ WorkspaceShown(w)
                      \/ \E n \in WsNames : WorkspaceCreated(w, n) \/ WorkspaceRenamed(w, n)
  \/ \E x \in Windows : \/ WindowClosed(x)
                        \/ \E w \in WsIds : WindowOpened(x, w) \/ WindowMoved(x, w)
                        \/ \E k \in {"activewindow", "urgent", "windowtitle"} : WindowTold(x, k)
  \/ ConfigReloaded \/ Fullscreen
  \/ \E k \in Kinds : Answers(k)

OnEvent ==
  \/ OnConfigReloaded \/ OnMonitorAdded \/ OnMonitorRemoved \/ OnCreateWorkspace
  \/ OnDestroyWorkspace \/ OnFocusedMon \/ OnWorkspace \/ OnMoveWorkspace \/ OnRenameWorkspace
  \/ OnFullscreen \/ OnOpenWindow \/ OnCloseWindow \/ OnMoveWindow \/ OnWindowTitle
  \/ OnActiveWindow \/ OnUrgent

Next == \/ Compositor \/ OnEvent
        \/ \E m \in Monitors : MonitorDestroyed(m)
        \/ \E k \in Kinds : Failed(k) \/ \E whole \in BOOLEAN : Answered(k, whole)

Spec == Init /\ [][Next]_hyprVars

-----------------------------------------------------------------------------
(* Properties.                                                               *)

\* Every pointer is null or leads to an object that exists.
TypeOK ==
  /\ shell.focus # None => shell.mon[shell.focus].alive
  /\ shell.act # None => shell.top[shell.act].alive
  /\ \A m \in Monitors : shell.mon[m].active # None => shell.ws[shell.mon[m].active].alive
  /\ \A w \in Objs : /\ shell.ws[w].mon # None => shell.mon[shell.ws[w].mon].alive
                     /\ \A x \in shell.ws[w].tops : shell.top[x].alive
  /\ \A x \in Windows : shell.top[x].ws # None => shell.ws[shell.top[x].ws].alive

AtRest == /\ events = <<>> /\ \A k \in Kinds : questions[k].state = "none"
          /\ \A m \in Monitors : shell.mon[m].alive => shell.mon[m].listed

\* At rest the shell has the monitors, workspaces and windows of the compositor, each
\* in its place, as long as no answer was lost or passed an event on its way.
HyprlandIsMirrored ==
  AtRest /\ ~crossed =>
    /\ {m \in Monitors : shell.mon[m].listed} = server.mons
    /\ shell.focus = server.focus
    /\ \A w \in WsIds : Cardinality(ById(shell, w)) = IF Exists(w) THEN 1 ELSE 0
    /\ \A o \in Objs : shell.ws[o].alive =>
         /\ shell.ws[o].id # NoId /\ shell.ws[o].name = server.name[shell.ws[o].id]
         /\ shell.ws[o].tops = {x \in Windows : server.win[x] = shell.ws[o].id}
    /\ \A m \in server.mons : shell.ws[shell.mon[m].active].id = server.active[m]
    /\ \A x \in Windows : shell.top[x].alive <=> server.win[x] # NoId

\* A workspace is marked urgent if one of its windows is; the one in focus never is.
UrgencyIsShown ==
  \A w \in Objs : /\ shell.ws[w].urgent <=> HasUrgent(shell, w)
                  /\ w = FocusedWorkspace(shell) => ~shell.ws[w].urgent
=============================================================================
