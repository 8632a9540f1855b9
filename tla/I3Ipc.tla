--------------------------------- MODULE I3Ipc ---------------------------------
(* Workspaces and outputs of i3 or Sway: src/src/x11/i3/ipc.  Requests, their *)
(* answers and the events go over one socket, in order; an answer says what   *)
(* is there when the window manager reads the request.                        *)
EXTENDS Naturals, Sequences, FiniteSets, SequencesExt

CONSTANTS
  Outputs,     \* names of outputs
  WsNames,     \* names of workspaces
  WsObjs,      \* I3Workspace objects, numbers; 0 is a null pointer
  NoOutput,    \* an empty name
  MaxSwayActs  \* bound: what the user does at the window manager

VARIABLES
  sway,        \* the window manager: outputs, the output of each workspace, what is visible, the focus
  swayAsks,    \* requests it has not read
  swayWire,    \* answers and events that were not read
  i3,          \* I3IpcController: mWorkspaces, mMonitors, bFocusedMonitor
  i3ws,        \* I3Workspace: name, monitor, whether it is deleted
  swayActs,    \* bound
  moved,       \* history: outputs that came to show another workspace without a focus event
  renamed,     \* history: a workspace was renamed, or came into focus before it was listed
  unguarded    \* history: a focused output went that nobody listens to, or another one that was listened to

i3Vars == <<sway, swayAsks, swayWire, i3, i3ws, swayActs, moved, renamed, unguarded>>

SwayMsg(kind, name, out, value) == [kind |-> kind, name |-> name, out |-> out, value |-> value]
Ws(kind, s, n) == SwayMsg(kind, n, s.at[n], 0)
There(s)       == {n \in WsNames : s.at[n] # NoOutput}
Shows(s, n)    == \E o \in s.outs : s.visible[o] = n

-----------------------------------------------------------------------------
(* The window manager (external)                                             *)

SwayAct(s, told) ==
  /\ swayActs < MaxSwayActs /\ swayActs' = swayActs + 1
  /\ sway' = s /\ swayWire' = swayWire \o told
  /\ UNCHANGED <<swayAsks, i3, i3ws, unguarded>>

\* A workspace comes into focus, and is made if there is none; that which it hides may be
\* empty, and go.
FocusWorkspace(n) ==
  /\ n # sway.focus
  /\ LET new == n \notin There(sway)
         o   == IF new THEN sway.at[sway.focus] ELSE sway.at[n]
         old == sway.visible[o]
         s   == [sway EXCEPT !.at[n] = o, !.visible[o] = n, !.focus = n]
         head == (IF new THEN <<Ws("init", s, n)>> ELSE <<>>) \o <<Ws("focus", s, n)>>
     IN /\ \/ SwayAct(s, head)
           \/ old # n /\ SwayAct([s EXCEPT !.at[old] = NoOutput], Append(head, Ws("empty", sway, old)))
        /\ UNCHANGED <<moved, renamed>>

\* A workspace moves to another output, where it is shown; the one it leaves shows another.
MoveWorkspace(n, o) ==
  LET from == sway.at[n]
      next == {m \in WsNames \ {n} : sway.at[m] \in {from, NoOutput}}
  IN /\ n \in There(sway) /\ o \in sway.outs \ {from}
     /\ \E m \in IF Shows(sway, n) THEN next ELSE {sway.visible[from]} :
          LET s == [sway EXCEPT !.at = [@ EXCEPT ![n] = o, ![m] = from],
                                !.visible = [@ EXCEPT ![o] = n, ![from] = m]]
          IN SwayAct(s, (IF m \in There(sway) THEN <<>> ELSE <<Ws("init", s, m)>>) \o <<Ws("move", s, n)>>)
     /\ moved' = moved \cup {o, from} /\ UNCHANGED renamed

RenameWorkspace(n, m) ==
  /\ n \in There(sway) /\ m \notin There(sway)
  /\ LET s == [sway EXCEPT !.at = [@ EXCEPT ![n] = NoOutput, ![m] = sway.at[n]],
                           !.visible = [o \in Outputs |-> IF @[o] = n THEN m ELSE @[o]],
                           !.focus = IF @ = n THEN m ELSE @]
     IN SwayAct(s, <<Ws("rename", s, m)>>)
  /\ renamed' = TRUE /\ UNCHANGED moved

\* A new output shows a new workspace.
OutputComes(o) ==
  /\ o \notin sway.outs
  /\ \E n \in WsNames \ There(sway) :
       LET s == [sway EXCEPT !.outs = @ \cup {o}, !.at[n] = o, !.visible[o] = n]
       IN SwayAct(s, <<Ws("init", s, n), SwayMsg("output", NoOutput, NoOutput, 0)>>)
  /\ UNCHANGED <<moved, renamed>>

\* The workspaces of an output that goes move to another.
OutputGoes(o) ==
  /\ o \in sway.outs
  /\ \E to \in sway.outs \ {o} :
       LET going == {n \in There(sway) : sway.at[n] = o}
           focus == IF sway.focus \in going THEN sway.visible[to] ELSE sway.focus
           s == [sway EXCEPT !.outs = @ \ {o}, !.at = [n \in WsNames |-> IF n \in going THEN to ELSE @[n]],
                             !.focus = focus]
           moves == SetToSeq(going)
       IN SwayAct(s, [i \in DOMAIN moves |-> Ws("move", s, moves[i])] \o
                     (IF focus # sway.focus THEN <<Ws("focus", s, focus)>> ELSE <<>>) \o
                     <<SwayMsg("output", NoOutput, NoOutput, 0)>>)
  /\ moved' = moved \cup {o} /\ UNCHANGED renamed

SwayReads ==
  /\ swayAsks # <<>> /\ swayAsks' = Tail(swayAsks)
  /\ swayWire' = Append(swayWire, SwayMsg(Head(swayAsks), NoOutput, NoOutput, sway))
  /\ UNCHANGED <<sway, i3, i3ws, swayActs, moved, renamed, unguarded>>

-----------------------------------------------------------------------------
(* The shell.  A monitor is known by its name and by how many there were.    *)

NoMon == <<NoOutput, 0>>
Monitor(s, o) == IF s.mon[o].there THEN <<o, s.mon[o].count>> ELSE NoMon
Alive(s, m)   == m # NoMon /\ Monitor(s, m[1]) = m

FindByName(s, n) ==
  LET found == {w \in s.list : s.ws[w].name = n} IN IF found = {} THEN 0 ELSE CHOOSE w \in found : TRUE
FindMonitor(s, o) ==
  IF s.mon[o].there THEN s ELSE [s EXCEPT !.mon[o] = [there |-> TRUE, count |-> @.count + 1, active |-> 0]]
FocusedWorkspace(s) == IF s.focused = NoMon THEN 0 ELSE s.mon[s.focused[1]].active

\* I3Workspace::updateFromObject()
UpdateWorkspace(s, w, n, o) ==
  LET named == [s EXCEPT !.ws[w].name = n] IN
  IF s.ws[w].mon[1] = o THEN named
  ELSE LET with == FindMonitor(named, o) IN [with EXCEPT !.ws[w].mon = Monitor(with, o)]

NewWorkspace(s) == CHOOSE w \in WsObjs : ~s.ws[w].alive /\ s.ws[w].mon = NoMon
Made(s, w) == [s EXCEPT !.ws[w].alive = TRUE]
\* A workspace of the name, in the list.
Listed(s, n, o) ==
  LET w == FindByName(s, n)
      v == NewWorkspace(s)
  IN IF w # 0 THEN UpdateWorkspace(s, w, n, o)
     ELSE [UpdateWorkspace(Made(s, v), v, n, o) EXCEPT !.list = @ \cup {v}]
Delete(s, w) == [s EXCEPT !.list = @ \ {w}, !.ws[w].alive = FALSE]

\* setFocusedMonitor(): only here the monitor that goes is listened to.
SetFocusedMonitor(s, m) ==
  IF m = s.focused THEN s ELSE [s EXCEPT !.focused = m, !.heard = (@ \ {s.focused}) \cup {m}]

\* handleGetWorkspacesEvent(): the focus only if none is known.
GetWorkspaces(s, said) ==
  LET Entry(t, n) ==
        LET u == Listed(t, n, said.at[n]) IN
        IF FocusedWorkspace(u) = 0 /\ said.focus = n
        THEN [u EXCEPT !.focused = u.ws[FindByName(u, n)].mon] ELSE u
      all == FoldLeft(Entry, s, SetToSeq(There(said)))
  IN FoldLeft(Delete, all, SetToSeq({w \in all.list : all.ws[w].name \notin There(said)}))

\* handleGetOutputsEvent()
GetOutputs(s, said) ==
  LET Entry(t, o) ==
        LET u == FindMonitor(t, o)
            a == u.mon[o].active
            v == IF a # 0 /\ u.ws[a].name = said.visible[o] THEN u
                 ELSE [u EXCEPT !.mon[o].active = FindByName(u, said.visible[o])]
        IN IF said.at[said.focus] = o THEN SetFocusedMonitor(v, Monitor(v, o)) ELSE v
      Gone(t, o) == LET m == Monitor(t, o) IN
        [t EXCEPT !.mon[o].there = FALSE, !.focused = IF m \in t.heard THEN NoMon ELSE @, !.heard = @ \ {m}]
      all == FoldLeft(Entry, s, SetToSeq(said.outs))
  IN FoldLeft(Gone, all, SetToSeq({o \in Outputs \ said.outs : all.mon[o].there}))

\* handleWorkspaceEvent(): `focus' of a workspace that is not listed makes one that is not.
OnFocus(s, n, o) ==
  LET w == FindByName(s, n)
      v == IF w = 0 THEN NewWorkspace(s) ELSE w
      u == UpdateWorkspace(Made(s, v), v, n, o)
      m == u.ws[v].mon
  IN [u EXCEPT !.mon[m[1]].active = v, !.focused = m]
OnEmpty(s, n) ==
  LET w == FindByName(s, n)
      u == IF FocusedWorkspace(s) = w THEN [s EXCEPT !.mon[s.focused[1]].active = 0] ELSE s
  IN IF w = 0 THEN s ELSE Delete(u, w)
OnOther(s, n, o) == IF FindByName(s, n) = 0 THEN s ELSE UpdateWorkspace(s, FindByName(s, n), n, o)

HearSway ==
  /\ swayWire # <<>> /\ swayWire' = Tail(swayWire)
  /\ LET m == Head(swayWire)
         s == [ws |-> i3ws, list |-> i3.list, mon |-> i3.mon, focused |-> i3.focused, heard |-> i3.heard]
         t == CASE m.kind = "workspaces" -> GetWorkspaces(s, m.value)
                [] m.kind = "outputs"    -> GetOutputs(s, m.value)
                [] m.kind = "init"       -> Listed(s, m.name, m.out)
                [] m.kind = "focus"      -> OnFocus(s, m.name, m.out)
                [] m.kind = "empty"      -> OnEmpty(s, m.name)
                [] m.kind \in {"move", "rename"} -> OnOther(s, m.name, m.out)
                [] m.kind = "output"     -> s
     IN /\ i3' = [list |-> t.list, mon |-> t.mon, focused |-> t.focused, heard |-> t.heard] /\ i3ws' = t.ws
        /\ swayAsks' = IF m.kind = "output" THEN Append(swayAsks, "outputs") ELSE swayAsks
        /\ renamed' = (renamed \/ (m.kind = "focus" /\ FindByName(s, m.name) = 0))
        /\ unguarded' = (unguarded \/ (m.kind = "outputs" /\ t.focused = NoMon))
  /\ UNCHANGED <<sway, swayActs, moved>>

-----------------------------------------------------------------------------
\* onConnected(), after subscribe().
Init ==
  /\ LET o == CHOOSE x \in Outputs : TRUE
         n == CHOOSE x \in WsNames : TRUE
     IN sway = [outs |-> {o}, at |-> [m \in WsNames |-> IF m = n THEN o ELSE NoOutput],
                visible |-> [p \in Outputs |-> n], focus |-> n]
  /\ swayAsks = <<"workspaces", "outputs">> /\ swayWire = <<>> /\ swayActs = 0
  /\ i3 = [list |-> {}, mon |-> [o \in Outputs |-> [there |-> FALSE, count |-> 0, active |-> 0]],
           focused |-> NoMon, heard |-> {}]
  /\ i3ws = [w \in WsObjs |-> [alive |-> FALSE, name |-> NoOutput, mon |-> NoMon]]
  /\ moved = {} /\ renamed = FALSE /\ unguarded = FALSE

Next ==
  \/ \E n \in WsNames : FocusWorkspace(n) \/ \E m \in WsNames : RenameWorkspace(n, m)
  \/ \E o \in Outputs : OutputComes(o) \/ OutputGoes(o) \/ \E n \in WsNames : MoveWorkspace(n, o)
  \/ SwayReads \/ HearSway

-----------------------------------------------------------------------------
\* The focused monitor, the monitor of a listed workspace and the active workspace of a
\* monitor are there, but for an output that shows another without a focus event
\* (controller.cpp:148, :257, :282, monitor.cpp:43, workspace.cpp:46).
I3Holds ==
  ~renamed =>
    /\ i3.focused = NoMon \/ Alive([mon |-> i3.mon], i3.focused)
    /\ \A w \in i3.list : i3ws[w].alive /\ Alive([mon |-> i3.mon], i3ws[w].mon)
    /\ \A o \in Outputs \ moved : i3.mon[o].there /\ i3.mon[o].active # 0 => i3ws[i3.mon[o].active].alive
    /\ \A v, w \in i3.list : i3ws[v].name = i3ws[w].name => v = w

\* At rest the workspaces are those of the window manager, each with its output, and the
\* focused workspace and output are too (controller.cpp:47, :91, :232).
I3IsMirrored ==
  swayAsks = <<>> /\ swayWire = <<>> /\ ~renamed =>
    /\ {<<i3ws[w].name, i3ws[w].mon[1]>> : w \in i3.list} = {<<n, sway.at[n]>> : n \in There(sway)}
    /\ {o \in Outputs : i3.mon[o].there} = sway.outs
    /\ ~unguarded /\ moved = {} => i3.focused[1] = sway.at[sway.focus]
=============================================================================
