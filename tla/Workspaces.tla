------------------------------ MODULE Workspaces -------------------------------
(* The workspaces of a Wayland compositor (wayland/windowmanager): the         *)
(* compositor tells of groups, of workspaces that enter and leave them and of  *)
(* the outputs they are on, one event at a time; `done' ends a batch, and only *)
(* then the manager makes its windowsets and projections and lets them take    *)
(* over what their workspaces and groups have become.  What the configuration  *)
(* asks of a windowset is sent at once and committed by a queued call.         *)
EXTENDS Naturals, FiniteSets

CONSTANTS
  Groups, Spaces, Displays,     \* workspace groups, workspaces and outputs, each used once
  NoGroup,                      \* nullptr
  MaxSpaceActs                  \* bound on the compositor's events, `done' not counted

VARIABLES
  desk,       \* the compositor: what exists, what is active, the groups a workspace entered and
              \* has not left, the outputs a group entered and has not left
  display,    \* an output: "absent", "bound" (no QScreen of it yet), "screen" or "gone"
  impl,       \* the handles' objects: `life', a workspace's group and state, a group's outputs
              \* without a screen and its screens
  pending,    \* what was made and what was removed since the last `done'
  wm,         \* the windowsets and projections listed, and the values of all that ever were
  asks,       \* how many requests were sent and not committed (at most 2)
  scheduled,  \* WindowsetManager.commitScheduled
  projecting, \* the screens that have a ScreenProjection
  promised,   \* history: the compositor at the last `done'
  missed,     \* history: groups and outputs that had gone when the group left them
  misused,    \* history: a request was made through the object of a removed handle
  spaceActs

workspaceVars == <<desk, display, impl, pending, wm, asks, scheduled, projecting, promised, missed,
                   misused, spaceActs>>

\* The objects of the handles (Workspace, WorkspaceGroup and its WlOutputTracker).
Handles ==
  [life : [Spaces \cup Groups -> {"none", "made", "destroyed", "freed"}],
   group : [Spaces -> Groups \cup {NoGroup}], active : SUBSET Spaces, may : SUBSET Spaces,
   outputs : [Groups -> SUBSET Displays], screens : [Groups -> SUBSET Displays]]

\* What the configuration reads: the lists of the WindowManager, a Windowset's properties, and a
\* WindowsetProjection's screens.
Listed ==
  [spaces : SUBSET Spaces, groups : SUBSET Groups, active : SUBSET Spaces, may : SUBSET Spaces,
   projection : [Spaces -> Groups \cup {NoGroup}], screens : [Groups -> SUBSET Displays]]

firstGroup == CHOOSE g \in Groups : TRUE
firstSpace == CHOOSE w \in Spaces : TRUE
firstDisplay == CHOOSE d \in Displays : TRUE

\* One workspace in one group on one output, as after the first `done'.
InitWorkspaces ==
  LET in == [w \in Spaces |-> IF w = firstSpace THEN firstGroup ELSE NoGroup]
      on == [g \in Groups |-> IF g = firstGroup THEN {firstDisplay} ELSE {}]
  IN /\ desk = [groups |-> {firstGroup}, spaces |-> {firstSpace}, active |-> {firstSpace},
                in |-> [w \in Spaces |-> IF w = firstSpace THEN {firstGroup} ELSE {}], on |-> on]
     /\ display = [d \in Displays |-> IF d = firstDisplay THEN "screen" ELSE "absent"]
     /\ impl = [life |-> [o \in Spaces \cup Groups |-> IF o \in {firstSpace, firstGroup} THEN "made" ELSE "none"],
                group |-> in, active |-> {firstSpace}, may |-> {firstSpace},
                outputs |-> [g \in Groups |-> {}], screens |-> on]
     /\ pending = [made |-> {}, removed |-> {}]
     /\ wm = [spaces |-> {firstSpace}, groups |-> {firstGroup}, active |-> {firstSpace}, may |-> {firstSpace},
              projection |-> in, screens |-> on]
     /\ asks = 0 /\ scheduled = FALSE /\ projecting = {}
     /\ promised = [groups |-> {firstGroup}, spaces |-> {firstSpace}, active |-> {firstSpace}, in |-> in,
                    on |-> on]
     /\ missed = {} /\ misused = FALSE /\ spaceActs = 0

CompositorActs == spaceActs < MaxSpaceActs /\ spaceActs' = spaceActs + 1
shellKeeps == <<wm, asks, scheduled, projecting, promised, misused>>

-----------------------------------------------------------------------------
\* The compositor's events.

\* ext_workspace_manager_v1_workspace_group() and onProjectionCreated().
NewGroup(g) ==
  /\ CompositorActs
  /\ impl.life[g] = "none"
  /\ desk' = [desk EXCEPT !.groups = @ \cup {g}]
  /\ impl' = [impl EXCEPT !.life[g] = "made"]
  /\ pending' = [pending EXCEPT !.made = @ \cup {g}]
  /\ UNCHANGED <<display, missed, shellKeeps>>

\* ext_workspace_manager_v1_workspace() and onWindowsetCreated(), with the events that describe
\* the workspace; the capabilities to activate, deactivate and assign are granted together.
NewWorkspace(w, able) ==
  /\ CompositorActs
  /\ impl.life[w] = "none"
  /\ desk' = [desk EXCEPT !.spaces = @ \cup {w}]
  /\ impl' = [impl EXCEPT !.life[w] = "made", !.may = IF able THEN @ \cup {w} ELSE @]
  /\ pending' = [pending EXCEPT !.made = @ \cup {w}]
  /\ UNCHANGED <<display, missed, shellKeeps>>

\* ext_workspace_handle_v1_state() of a workspace that becomes active or inactive.
State(w) ==
  /\ CompositorActs
  /\ w \in desk.spaces
  /\ LET active == IF w \in desk.active THEN desk.active \ {w} ELSE desk.active \cup {w}
     IN /\ desk' = [desk EXCEPT !.active = active]
        /\ impl' = [impl EXCEPT !.active = IF w \in active THEN @ \cup {w} ELSE @ \ {w}]
  /\ UNCHANGED <<display, pending, missed, shellKeeps>>

\* Workspace::enterGroup().
EnterGroup(w, g) == [impl EXCEPT !.group[w] = g]

\* Workspace::leaveGroup(): a workspace that has entered another group since stays there.
LeaveGroup(w, g) == IF impl.group[w] = g THEN [impl EXCEPT !.group[w] = NoGroup] ELSE impl

\* ext_workspace_group_handle_v1_workspace_enter(): a workspace that moves may enter its new group
\* before it leaves the old one.
WorkspaceEnter(w, g) ==
  /\ CompositorActs
  /\ w \in desk.spaces /\ g \in desk.groups \ desk.in[w]
  /\ Cardinality(desk.in[w]) <= 1
  /\ desk' = [desk EXCEPT !.in[w] = @ \cup {g}]
  /\ impl' = EnterGroup(w, g)
  /\ UNCHANGED <<display, pending, missed, shellKeeps>>

\* ext_workspace_group_handle_v1_workspace_leave(), of two groups for the one it moves from.
WorkspaceLeave(w, g) ==
  /\ CompositorActs
  /\ g \in desk.in[w]
  /\ Cardinality(desk.in[w]) = 2 => impl.group[w] # g
  /\ desk' = [desk EXCEPT !.in[w] = @ \ {g}]
  /\ impl' = LeaveGroup(w, g)
  /\ UNCHANGED <<display, pending, missed, shellKeeps>>

\* ext_workspace_group_handle_v1_output_enter(), WlOutputTracker::addOutput(): an output without
\* a QScreen is kept until there is one.
OutputEnter(g, d) ==
  /\ CompositorActs
  /\ g \in desk.groups /\ display[d] \in {"bound", "screen"} /\ d \notin desk.on[g]
  /\ desk' = [desk EXCEPT !.on[g] = @ \cup {d}]
  /\ impl' = IF display[d] = "screen" THEN [impl EXCEPT !.screens[g] = @ \cup {d}]
                                      ELSE [impl EXCEPT !.outputs[g] = @ \cup {d}]
  /\ UNCHANGED <<display, pending, missed, shellKeeps>>

\* ext_workspace_group_handle_v1_output_leave(), WlOutputTracker::removeOutput(): the screen of an
\* output that has gone is not found any more, and stays in the list.
OutputLeave(g, d) ==
  /\ CompositorActs
  /\ d \in desk.on[g]
  /\ desk' = [desk EXCEPT !.on[g] = @ \ {d}]
  /\ impl' = IF display[d] = "screen" THEN [impl EXCEPT !.screens[g] = @ \ {d}]
                                      ELSE [impl EXCEPT !.outputs[g] = @ \ {d}]
  /\ missed' = IF display[d] = "gone" /\ d \in impl.screens[g] THEN missed \cup {<<g, d>>} ELSE missed
  /\ UNCHANGED <<display, pending, shellKeeps>>

\* A new output is bound; its QScreen comes when Qt knows all of it.
Bound(d) ==
  /\ CompositorActs
  /\ display[d] = "absent"
  /\ display' = [display EXCEPT ![d] = "bound"]
  /\ UNCHANGED <<desk, impl, pending, missed, shellKeeps>>

\* QGuiApplication::screenAdded(), WlOutputTracker::onQScreenAdded() of every group that waits.
OnQScreenAdded(d) ==
  /\ display[d] = "bound"
  /\ display' = [display EXCEPT ![d] = "screen"]
  /\ impl' = [impl EXCEPT !.outputs = [g \in Groups |-> @[g] \ {d}],
                          !.screens = [g \in Groups |-> IF d \in impl.outputs[g] THEN @[g] \cup {d} ELSE @[g]]]
  /\ UNCHANGED <<desk, pending, missed, spaceActs, shellKeeps>>

\* The output's global goes, and with it the QScreen and its ScreenProjection (windowmanager.cpp:33).
ScreenGone(d) ==
  /\ CompositorActs
  /\ display[d] = "screen"
  /\ display' = [display EXCEPT ![d] = "gone"]
  /\ projecting' = projecting \ {d}
  /\ UNCHANGED <<desk, impl, pending, missed, wm, asks, scheduled, promised, misused>>

\* destroyWorkspace() and destroyGroup() with onWindowsetDestroyed() and onProjectionDestroyed():
\* what the configuration never saw is forgotten.
Removed(o) == IF o \in pending.made THEN [pending EXCEPT !.made = @ \ {o}]
                                    ELSE [pending EXCEPT !.removed = @ \cup {o}]

\* ext_workspace_handle_v1_removed(), of a workspace that has left its group.
RemoveWorkspace(w) ==
  /\ CompositorActs
  /\ w \in desk.spaces /\ desk.in[w] = {}
  /\ desk' = [desk EXCEPT !.spaces = @ \ {w}, !.active = @ \ {w}]
  /\ impl' = [impl EXCEPT !.life[w] = "destroyed"]
  /\ pending' = Removed(w)
  /\ UNCHANGED <<display, missed, shellKeeps>>

\* ext_workspace_group_handle_v1_removed(), of a group without workspaces and outputs.
RemoveGroup(g) ==
  /\ CompositorActs
  /\ g \in desk.groups /\ \A w \in Spaces : g \notin desk.in[w]
  /\ desk.on[g] = {}
  /\ desk' = [desk EXCEPT !.groups = @ \ {g}]
  /\ impl' = [impl EXCEPT !.life[g] = "destroyed"]
  /\ pending' = Removed(g)
  /\ UNCHANGED <<display, missed, shellKeeps>>

\* WlWindowset::commitImpl() of the windowsets listed: the values of their objects; the projection
\* is found by the object's group. Those listed no more keep what they had.
CommitWindowsets(spaces, groups) ==
  [wm EXCEPT !.spaces = spaces,
             !.active = (@ \ spaces) \cup (impl.active \cap spaces),
             !.may    = (@ \ spaces) \cup (impl.may \cap spaces),
             !.projection = [w \in Spaces |-> IF w \notin spaces THEN @[w]
                                              ELSE IF impl.group[w] \in groups THEN impl.group[w]
                                              ELSE NoGroup]]

\* WindowsetManager::onServerCommit(): the lists change, and what is on them is committed.
OnServerCommit ==
  LET spaces == (wm.spaces \cup (pending.made \cap Spaces)) \ pending.removed
      groups == (wm.groups \cup (pending.made \cap Groups)) \ pending.removed
  IN [CommitWindowsets(spaces, groups) EXCEPT
        !.groups  = groups,
        !.screens = [g \in Groups |-> IF g \in groups THEN impl.screens[g] ELSE @[g]]]

\* ext_workspace_manager_v1_done(): then the removed handles' objects are deleted.
Done ==
  /\ \A w \in Spaces : Cardinality(desk.in[w]) <= 1
  /\ wm' = OnServerCommit
  /\ pending' = [made |-> {}, removed |-> {}]
  /\ impl' = [impl EXCEPT !.life = [o \in DOMAIN @ |-> IF @[o] = "destroyed" THEN "freed" ELSE @[o]]]
  /\ promised' = [groups |-> desk.groups, spaces |-> desk.spaces, active |-> desk.active,
                  in |-> [w \in Spaces |-> IF desk.in[w] = {} THEN NoGroup ELSE CHOOSE g \in desk.in[w] : TRUE],
                  on |-> [g \in Groups |-> {d \in desk.on[g] : display[d] # "bound"}
                                             \cup {d \in Displays : <<g, d>> \in missed}]]
  /\ UNCHANGED <<desk, display, asks, scheduled, projecting, missed, misused, spaceActs>>

-----------------------------------------------------------------------------
\* The configuration, which may keep a windowset that is listed no more.

\* A request through the objects `used', and scheduleCommit(); one whose handle was removed has
\* no proxy any more, and after `done' no object.
Ask(used) ==
  /\ asks < 2
  /\ IF \A o \in used : impl.life[o] = "made"
     THEN asks' = asks + 1 /\ scheduled' = TRUE /\ UNCHANGED misused
     ELSE misused' = TRUE /\ UNCHANGED <<asks, scheduled>>

configurationKeeps == <<desk, display, impl, pending, wm, projecting, promised, missed, spaceActs>>

\* WlWindowset::activate(); remove() is always refused, for its capability is never taken over.
Activate(w) == w \in wm.may /\ Ask({w}) /\ UNCHANGED configurationKeeps

\* WlWindowset::deactivate().
Deactivate(w) == w \in wm.may /\ Ask({w}) /\ UNCHANGED configurationKeeps

\* WlWindowset::setProjection() with a projection.
SetProjection(w, g) ==
  /\ w \in wm.may /\ g \in Groups /\ (g \in wm.groups \/ impl.life[g] = "freed")
  /\ Ask({w, g})
  /\ UNCHANGED configurationKeeps

\* WlWindowset::setProjection() with a screen's projection: whichever listed projection the hash
\* has first that is on the screen, and nothing when there is none.
SetScreenProjection(w, d) ==
  /\ w \in wm.may /\ d \in projecting
  /\ \E g \in wm.groups : d \in wm.screens[g] /\ Ask({w, g})
  /\ UNCHANGED configurationKeeps

\* WindowManager::screenProjection() of a screen.
ScreenProjection(d) ==
  /\ display[d] = "screen"
  /\ projecting' = projecting \cup {d}
  /\ UNCHANGED <<desk, display, impl, pending, wm, asks, scheduled, promised, missed, misused, spaceActs>>

\* WindowsetManager::doCommit(), the queued call.
DoCommit ==
  /\ scheduled
  /\ asks' = 0 /\ scheduled' = FALSE
  /\ UNCHANGED <<configurationKeeps, misused>>

\* After a request through an object that is gone anything may happen.
NextWorkspaces ==
  /\ ~misused
  /\ \/ \E g \in Groups : NewGroup(g) \/ RemoveGroup(g)
     \/ \E w \in Spaces : \/ \E able \in BOOLEAN : NewWorkspace(w, able)
                          \/ State(w) \/ RemoveWorkspace(w) \/ Activate(w) \/ Deactivate(w)
     \/ \E w \in Spaces, g \in Groups : WorkspaceEnter(w, g) \/ WorkspaceLeave(w, g) \/ SetProjection(w, g)
     \/ \E g \in Groups, d \in Displays : OutputEnter(g, d) \/ OutputLeave(g, d)
     \/ \E d \in Displays : Bound(d) \/ OnQScreenAdded(d) \/ ScreenGone(d) \/ ScreenProjection(d)
     \/ \E w \in Spaces, d \in Displays : SetScreenProjection(w, d)
     \/ Done \/ DoCommit

-----------------------------------------------------------------------------
\* ScreenProjection's binding: the windowsets whose projection is on the screen.
WindowsetsOn(d) == {w \in wm.spaces : wm.projection[w] # NoGroup /\ d \in wm.screens[wm.projection[w]]}

\* Between a removal and its `done' excepted, what is listed has its handle: the configuration may
\* ask anything of it. A windowset's projection is listed, an object's group is not deleted, and
\* nothing waits for a commit that nobody scheduled.
WorkspacesHold ==
  /\ impl \in Handles /\ wm \in Listed
  /\ pending.removed = {} => \A o \in wm.spaces \cup wm.groups : impl.life[o] = "made"
  /\ \A w \in wm.spaces : wm.projection[w] \in wm.groups \cup {NoGroup}
  /\ \A w \in wm.spaces : impl.group[w] # NoGroup => impl.life[impl.group[w]] = "made"
  /\ asks > 0 => scheduled

\* Whatever came since, the configuration sees the compositor as it was at the last `done': the
\* workspaces, what is active, the group of each and its screens, and on a screen the workspaces
\* of its groups. Screens that came or went since may be missing or left over.
WorkspacesAreMirrored ==
  /\ wm.spaces = promised.spaces /\ wm.groups = promised.groups
  /\ wm.active \cap wm.spaces = promised.active
  /\ \A w \in wm.spaces : wm.projection[w] = promised.in[w]
  /\ \A g \in wm.groups : wm.screens[g] = promised.on[g]
  /\ \A d \in projecting : WindowsetsOn(d) = {w \in promised.spaces :
                             promised.in[w] # NoGroup /\ d \in promised.on[promised.in[w]]}
=============================================================================
