------------------------------ MODULE DesktopMC --------------------------------
(* What the shell shows of the desktop, and on it, for TLC: Hyprland's and    *)
(* i3's monitors, workspaces and windows, the toplevels and the workspaces of *)
(* a Wayland compositor, the shell's own windows, what it attaches to their   *)
(* surfaces and how it captures others.  They share no state: a behaviour     *)
(* explores one of them, and the others stay in their initial states.         *)
EXTENDS Naturals, Sequences

CONSTANTS
  Explored,
  Monitors, WsIds, HyprNames, Windows, Objs, Nil, MaxEvents, MaxChanges,
  Tops, MaxTopActs,
  Outputs, SwayNames, WsObjs, MaxSwayActs,
  Mains, Popup, Screens, WinIds, MaxWinActs,
  MaxSurfaces, MaxSurfActs,
  MaxCapActs,
  Groups, Spaces, Displays, MaxSpaceActs

VARIABLES which,
  server, events, questions, shell, changes, crossed,
  focus, handles, manager, shown, topActs,
  sway, swayAsks, swayWire, i3, i3ws, swayActs, moved, renamed, unguarded,
  proxy, win, generations, winActs, unasked, nullWindow,
  feature, keeps, px, wd, made, comp, ext, inh, refs, grab, keys, surfActs, odd,
  setup, origin, ready, view, cap, chain, node, mem, devs, told, capActs, amok, died,
  desk, display, impl, pending, wm, asks, scheduled, projecting, promised, missed, misused, spaceActs

Hyprland  == INSTANCE HyprlandIpc WITH WsNames <- HyprNames, None <- Nil
Toplevel  == INSTANCE Toplevels WITH NoTop <- Nil
I3        == INSTANCE I3Ipc WITH WsNames <- SwayNames, NoOutput <- Nil
Window    == INSTANCE Windows WITH NoScreen <- Nil
Surface   == INSTANCE Surfaces
Capture   == INSTANCE Screencopy
Workspace == INSTANCE Workspaces WITH NoGroup <- Nil

hyprVars     == <<server, events, questions, shell, changes, crossed>>
toplevelVars == <<focus, handles, manager, shown, topActs>>
i3Vars       == <<sway, swayAsks, swayWire, i3, i3ws, swayActs, moved, renamed, unguarded>>
windowVars   == <<proxy, win, generations, winActs, unasked, nullWindow>>
surfaceVars  == <<feature, keeps, px, wd, made, comp, ext, inh, refs, grab, keys, surfActs, odd>>
captureVars  == <<setup, origin, ready, view, cap, chain, node, mem, devs, told, capActs, amok, died>>
spaceVars    == <<desk, display, impl, pending, wm, asks, scheduled, projecting, promised, missed, misused,
                  spaceActs>>
vars         == <<which, hyprVars, toplevelVars, i3Vars, windowVars, surfaceVars, captureVars, spaceVars>>

Init ==
  /\ which \in Explored
  /\ Hyprland!Init /\ Toplevel!Init /\ I3!Init
  /\ Window!Init /\ (which # "windows" => \A m \in Mains : proxy[<<m, 1>>].kind = "floating" /\ ~proxy[<<Popup, 1>>].popup)
  /\ Surface!Init /\ (which # "surfaces" => feature = "keys" /\ ~keeps)
  /\ Capture!Init /\ (which # "screencopy" => setup.screens = "none" /\ ~view.live)
  /\ Workspace!InitWorkspaces

\* One part steps, and the others are as they were.
Next ==
  /\ UNCHANGED which
  /\ \/ which = "hyprland" /\ Hyprland!Next
        /\ UNCHANGED <<toplevelVars, i3Vars, windowVars, surfaceVars, captureVars, spaceVars>>
     \/ which = "toplevels" /\ Toplevel!Next
        /\ UNCHANGED <<hyprVars, i3Vars, windowVars, surfaceVars, captureVars, spaceVars>>
     \/ which = "i3" /\ I3!Next
        /\ UNCHANGED <<hyprVars, toplevelVars, windowVars, surfaceVars, captureVars, spaceVars>>
     \/ which = "windows" /\ Window!Next
        /\ UNCHANGED <<hyprVars, toplevelVars, i3Vars, surfaceVars, captureVars, spaceVars>>
     \/ which = "surfaces" /\ Surface!Next
        /\ UNCHANGED <<hyprVars, toplevelVars, i3Vars, windowVars, captureVars, spaceVars>>
     \/ which = "screencopy" /\ Capture!Next
        /\ UNCHANGED <<hyprVars, toplevelVars, i3Vars, windowVars, surfaceVars, spaceVars>>
     \/ which = "workspaces" /\ Workspace!NextWorkspaces
        /\ UNCHANGED <<hyprVars, toplevelVars, i3Vars, windowVars, surfaceVars, captureVars>>

Spec == Init /\ [][Next]_vars

-----------------------------------------------------------------------------
\* The properties of the modules, stated there.

\* What the shell refers to is there and listed once, and its windows are those of their
\* proxies; a listed workspace has its handle (HyprlandIpc, Toplevels, I3Ipc, Windows, Workspaces).
ObjectsHold ==
  CASE which = "hyprland"  -> Hyprland!TypeOK
    [] which = "toplevels" -> Toplevel!TopsHold
    [] which = "i3"        -> I3!I3Holds
    [] which = "windows"   -> Window!WindowsHold
    [] which = "workspaces" -> Workspace!WorkspacesHold
    [] OTHER               -> TRUE

\* At rest the shell has the compositor's monitors, workspaces and windows, and what is active;
\* a workspace of Hyprland is urgent if one of its windows is, unless it is in focus; the
\* workspaces of a Wayland compositor are those of its last batch.
CompositorIsMirrored ==
  /\ which = "hyprland"  => Hyprland!HyprlandIsMirrored /\ Hyprland!UrgencyIsShown
  /\ which = "toplevels" => Toplevel!ActiveFollowsFocus
  /\ which = "i3"        => I3!I3IsMirrored
  /\ which = "workspaces" => Workspace!WorkspacesAreMirrored

\* The windows of the configuration are shown as they want to be, and what is attached to their
\* surfaces follows them; what is captured shows its source (Windows, Surfaces, Screencopy).
WindowsShow ==
  /\ which = "windows"  => Window!WindowsShow
  /\ which = "surfaces" => Surface!SurfacesFollow
  /\ which = "screencopy" => Capture!CaptureHolds
=============================================================================
