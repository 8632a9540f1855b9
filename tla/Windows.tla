-------------------------------- MODULE Windows --------------------------------
(* The windows of a configuration: src/src/window and wlr_layershell.  A      *)
(* ProxyWindowBase stands for a window in the configuration, and keeps the    *)
(* window of the windowing library, which a reload hands to its successor.    *)
(* Panels (layer surfaces) and popups delete theirs when they are hidden.     *)
EXTENDS Naturals, Sequences, FiniteSets, SequencesExt

CONSTANTS
  Mains,       \* windows of the configuration that are not popups
  Popup,       \* a popup
  Screens,     \* screens; the first that is chosen is the primary one
  NoScreen,    \* a null pointer
  WinIds,      \* windows of the library, numbers; 0 is a null pointer
  MaxWinActs   \* bound: what the configuration, the user and the compositor do, and reloads

VARIABLES
  proxy,       \* ProxyWindowBase by window of the configuration and generation
  win,         \* ProxiedWindow, with its LayerSurfaceBridge
  generations, \* which of the two generations are there
  winActs,     \* bound
  unasked,     \* history: proxies whose window was closed by a change of screen or anchor
  nullWindow   \* a null window was used, which ends the shell

windowVars == <<proxy, win, generations, winActs, unasked, nullWindow>>

Proxies == (Mains \cup {Popup}) \X {1, 2}
NoProxy == <<NoScreen, 0>>
Primary == CHOOSE s \in Screens : TRUE
AnchorMain == CHOOSE m \in Mains : TRUE
NoWin   == [there |-> FALSE, visible |-> FALSE, owner |-> NoProxy, screen |-> Primary, parent |-> 0,
            exposed |-> FALSE, look |-> 0, committed |-> 0, maximized |-> FALSE]

\* The members of ProxyWindowBase; `look' is what it shows by polishing: the state of a
\* layer surface, or the mask of another window.
NewProxy(kind, wants, screen, anchor) ==
  [there |-> TRUE, kind |-> kind, wants |-> wants, loaded |-> FALSE, win |-> 0, backer |-> FALSE,
   screen |-> screen, anchor |-> anchor, target |-> FALSE, popup |-> FALSE,
   look |-> 0, pending |-> FALSE, polish |-> FALSE, maximize |-> FALSE, maximized |-> FALSE, closed |-> FALSE]

\* deleteOnInvisible()
Deletes(s, p) == s.px[p].kind # "floating"
Shown(s, p)   == s.px[p].win # 0 /\ s.wn[s.px[p].win].visible
Unused(s)     == CHOOSE w \in WinIds : ~s.wn[w].there

-----------------------------------------------------------------------------
(* The operations that others are made of.  After(s, p) is what follows when  *)
(* a window's backer visibility changes: popups at it come and go.            *)

SetBacker(s, p, v, After(_, _)) ==
  IF s.px[p].backer = v THEN s ELSE After([s EXCEPT !.px[p].backer = v], p)

\* disownWindow(), deleteWindow()
Disown(s, p) == [s EXCEPT !.px[p].win = 0]
DeleteWindow(s, p) ==
  IF s.px[p].win = 0 THEN s ELSE [Disown(s, p) EXCEPT !.wn[s.px[p].win] = NoWin]
DeleteHidden(s, p) == IF Deletes(s, p) THEN DeleteWindow(s, p) ELSE s

\* The window goes; onVisibleChanged(), the setVisibleDirect(FALSE) of it, and onClosed().
OnClosed(s, p) ==
  [s EXCEPT !.px[p] = [@ EXCEPT !.closed = TRUE, !.popup = FALSE, !.target = FALSE]]
HideWindow(s, p, After(_, _)) ==
  LET hid == [s EXCEPT !.wn[s.px[p].win].visible = FALSE, !.wn[s.px[p].win].exposed = FALSE]
  IN IF ~Shown(s, p) THEN s ELSE IF ~s.px[p].wants THEN hid
     ELSE OnClosed(DeleteHidden(SetBacker([hid EXCEPT !.px[p].wants = FALSE], p, FALSE, After), p), p)

\* A layer surface is made with the state of its bridge.
NewWindow(s, p) ==
  [NoWin EXCEPT !.there = TRUE, !.look = IF s.px[p].kind = "panel" THEN s.px[p].look ELSE 0]
\* ensureQWindow(); `fits': the format and the namespace of an old one do.
Ensure(s, p, fits) ==
  LET old == IF s.px[p].win # 0 /\ ~fits THEN DeleteWindow(s, p) ELSE s
      w   == Unused(old)
  IN IF old.px[p].win # 0 THEN old ELSE [old EXCEPT !.px[p].win = w, !.wn[w] = NewWindow(s, p)]
\* Also onWindowConnected() of a FloatingWindow.
Connect(s, p) ==
  LET m == s.px[p].maximize IN
  [s EXCEPT !.wn[s.px[p].win] = [@ EXCEPT !.owner = p, !.maximized = m], !.px[p].maximized = m]

\* completeWindow(), with the window hidden if it moves to another screen.
Place(s, p, w, moves) ==
  LET me     == s.px[p]
      placed == IF moves THEN [s EXCEPT !.wn[w].screen = me.screen] ELSE s
      parent == IF me.anchor = NoProxy THEN 0 ELSE s.px[me.anchor].win
  IN IF me.win = 0 THEN [s EXCEPT !.null = TRUE]
     ELSE [placed EXCEPT !.px[p].pending = TRUE, !.px[p].polish = Shown(placed, p) \/ @,
                         !.wn[w].parent = parent]
Complete(s, p, After(_, _)) ==
  LET me    == s.px[p]
      moves == me.screen # NoScreen /\ s.wn[me.win].screen # me.screen
  IN Place(IF moves THEN HideWindow(s, p, After) ELSE s, p, me.win, moves)

\* setVisibleDirect()
ShowWindow(s, p, After(_, _)) ==
  SetBacker([s EXCEPT !.wn[s.px[p].win].visible = TRUE], p, TRUE, After)
Show(s, p, After(_, _)) ==
  IF Deletes(s, p) /\ Shown(s, p) THEN s
  ELSE ShowWindow(IF s.px[p].win = 0 \/ Deletes(s, p)
                  THEN Complete(Connect(Ensure(s, p, TRUE), p), p, After) ELSE s, p, After)
Hidden(s, p, After(_, _)) ==
  DeleteHidden(IF Deletes(s, p) \/ s.px[p].win # 0 THEN SetBacker(s, p, FALSE, After) ELSE s, p)
Hide(s, p, After(_, _)) == Hidden(HideWindow(s, p, After), p, After)
SetVisibleDirect(s, p, v, After(_, _)) == IF v THEN Show(s, p, After) ELSE Hide(s, p, After)

\* ProxyWindowBase::setVisible()
SetWants(s, p, v, After(_, _)) ==
  LET t == [s EXCEPT !.px[p].wants = v] IN IF s.px[p].loaded THEN SetVisibleDirect(t, p, v, After) ELSE t

\* LayerSurface::commit(), once there is a surface: what differs from what was committed last.
\* Mutant: what is committed does not reach the surface.
CommitDrawn(s, p) ==
  LET w == s.wn[s.px[p].win] IN IF ~w.visible \/ w.committed = s.px[p].look THEN s ELSE [s EXCEPT !.wn[s.px[p].win].committed = s.px[p].look]
Commit(s, p) ==
  LET w == s.wn[s.px[p].win] IN
  IF ~w.visible \/ w.committed = s.px[p].look THEN s
  ELSE [s EXCEPT !.wn[s.px[p].win] = [@ EXCEPT !.look = s.px[p].look, !.committed = s.px[p].look]]

-----------------------------------------------------------------------------
(* Popups                                                                    *)

None(s, p) == s
Target(s, q) ==
  LET me == s.px[q] IN me.anchor # NoProxy /\ me.popup /\ s.px[me.anchor].backer

\* targetVisibleChanged()
Retarget(s, q) ==
  IF s.px[q].target = Target(s, q) THEN s
  ELSE SetWants([s EXCEPT !.px[q].target = Target(s, q)], q, Target(s, q), None)

\* The popups at a window.
After(s, p) ==
  LET At(g) == s.px[<<Popup, g>>].there /\ s.px[<<Popup, g>>].anchor = p
  IN FoldLeft(LAMBDA t, g : IF At(g) THEN Retarget(t, <<Popup, g>>) ELSE t, s, <<1, 2>>)

\* setVisible(), onVisibleChanged(), and the making of a window, with what follows for its popups.
Want(s, p, v)     == SetWants(s, p, v, After)
Closed(s, p)      == HideWindow(s, p, After)
Made(s, p, fits)  == Complete(Connect(Ensure(s, p, fits), p), p, After)

\* PopupAnchor::setWindow(), onParentWindowChanged()
Reparent(s, q) == IF s.px[q].target /\ Shown(s, q) THEN Show(Hide(s, q, None), q, None) ELSE s
SetAnchor(s, q, p) ==
  IF s.px[q].anchor = p THEN s ELSE Reparent(Retarget([s EXCEPT !.px[q].anchor = p], q), q)

-----------------------------------------------------------------------------
State == [px |-> proxy, wn |-> win, null |-> nullWindow]
Become(s) == proxy' = s.px /\ win' = s.wn /\ nullWindow' = s.null
\* While it is being destroyed the old generation does nothing.
Newest    == IF 2 \in generations THEN 2 ELSE 1
Live(p)   == p[2] = Newest /\ ~nullWindow
Acts      == winActs < MaxWinActs /\ winActs' = winActs + 1
Here(p)   == [State EXCEPT !.px[p].closed = FALSE]

\* The configuration sets `visible'.
SetVisible(p, v) ==
  /\ Acts /\ Live(p)
  /\ IF proxy[p].kind = "popup" THEN Become(Retarget([Here(p) EXCEPT !.px[p].popup = v], p))
                                ELSE Become(Want(Here(p), p, v))
  /\ UNCHANGED <<generations, unasked>>

\* setScreen(), of a window that is no popup: one that is shown is hidden meanwhile.
OnScreen(s, p, sc) == IF s.px[p].win = 0 THEN s ELSE [s EXCEPT !.wn[s.px[p].win].screen = sc]
SetScreen(p, sc) ==
  /\ Acts /\ Live(p) /\ proxy[p].kind # "popup"
  /\ LET s     == [Here(p) EXCEPT !.px[p].screen = sc]
         at    == IF proxy[p].win # 0 THEN win[proxy[p].win].screen
                  ELSE IF proxy[p].screen # NoScreen THEN proxy[p].screen ELSE Primary
     IN Become(IF at = sc \/ s.px[p].win = 0 THEN s
               ELSE IF Shown(s, p) THEN Show(OnScreen(Hide(s, p, After), p, sc), p, After) ELSE OnScreen(s, p, sc))
  /\ unasked' = IF proxy'[p].closed THEN unasked \cup {p, <<Popup, p[2]>>} ELSE unasked
  /\ UNCHANGED generations
Reanchor(q, p) ==
  /\ Acts /\ Live(q) /\ q[1] = Popup /\ p[1] # Popup /\ p[2] = q[2]
  /\ Become(SetAnchor(Here(q), q, p))
  /\ unasked' = IF proxy'[q].closed THEN unasked \cup {q} ELSE unasked
  /\ UNCHANGED generations

\* What is not applied at once waits for a polish, which only a window that is shown gets.
Look(p, v) ==
  /\ Acts /\ Live(p) /\ v # proxy[p].look
  /\ UNCHANGED <<win, generations, unasked, nullWindow>>
\* setMask(), updateMask()
SetMask(p, v) ==
  /\ Look(p, v) /\ proxy[p].kind # "panel"
  /\ proxy' = [proxy EXCEPT ![p] = [@ EXCEPT !.look = v, !.pending = @ \/ proxy[p].win # 0,
                              !.polish = @ \/ Shown(State, p), !.closed = FALSE]]
\* A property of a layer surface, and onStateChanged().
SetLayerState(p, v) ==
  /\ Look(p, v) /\ proxy[p].kind = "panel"
  /\ proxy' = [proxy EXCEPT ![p] = [@ EXCEPT !.look = v, !.polish = @ \/ Shown(State, p), !.closed = FALSE]]
\* onPolished()
Polished(s, p) ==
  LET me == s.px[p]
      t  == IF me.kind = "panel" THEN Commit(s, p)
            ELSE IF me.pending THEN [s EXCEPT !.wn[me.win].look = me.look] ELSE s
  IN [t EXCEPT !.px[p] = [@ EXCEPT !.pending = FALSE, !.polish = FALSE], !.wn[me.win].exposed = TRUE]
\* A frame is drawn, or the window is exposed.
Draw(p) ==
  /\ Live(p) /\ Shown(State, p) /\ (proxy[p].polish \/ ~win[proxy[p].win].exposed)
  /\ Become(Polished(State, p)) /\ UNCHANGED <<generations, winActs, unasked>>

\* The user or the compositor closes the window; a scene graph error does too.
Close(p) ==
  /\ Acts /\ Live(p) /\ Shown(State, p)
  /\ Become(Closed(Here(p), p)) /\ UNCHANGED <<generations, unasked>>
SceneGraphError(p) ==
  /\ Acts /\ Live(p) /\ Shown(State, p)
  /\ Become(Want([Here(p) EXCEPT !.px[p].loaded = TRUE], p, FALSE))
  /\ UNCHANGED <<generations, unasked>>

\* A screen goes, and the library moves its windows to another.
ScreenGoes(sc) ==
  /\ Acts /\ ~nullWindow /\ sc # Primary /\ \E p \in Proxies : proxy[p].screen = sc
  /\ proxy' = [p \in Proxies |-> IF proxy[p].screen = sc THEN [proxy[p] EXCEPT !.screen = NoScreen] ELSE proxy[p]]
  /\ win' = [w \in WinIds |-> IF win[w].screen = sc THEN [win[w] EXCEPT !.screen = Primary] ELSE win[w]]
  /\ UNCHANGED <<generations, unasked, nullWindow>>

\* A floating window is maximized or not, by the configuration or by the user.
SetMaximized(p, v) ==
  /\ Acts /\ Live(p) /\ proxy[p].kind = "floating"
  /\ LET w == proxy[p].win IN
     \/ /\ v # proxy[p].maximize
        /\ proxy' = [proxy EXCEPT ![p].maximize = v, ![p].maximized = IF w # 0 THEN v ELSE @]
        /\ win' = IF w # 0 THEN [win EXCEPT ![w].maximized = v] ELSE win
     \/ /\ Shown(State, p) /\ v # win[w].maximized
        /\ proxy' = [proxy EXCEPT ![p].maximized = v] /\ win' = [win EXCEPT ![w].maximized = v]
  /\ UNCHANGED <<generations, unasked, nullWindow>>

-----------------------------------------------------------------------------
(* Reloading.  The windows are reloaded in the order of the configuration.   *)

\* retrieveWindow(): a layer surface that is kept gets the new state at once.
Retrieve(s, p, old, fits) ==
  LET t == [Disown(s, old) EXCEPT !.px[p].win = s.px[old].win] IN
  IF Shown(t, p) /\ fits /\ t.px[p].kind = "panel" THEN Commit(t, p) ELSE t

\* onReload(): the window is taken from the old proxy if it is to be visible, and shown as
\* drawn if it was.
PostComplete(s, p) == Want(s, p, IF s.px[p].kind = "popup" THEN Target(s, p) ELSE TRUE)
Drawn(s, p, was) == IF was /\ Shown(s, p) THEN SetBacker(Polished(s, p), p, TRUE, After) ELSE s
Reloaded(s, p, was) ==
  LET done == [s EXCEPT !.px[p].loaded = TRUE]
  IN IF s.null \/ ~s.px[p].wants THEN done ELSE Drawn(PostComplete(done, p), p, was)
Take(s, p, fits) == Reloaded(IF s.px[p].wants THEN Made(s, p, fits) ELSE s, p, Shown(s, p))
OnReload(s, p, old, fits) ==
  Take(IF s.px[p].wants /\ old # NoProxy THEN Retrieve(s, p, old, fits) ELSE s, p, fits)

OrderOf(g, popupFirst) ==
  LET mains == SetToSeq({<<m, g>> : m \in Mains})
  IN IF popupFirst THEN <<<<Popup, g>>>> \o mains ELSE Append(mains, <<Popup, g>>)

\* The new configuration has windows of the same kind, which want to be visible or not.
Reload ==
  /\ Acts /\ generations = {1} /\ ~nullWindow /\ generations' = {1, 2}
  /\ \E wants, popup, popupFirst, fits \in BOOLEAN, sc \in (Screens \ {Primary}) \cup {NoScreen} :
       LET New(m)   == NewProxy(proxy[<<m, 1>>].kind, wants, sc, NoProxy)
           put      == [p \in Proxies |-> IF p[2] = 1 THEN proxy[p] ELSE IF p[1] # Popup THEN New(p[1])
                          ELSE [NewProxy("popup", FALSE, NoScreen, <<AnchorMain, 2>>) EXCEPT !.popup = popup]]
           Step(s, p) == IF s.null THEN s ELSE OnReload(s, p, <<p[1], 1>>, fits)
           closed   == {p \in Proxies : p[2] = 2 /\ proxy'[p].closed}
       IN Become(FoldLeft(Step, [State EXCEPT !.px = put], OrderOf(2, popupFirst))) /\ unasked' = IF closed = {} THEN unasked ELSE unasked \cup closed \cup {<<Popup, 2>>}

\* The old generation is destroyed, and its windows with it.
DestroyOld ==
  /\ generations = {1, 2} /\ ~nullWindow /\ generations' = {2}
  /\ LET dead == [p \in Proxies |-> IF p[2] = 1 THEN [proxy[p] EXCEPT !.there = FALSE, !.win = 0, !.backer = FALSE] ELSE proxy[p]]
         kept == {proxy[p].win : p \in {q \in Proxies : q[2] = 2}}
     IN /\ proxy' = dead
        /\ win' = [w \in WinIds |-> IF w \in {proxy[p].win : p \in {q \in Proxies : q[2] = 1}} THEN NoWin ELSE win[w]]
  /\ UNCHANGED <<winActs, unasked, nullWindow>>

Init ==
  /\ \E kind \in {"floating", "panel"}, popup \in BOOLEAN :
       LET first == [p \in Proxies |->
                       IF p[2] = 2 THEN [NewProxy("panel", FALSE, NoScreen, NoProxy) EXCEPT !.there = FALSE]
                       ELSE IF p[1] # Popup THEN NewProxy(kind, TRUE, NoScreen, NoProxy)
                       ELSE [NewProxy("popup", FALSE, NoScreen, <<AnchorMain, 1>>) EXCEPT !.popup = popup]]
           none == [px |-> first, wn |-> [w \in WinIds |-> NoWin], null |-> FALSE]
       IN \E s \in {FoldLeft(LAMBDA t, p : OnReload(t, p, NoProxy, TRUE), none, OrderOf(1, FALSE))} :
            proxy = s.px /\ win = s.wn /\ nullWindow = s.null
  /\ generations = {1} /\ winActs = 0 /\ unasked = {}

Next ==
  \/ \E p \in Proxies :
       \/ Draw(p) \/ Close(p) \/ SceneGraphError(p)
       \/ \E v \in BOOLEAN : SetVisible(p, v) \/ SetMaximized(p, v)
       \/ \E v \in {0, 1} : SetMask(p, v) \/ SetLayerState(p, v)
       \/ \E sc \in Screens : SetScreen(p, sc)
       \/ \E q \in Proxies : Reanchor(p, q)
  \/ \E sc \in Screens : ScreenGoes(sc)
  \/ Reload \/ DestroyOld

-----------------------------------------------------------------------------
\* A proxy's window is there and its own; no window is left without a proxy; a popup that is
\* shown, unless its anchor changed under it, is at the window it is anchored to, which is
\* shown (proxywindow.cpp:66, :176, popupwindow.cpp:25, :62).
WindowsHold ==
  IF nullWindow THEN \E m \in Mains : proxy[<<m, 2>>].kind = "panel" /\ proxy[<<m, 2>>].screen # NoScreen ELSE
  /\ \A p \in Proxies : proxy[p].win # 0 => win[proxy[p].win].there /\ win[proxy[p].win].owner = p
  /\ \A w \in WinIds : win[w].there => proxy[win[w].owner].win = w
  /\ LET q == proxy[<<Popup, Newest>>] IN
     q.win # 0 /\ win[q.win].visible /\ <<Popup, Newest>> \notin unasked =>
       q.anchor # NoProxy /\ Shown(State, q.anchor) /\ win[q.win].parent = proxy[q.anchor].win

\* The window is shown if its proxy wants it, and only then; its look is that which was
\* asked for, when it is drawn, but that a layer surface's default may be lost (surface.cpp:214); a window that
\* is shown was not said to be closed (proxywindow.cpp:84, :249, :265, :295, wlr_layershell.cpp:40).
WindowsShow ==
  ~nullWindow => \A p \in Proxies \ unasked :
    LET me == proxy[p] IN
    /\ me.loaded /\ p[2] = Newest => (Shown(State, p) <=> me.wants) /\ (me.backer <=> me.wants)
    /\ Shown(State, p) /\ ~me.polish /\ win[me.win].exposed =>
         win[me.win].look = me.look \/ (me.kind = "panel" /\ me.look = 0)
    /\ me.closed => ~Shown(State, p)
    /\ me.kind = "floating" /\ me.win # 0 => (me.maximized <=> win[me.win].maximized)

\* Other than by the user, the compositor or an error no window is closed.
ClosedByOthers == unasked = {}
=============================================================================
