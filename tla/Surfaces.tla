------------------------------- MODULE Surfaces --------------------------------
(* What the shell attaches to the surfaces of its windows: the opacity and    *)
(* mask of Hyprland (src/src/wayland/hyprland/surface), the blur behind them  *)
(* (background_effect), inhibitors of idling and of the compositor's          *)
(* shortcuts (idle_inhibit, shortcuts_inhibit), the focus grab                *)
(* (hyprland/focus_grab) and global shortcuts (hyprland/global_shortcuts).    *)
(*                                                                            *)
(* A proxy window has a window of the toolkit or none, which passes to the    *)
(* proxy that replaces it in a reload.  A window that is shown has a handle   *)
(* of the windowing library and a surface; hiding takes the surface, and the  *)
(* handle goes with the window, some time after it was told to.               *)
EXTENDS Naturals, FiniteSets, SequencesExt

CONSTANTS
  MaxSurfaces, \* how many surfaces are made
  MaxSurfActs  \* how often the configuration acts

\* Which of the above is explored, one in a behaviour.
Features == {"opacity", "blur", "idle", "shortcuts", "grab", "keys"}
\* Two proxy windows; the second takes the first one's window or has its own.
Proxies == 1 .. 2
Handles == 1 .. MaxSurfaces
Objects == 1 .. 2     \* inhibitors
Keys    == 1 .. 3     \* GlobalShortcut objects, all of one name

VARIABLES feature, keeps,  \* the windows outlive being hidden
          px, wd, made, comp, ext, inh, refs, grab, keys, surfActs,
          odd              \* what has happened that the code does not provide for

surfaceVars == <<feature, keeps, px, wd, made, comp, ext, inh, refs, grab, keys, surfActs, odd>>

State == [px |-> px, wd |-> wd, made |-> made, comp |-> comp, ext |-> ext, inh |-> inh,
          refs |-> refs, grab |-> grab, odd |-> odd]
Become(s) ==
  /\ px' = s.px /\ wd' = s.wd /\ made' = s.made /\ comp' = s.comp /\ ext' = s.ext /\ inh' = s.inh
  /\ refs' = s.refs /\ grab' = s.grab /\ odd' = s.odd

NoWindow == [there |-> FALSE, doomed |-> FALSE, visible |-> FALSE, handle |-> FALSE, surface |-> 0, owner |-> 0,
             again |-> FALSE]
NoExt    == [alive |-> FALSE, doomed |-> FALSE, proxy |-> FALSE, window |-> 0, handle |-> 0,
             surface |-> 0, opacity |-> 1, mask |-> "none", pending |-> {}]
Plain    == [opacity |-> 1, mask |-> "none"]

Visible(s, p) == s.px[p].window # 0 /\ s.wd[s.px[p].window].visible
\* schedulePolish()
Polish(s, p)  == IF Visible(s, p) THEN [s EXCEPT !.px[p].polish = TRUE] ELSE s
Odd(s, what)  == [s EXCEPT !.odd = @ \cup {what}]
\* What follows for each, in the order in which they were connected.
ForEach(s, S, Op(_, _)) == FoldLeft(Op, s, SetToSortSeq(S, LAMBDA a, b : a < b))

-----------------------------------------------------------------------------
(* HyprlandWindow and BackgroundEffect: an extension e of the proxy e.       *)

\* onWaylandSurfaceCreated(): the protocol object of the extension that the handle names is taken.
SurfaceCreated(s, e) ==
  LET w     == s.ext[e].handle
      n     == s.wd[w].surface
      last  == s.wd[w].owner
      lost  == last # 0 /\ last # e /\ ~s.ext[last].alive
      taken == last \notin {0, e} /\ ~lost /\ s.ext[last].surface # 0
      now   == IF taken THEN s.ext[last].surface ELSE IF s.ext[e].surface # 0 THEN s.ext[e].surface ELSE n
      left  == IF taken THEN [s EXCEPT !.ext[last].surface = s.ext[e].surface] ELSE s
      wants == {f \in {"opacity"} : s.ext[e].opacity # 1} \cup {f \in {"mask"} : s.ext[e].mask # "none"}
      set   == [left EXCEPT !.ext[e] = [@ EXCEPT !.surface = now, !.pending = wants], !.wd[w].owner = e]
      other    == s.comp[now].opacity # 1 /\ "opacity" \notin wants
      inherits == IF taken /\ (other \/ (s.comp[now].mask # "none" /\ "mask" \notin wants))
                  THEN Odd(set, "inherited") ELSE set
  IN IF lost THEN Odd(s, "dangling")
     ELSE IF wants = {} THEN inherits ELSE IF s.ext[e].proxy THEN Polish(inherits, e) ELSE Odd(inherits, "null")

\* onWindowVisibleChanged(): the handle is made if need be.
WindowVisibleChanged(s, e) ==
  LET w   == s.ext[e].window
      has == s.wd[w].handle \/ s.wd[w].visible
      h   == IF has THEN w ELSE 0
      t   == [s EXCEPT !.wd[w].handle = has, !.ext[e].handle = h]
  IN IF h = s.ext[e].handle THEN [s EXCEPT !.wd[w].handle = has]
     ELSE IF h # 0 /\ s.wd[w].surface # 0 THEN SurfaceCreated(t, e) ELSE t

\* onWindowConnected()
WindowConnected(s, e) == WindowVisibleChanged([s EXCEPT !.ext[e].window = s.px[e].window], e)

\* updateVisibleMask(), updateBlurRegion(), and the part of setOpacity() that waits for a polish.
Update(s, e, what) ==
  IF s.ext[e].surface = 0 \/ ~s.ext[e].proxy THEN s
  ELSE Polish([s EXCEPT !.ext[e].pending = @ \cup {what}], e)

\* onWindowPolished()
WindowPolished(s, e) ==
  LET x == s.ext[e]
      n == x.surface
  IN IF n = 0 THEN s
     ELSE [s EXCEPT !.comp[n].opacity = IF "opacity" \in x.pending THEN x.opacity ELSE @,
                    !.comp[n].mask = IF "mask" \in x.pending THEN x.mask ELSE @,
                    !.ext[e].pending = {}]

\* onWaylandSurfaceDestroyed()
Gone(s, e) == IF s.ext[e].proxy \/ s.ext[e].surface # 0 THEN s ELSE [s EXCEPT !.ext[e].doomed = TRUE]
SurfaceDestroyed(s, e) ==
  Gone([s EXCEPT !.ext[e].surface = 0, !.ext[e].pending = IF feature = "blur" THEN {} ELSE @], e)
\* onProxyWindowDestroyed(): it stays until the surface goes, lest a frame is drawn without it.
ProxyWindowDestroyed(s, e) == Gone([s EXCEPT !.ext[e].proxy = FALSE], e)

-----------------------------------------------------------------------------
(* IdleInhibitor and ShortcutInhibitor                                       *)

\* createShortcutsInhibitor() and unrefShortcutsInhibitor(): one object for a surface.
Ref(s, n)   == [s EXCEPT !.refs[n] = @ + 1]
Unref(s, n) == [s EXCEPT !.refs[n] = IF @ = 0 THEN 0 ELSE @ - 1]
\* onWaylandSurfaceCreated(), and qFatal() if there is one already.
Inhibit(s, i) ==
  LET n == s.wd[s.inh[i].handle].surface
      t == [s EXCEPT !.inh[i].on = n]
  IN IF s.inh[i].handle = 0 THEN Odd(s, "null") ELSE IF feature = "idle" THEN t ELSE IF s.inh[i].on # 0 THEN Odd(s, "fatal") ELSE Ref(t, n)
\* onWaylandSurfaceDestroyed()
Release(s, i) ==
  LET t == [s EXCEPT !.inh[i].on = 0]
  IN IF s.inh[i].on = 0 \/ feature = "idle" THEN t ELSE Unref(t, s.inh[i].on)

\* onWindowVisibilityChanged(); the connections to an earlier handle stay.
BackerChanged(s, i) ==
  LET w == s.px[s.inh[i].bound].window
      t == [s EXCEPT !.wd[w].handle = TRUE, !.inh[i].handle = w, !.inh[i].heard = @ \cup {w}]
  IN IF ~Visible(s, s.inh[i].bound) \/ w = s.inh[i].handle THEN s
     ELSE IF s.wd[w].surface # 0 THEN Inhibit(t, i) ELSE t

\* boundWindowChanged(), onBoundWindowChanged(): from one proxy, or 0, to another.
Unbind(s, i) ==
  LET w == s.inh[i].handle
      t == [s EXCEPT !.inh[i].handle = 0, !.inh[i].heard = @ \ {w}]
  IN IF w = 0 THEN s ELSE Release(t, i)
Bound(s, i) == IF s.inh[i].enabled THEN s.inh[i].object ELSE 0
Rebind(s, i) ==
  LET t == [Unbind(s, i) EXCEPT !.inh[i].bound = Bound(s, i)]
  IN IF Bound(s, i) = s.inh[i].bound THEN s ELSE IF Bound(s, i) = 0 THEN t ELSE BackerChanged(t, i)

\* onWindowDestroyed(); a ShortcutInhibitor keeps the pointer to its window.
BoundDestroyed(s, i) ==
  LET t == [s EXCEPT !.inh[i].bound = 0]
  IN IF feature = "idle" THEN [Release(t, i) EXCEPT !.inh[i].object = 0] ELSE Release(t, i)

-----------------------------------------------------------------------------
(* HyprlandFocusGrab and its FocusGrab                                       *)

\* sync()
Sync(s) ==
  IF s.grab.adding = {} THEN s
  ELSE [s EXCEPT !.grab = [@ EXCEPT !.holds = @ \cup s.grab.adding, !.adding = {}, !.active = TRUE]]
\* addWindow(): at once, or when it has a surface, and again with each that follows.
AddWindow(s, w) ==
  IF s.wd[w].surface # 0 THEN [s EXCEPT !.grab.adding = @ \cup {s.wd[w].surface}]
  ELSE [s EXCEPT !.grab.waits = @ \cup {w}]
\* removeWindow(); to remove a surface that is not there ends the connection.
RemoveWindow(s, w) ==
  LET n == s.wd[w].surface
      t == [s EXCEPT !.grab = [@ EXCEPT !.adding = @ \ {n}, !.holds = @ \ {n},
                                        !.waits = IF s.wd[w].handle THEN @ ELSE @ \ {w}]]
  IN IF s.wd[w].handle /\ n = 0 THEN Odd(t, "null") ELSE IF w \in s.grab.waits THEN Odd(t, "waits") ELSE t
\* tryActivate(), setActive(FALSE)
NoGrab == [there |-> FALSE, active |-> FALSE, waits |-> {}, adding |-> {}, holds |-> {}]
AddAll(s, ps) == ForEach(s, {p \in ps : s.px[p].window # 0}, LAMBDA t, p : AddWindow(t, t.px[p].window))
TryActivate(s) ==
  IF ~s.grab.wanted \/ s.grab.there THEN s
  ELSE Sync(AddAll([s EXCEPT !.grab = [NoGrab EXCEPT !.there = TRUE] @@ s.grab], s.grab.list))
Deactivate(s) == [s EXCEPT !.grab = [wanted |-> FALSE] @@ NoGrab @@ s.grab]
\* onProxyConnected()
GrabConnected(s, p) ==
  IF s.grab.there /\ p \in s.grab.list THEN Sync(AddWindow(s, s.px[p].window)) ELSE s
\* The compositor drops a surface that goes.
GrabLoses(s, n) == [s EXCEPT !.grab.holds = @ \ {n}]

-----------------------------------------------------------------------------
(* What happens to a window, and to what is attached to it.                  *)

Listening(s, w) == {e \in Proxies : s.ext[e].alive /\ s.ext[e].handle = w}
Hearing(s, w)   == {i \in Objects : s.inh[i].alive /\ w \in s.inh[i].heard}

Connected(s, p) ==
  LET t == IF s.ext[p].alive THEN WindowConnected(s, p) ELSE s IN GrabConnected(t, p)
MakeWindow(s, p) ==
  LET w == CHOOSE v \in Handles : ~s.wd[v].there
  IN IF s.px[p].window # 0 THEN s
     ELSE Connected([s EXCEPT !.wd[w] = [NoWindow EXCEPT !.there = TRUE], !.px[p].window = w], p)

\* surfaceCreated() of the handle of w.
MakeSurface(s, w) ==
  LET n    == s.made + 1
      t    == [s EXCEPT !.made = n, !.comp[n] = Plain,
                        !.wd[w] = [@ EXCEPT !.handle = TRUE, !.surface = n, !.again = s.wd[w].handle /\ s.wd[w].again]]
      ext1 == ForEach(t, Listening(s, w), SurfaceCreated)
      inh1 == ForEach(t, Hearing(s, w), Inhibit)
  IN CASE feature \in {"opacity", "blur"}   -> ext1
       [] feature \in {"idle", "shortcuts"} -> inh1
       [] feature = "grab"                  -> IF w \in s.grab.waits THEN Sync(AddWindow(t, w)) ELSE t
\* surfaceDestroyed()
DropSurface(s, w) ==
  LET n == s.wd[w].surface
      t == GrabLoses([s EXCEPT !.wd[w].surface = 0, !.wd[w].again = TRUE], n)
  IN IF n = 0 THEN s
     ELSE ForEach(ForEach(t, Listening(s, w), SurfaceDestroyed), Hearing(s, w), Release)

\* bBackerVisibility
SetBacker(s, p, v) ==
  LET t == [s EXCEPT !.px[p].backer = v]
      B == {i \in Objects : s.inh[i].alive /\ s.inh[i].bound = p}
  IN IF s.px[p].backer = v \/ ~v THEN t ELSE ForEach(t, B, BackerChanged)

\* setVisible(TRUE) of the proxy's window, whose visibleChanged() comes before its surface.
ShowWindow(s, p) ==
  LET w == s.px[p].window
      t == [s EXCEPT !.wd[w].visible = TRUE]
  IN IF s.wd[w].visible THEN s
     ELSE MakeSurface(ForEach(t, {e \in Proxies : s.ext[e].alive /\ s.ext[e].window = w}, WindowVisibleChanged), w)
ShowProxy(s, p) == SetBacker(ShowWindow(MakeWindow(s, p), p), p, TRUE)
HideProxy(s, p) ==
  LET w == s.px[p].window
      t == SetBacker(DropSurface([s EXCEPT !.wd[w].visible = FALSE], w), p, FALSE)
  IN IF keeps THEN t ELSE [t EXCEPT !.wd[w].doomed = TRUE, !.px[p].window = 0]

\* The window is deleted: SurfaceAboutToBeDestroyed, and destroyed() of its handle.
HandleDestroyed(s, i) ==
  LET w == s.inh[i].handle
      t == [s EXCEPT !.inh[i].handle = 0]
  IN IF w = 0 \/ s.wd[w].there THEN Odd(t, "early") ELSE t
Forget(s, w) ==
  [s EXCEPT !.wd[w] = NoWindow, !.grab.waits = @ \ {w},
            !.ext = [e \in Proxies |-> [@[e] EXCEPT !.handle = IF @ = w THEN 0 ELSE @,
                                                    !.window = IF @ = w THEN 0 ELSE @]],
            !.inh = [i \in Objects |-> [@[i] EXCEPT !.heard = @ \ {w}]]]
DeleteWindow(s, w) ==
  ForEach(Forget(DropSurface(s, w), w), Hearing(s, w), HandleDestroyed)

-----------------------------------------------------------------------------
Crashes  == {"null", "dangling", "fatal"}
Runs     == odd \cap Crashes = {}
Acts     == Runs /\ surfActs < MaxSurfActs /\ surfActs' = surfActs + 1
Same     == UNCHANGED <<feature, keeps, keys>>
Extends  == feature \in {"opacity", "blur"}
Inhibits == feature \in {"idle", "shortcuts"}
MayMake  == made < MaxSurfaces /\ \E w \in Handles : ~wd[w].there

\* The old configuration, while it awaits its end, shows and hides nothing.
Show(p) ==
  /\ Acts /\ Same /\ px[p].alive /\ ~px[p].retired /\ ~Visible(State, p) /\ MayMake
  /\ Become(ShowProxy(State, p))
Hide(p) ==
  /\ Acts /\ Same /\ Visible(State, p) /\ Become(HideProxy(State, p))

\* Later on: what was told to be deleted is, and a frame is drawn.
LaterWindow(w) ==
  /\ Runs /\ Same /\ wd[w].doomed /\ Become(DeleteWindow(State, w)) /\ UNCHANGED surfActs
LaterExt(e) ==
  /\ Runs /\ Same /\ ext[e].alive /\ ext[e].doomed /\ Become([State EXCEPT !.ext[e] = NoExt])
  /\ UNCHANGED surfActs
Draw(p) ==
  /\ Runs /\ Same /\ px[p].polish
  /\ LET t == [State EXCEPT !.px[p].polish = FALSE]
     IN Become(IF ext[p].alive /\ ext[p].proxy THEN WindowPolished(t, p) ELSE t)
  /\ UNCHANGED surfActs

\* A proxy is made, or replaces the first and takes its window if it wants to be visible.
Extended(s, p, attach) ==
  LET x == [NoExt EXCEPT !.alive = TRUE, !.proxy = TRUE, !.opacity = attach.opacity, !.mask = attach.mask]
      t == [s EXCEPT !.ext[p] = x]
  IN IF ~attach.there THEN s ELSE IF s.px[p].window # 0 THEN WindowConnected(t, p) ELSE t
Took(s, q, p) ==
  IF s.px[p].window = 0 THEN s
  ELSE Connected([s EXCEPT !.px[q].window = s.px[p].window, !.px[p].window = 0], q)
Wishes == [there : {TRUE}, opacity : IF feature = "opacity" THEN {1, 2} ELSE {1}, mask : {"none", "r"}]
Alive  == [alive |-> TRUE, window |-> 0, backer |-> FALSE, polish |-> FALSE, retired |-> FALSE]
Make(wants, attach) ==
  /\ Acts /\ Same /\ ~px[2].alive /\ ~px[2].retired /\ (wants => MayMake)
  /\ LET s == Extended([State EXCEPT !.px[2] = Alive], 2, attach)
     IN Become(IF wants THEN ShowProxy(s, 2) ELSE s)
Reload(wants, attach) ==
  /\ Acts /\ Same /\ ~px[2].alive /\ ~px[2].retired /\ px[1].alive /\ (wants => MayMake)
  /\ LET s == Extended([State EXCEPT !.px[2] = Alive, !.px[1].retired = TRUE], 2, attach)
     IN Become(Odd(IF wants THEN ShowProxy(Took(s, 2, 1), 2) ELSE s, "reloaded"))
Attach(p, attach) ==
  /\ Acts /\ Same /\ Extends /\ px[p].alive /\ ~px[p].retired /\ ~ext[p].alive
  /\ Become(Extended(State, p, attach))

\* ~ProxyWindowBase(), and what is told by destroyed(); with the old generation go its inhibitors.
Destroyed(s, p) ==
  LET t == [s EXCEPT !.px[p] = [Alive EXCEPT !.alive = FALSE, !.retired = TRUE], !.grab.list = @ \ {p},
                     !.wd = [w \in Handles |-> IF w = s.px[p].window THEN [@[w] EXCEPT !.doomed = TRUE] ELSE @[w]]]
      u == IF s.ext[p].alive THEN ProxyWindowDestroyed(t, p) ELSE t
  IN ForEach(u, {i \in Objects : s.inh[i].alive /\ s.inh[i].bound = p}, BoundDestroyed)
Dead(s, i) == [Release(s, i) EXCEPT !.inh[i] = [@ EXCEPT !.alive = FALSE, !.heard = {}, !.handle = 0, !.bound = 0]]
Destroy(p) ==
  /\ Acts /\ Same /\ px[p].alive
  /\ Become(ForEach(Destroyed(State, p),
                    {i \in Objects : inh[i].alive /\ inh[i].object = p /\ px[p].retired}, Dead))

\* setOpacity(), setVisibleMask(), setBlurRegion(), and the end of the region.
SetOpacity(e, v) ==
  /\ Acts /\ Same /\ feature = "opacity" /\ ext[e].alive /\ ext[e].proxy /\ v # ext[e].opacity
  /\ Become(Update([State EXCEPT !.ext[e].opacity = v], e, "opacity"))
SetMask(e, v) ==
  /\ Acts /\ Same /\ Extends /\ ext[e].alive /\ ext[e].proxy /\ v # ext[e].mask
  /\ Become(Update([State EXCEPT !.ext[e].mask = v], e, "mask"))

\* The inhibitors' properties `enabled' and `window', and what the compositor takes back.
SetEnabled(i, v) ==
  /\ Acts /\ Same /\ Inhibits /\ inh[i].alive /\ v # inh[i].enabled
  /\ Become(IF v /\ inh[i].object # 0 /\ ~px[inh[i].object].alive THEN Odd(State, "dangling")
            ELSE Rebind([State EXCEPT !.inh[i].enabled = v], i))
SetWindow(i, p) ==
  /\ Acts /\ Same /\ Inhibits /\ inh[i].alive /\ px[p].alive /\ ~px[p].retired /\ p # inh[i].object
  /\ Become(Rebind([State EXCEPT !.inh[i].object = p], i))
Inactive(n) ==
  /\ Acts /\ Same /\ feature = "shortcuts" /\ refs[n] > 0
  /\ Become(ForEach(State, {i \in Objects : inh[i].on = n},
                    LAMBDA s, i : Rebind([s EXCEPT !.inh[i].enabled = FALSE], i)))

\* setActive(), setWindows() and onGrabCleared().
SetActive(v) ==
  /\ Acts /\ Same /\ feature = "grab" /\ v # grab.wanted
  /\ Become(IF v THEN TryActivate([State EXCEPT !.grab.wanted = TRUE]) ELSE Deactivate(State))
SetWindows(list) ==
  /\ Acts /\ Same /\ feature = "grab" /\ list # grab.list /\ \A p \in list : px[p].alive
  /\ LET gone    == {p \in grab.list \ list : px[p].window # 0}
         removed == ForEach(State, gone, LAMBDA s, p : RemoveWindow(s, s.px[p].window))
         added   == Sync(AddAll(removed, list \ grab.list))
     IN Become([IF grab.there THEN added ELSE State EXCEPT !.grab.list = list])
Cleared ==
  /\ Runs /\ Same /\ feature = "grab" /\ grab.active /\ Become(Deactivate(State)) /\ UNCHANGED surfActs

-----------------------------------------------------------------------------
(* Global shortcuts of one name                                              *)

Others == UNCHANGED <<feature, keeps, px, wd, made, comp, ext, inh, refs, grab>>
\* onPostReload(), registerShortcut()
Registered(k, n) == [keys EXCEPT !.obj[k] = [state |-> "registered", impl |-> n], !.count = @ + 1, !.current = n]
Register(k) ==
  /\ Acts /\ Others /\ feature = "keys" /\ keys.obj[k].state = "made"
  /\ keys' = IF keys.count > 0 THEN Registered(k, keys.current)
             ELSE [Registered(k, keys.next) EXCEPT !.next = @ + 1]
  /\ UNCHANGED odd
\* unregisterShortcut(): how often it is registered then, also after one that never was.
UnregisterShortcut(count) == IF count > 1 THEN count - 1 ELSE 0
DestroyShortcut(k) ==
  /\ Acts /\ Others /\ feature = "keys" /\ keys.obj[k].state # "gone"
  /\ LET left == UnregisterShortcut(keys.count)
     IN keys' = [keys EXCEPT !.obj[k] = [state |-> "gone", impl |-> 0], !.count = left,
                             !.current = IF left = 0 THEN 0 ELSE @]
  /\ odd' = IF keys.obj[k].state = "made" /\ keys.count > 0 THEN odd \cup {"unmade"} ELSE odd

-----------------------------------------------------------------------------
Init ==
  /\ feature \in Features /\ keeps \in BOOLEAN /\ made = 0 /\ surfActs = 0 /\ odd = {}
  /\ px = [p \in Proxies |-> [Alive EXCEPT !.alive = (p = 1)]]
  /\ wd = [w \in Handles |-> NoWindow] /\ comp = [n \in 0 .. MaxSurfaces |-> Plain]
  /\ refs = [n \in 0 .. MaxSurfaces |-> 0]
  /\ \E x \in Wishes : ext = [e \in Proxies |-> IF e = 1 /\ Extends THEN [NoExt EXCEPT !.alive = TRUE, !.proxy = TRUE,
                                                     !.opacity = x.opacity, !.mask = x.mask] ELSE NoExt]
  /\ inh = [i \in Objects |-> [alive |-> Inhibits, enabled |-> FALSE, object |-> IF Inhibits THEN 1 ELSE 0, bound |-> 0,
                               handle |-> 0, heard |-> {}, on |-> 0]]
  /\ grab = [wanted |-> FALSE, list |-> {1}] @@ NoGrab
  /\ keys = [obj |-> [k \in Keys |-> [state |-> "made", impl |-> 0]], count |-> 0, current |-> 0, next |-> 1]

NoAttach == [there |-> FALSE, opacity |-> 1, mask |-> "none"]
Attached == IF Extends THEN Wishes \cup {NoAttach} ELSE {NoAttach}
WindowsNext ==
  \/ \E p \in Proxies :
       \/ Show(p) \/ Hide(p) \/ Draw(p) \/ Destroy(p) \/ LaterExt(p)
       \/ \E x \in Wishes : Attach(p, x)
       \/ \E v \in {1, 2} : SetOpacity(p, v)
       \/ \E v \in {"none", "r"} : SetMask(p, v)
  \/ \E wants \in BOOLEAN, x \in Attached : Make(wants, x) \/ Reload(wants, x)
  \/ \E w \in Handles : LaterWindow(w)
Next ==
  \/ feature # "keys" /\ WindowsNext
  \/ \E i \in Objects : (\E v \in BOOLEAN : SetEnabled(i, v)) \/ (\E p \in Proxies : SetWindow(i, p))
  \/ \E n \in 1 .. MaxSurfaces : Inactive(n)
  \/ \E v \in BOOLEAN : SetActive(v)
  \/ \E list \in SUBSET Proxies : SetWindows(list)
  \/ Cleared
  \/ \E k \in Keys : Register(k) \/ DestroyShortcut(k)

-----------------------------------------------------------------------------
OnSurface(s, p) == IF Visible(s, p) THEN s.wd[s.px[p].window].surface ELSE 0

\* A surface has one protocol object for its opacity or its blur, also while a reload passes it
\* on, and none outlives it; the extension of a proxy that is gone stays only while there is a surface
\* (qml.cpp:206, :237, background_effect/qml.cpp:201).
OneExtension ==
  /\ \A e \in Proxies : ext[e].surface # 0 =>
       (\E w \in Handles : wd[w].surface = ext[e].surface) /\ \A f \in Proxies \ {e} : ext[f].surface # ext[e].surface
  /\ \A e \in Proxies : ext[e].alive /\ ~ext[e].proxy /\ ~ext[e].doomed => wd[ext[e].handle].surface # 0

\* At rest a window that is shown has the opacity, mask and blur that its extension says, unless
\* one that says nothing took over another's (qml.cpp:110, :221, background_effect/qml.cpp:96).
LooksAsWished ==
  \A p \in Proxies : ext[p].alive /\ ext[p].proxy /\ Visible(State, p) /\ ~px[p].polish /\ "inherited" \notin odd =>
    /\ ext[p].surface = OnSurface(State, p)
    /\ comp[ext[p].surface].opacity = ext[p].opacity /\ comp[ext[p].surface].mask = ext[p].mask

\* An inhibitor inhibits on the surface of its window while that is shown, and nowhere else; unless
\* a window was shown again before its last handle went (inhibitor.cpp:105, :31).
InhibitsAsWished ==
  /\ "early" \notin odd => \A i \in Objects : inh[i].alive =>
       inh[i].on = IF Bound(State, i) = 0 \/ ~px[Bound(State, i)].alive THEN 0
                   ELSE IF px[Bound(State, i)].retired THEN inh[i].on ELSE OnSurface(State, Bound(State, i))
  /\ feature = "shortcuts" => \A n \in 1 .. MaxSurfaces : refs[n] = Cardinality({i \in Objects : inh[i].on = n})

\* While it is active the grab holds the surfaces of its windows, but of one that kept its window
\* and was shown again, and no others (grab.cpp:21, :55, focus_grab/qml.cpp:38, :95).
GrabHolds ==
  /\ grab.there => \A p \in grab.list : Visible(State, p) /\ ~wd[px[p].window].again =>
       OnSurface(State, p) \in grab.holds
  /\ odd = {} => grab.holds \subseteq {wd[w].surface : w \in {v \in Handles : wd[v].doomed \/
                                          \E p \in grab.list : px[p].window = v}}

\* All shortcuts that are registered hear the one of the compositor, unless one that never was
\* registered has gone (manager.cpp:15, :34, global_shortcuts/qml.cpp:13).
KeysHear ==
  "unmade" \notin odd => /\ \A k \in Keys : keys.obj[k].state = "registered" => keys.obj[k].impl = keys.current
                         /\ keys.count = Cardinality({k \in Keys : keys.obj[k].state = "registered"})
                         /\ keys.current # 0 <=> keys.count > 0

\* The above, as long as the shell has not crashed.
SurfacesFollow ==
  Runs => OneExtension /\ LooksAsWished /\ InhibitsAsWished /\ GrabHolds /\ KeysHear
=============================================================================
