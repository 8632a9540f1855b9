------------------------------ MODULE Screencopy -------------------------------
(* A ScreencopyView (src/src/wayland/screencopy, buffer): the context that     *)
(* captures a screen or a toplevel by one of three protocols, the two buffers  *)
(* it has the compositor copy frames into, the graphics device they share, and *)
(* the textures in which the scene graph keeps them.  Left out: orientation,   *)
(* modifiers and planes of buffers, the constraints on the item's size.        *)
EXTENDS Naturals, Sequences, FiniteSets, FiniteSetsExt, SequencesExt

CONSTANTS MaxCapActs   \* what the configuration, the compositor and the devices do

VARIABLES
  setup,    \* what compositor and graphics there are
  origin,   \* the sources: which are there, what they show, and how large they are
  ready,    \* whether the formats of the compositor are known
  view, cap, chain, node,
  mem, devs,
  told,     \* what the compositor has sent
  capActs,
  amok,     \* what has happened that the code does not provide for
  died

captureVars == <<setup, origin, ready, view, cap, chain, node, mem, devs, told, capActs, amok, died>>

Sources == {"screen", "toplevel"}
Regions == {1, 2}
Addrs   == 1 .. 3
MemIds  == 1 .. 5
Blank   == [r \in Regions |-> <<"blank", 0>>]

\* What compositors offer, and in which order the devices that they prefer take which formats.
Offer(device, dma, shm) == [device |-> device, dma |-> dma, shm |-> shm]
Setup(screens, offer, broken, api) == [screens |-> screens, offer |-> offer, broken |-> broken, api |-> api]
Setups == {Setup("icc", Offer(2, <<"other", "xrgb", "argb">>, <<"argb">>), {}, "gl"),
           Setup("wlr", Offer(2, <<"other", "xrgb", "argb">>, <<"argb">>), {1}, "gl"),
           Setup("icc", Offer(1, <<"xrgb">>, <<"argb">>), {1}, "gl"),
           Setup("icc", Offer(1, <<"xrgb">>, <<>>), {1}, "vulkan"),
           Setup("none", Offer(2, <<"other">>, <<>>), {}, "vulkan")}
Tranches == <<[device |-> 1, formats |-> {"argb"}], [device |-> 2, formats |-> {"argb", "xrgb", "other"}],
              [device |-> 1, formats |-> {"xrgb"}]>>
Devices  == {1, 2}

NoBuffer  == [addr |-> 0, mem |-> 0, size |-> 0, how |-> "none", format |-> "none", device |-> 0]
NoChain   == [one |-> NoBuffer, two |-> NoBuffer, second |-> FALSE]
NoTexture == [addr |-> 0, mem |-> 0, how |-> "none", snap |-> Blank]
NoNode    == [there |-> FALSE, one |-> NoTexture, two |-> NoTexture, second |-> FALSE]
NoCap     == [kind |-> "none", source |-> "none", at |-> "none", size |-> 0, pending |-> FALSE, wanted |-> FALSE,
              copied |-> FALSE, oriented |-> TRUE, posted |-> {}, lastDamage |-> {}, snap |-> Blank, gaveUp |-> FALSE]
\* captureFrame() of a context begins with `at': the frame was asked for, its buffer described,
\* then attached, and the compositor has answered.

Acts     == capActs < MaxCapActs /\ capActs' = capActs + 1
Amok(w)  == amok' = amok \cup w
Content  == [r \in Regions |-> <<cap.source, origin.content[r]>>]

-----------------------------------------------------------------------------
(* Buffers (buffer/manager.cpp, dmabuf.cpp, shm.cpp)                         *)

Frontbuffer(c) == IF c.second THEN c.two ELSE c.one
Backbuffer(c)  == IF c.second THEN c.one ELSE c.two
SetBack(c, b) == IF c.second THEN [c EXCEPT !.one = b] ELSE [c EXCEPT !.two = b]
SwapBuffers(c) == [c EXCEPT !.second = ~@]

Compatible(b, req) ==
  CASE b.how = "dma" -> b.size = req.size /\ Contains(req.dma, b.format)
    [] b.how = "shm" -> b.size = req.size /\ Contains(req.shm, b.format)
    [] OTHER         -> FALSE

\* getGbmDevice(), dupHandle() and unrefGbmDevice(): how often a device is held.
GetDevice(d, i) == [d EXCEPT ![i] = @ + 1]
DupHandle(d, i) == [d EXCEPT ![i] = @ + 1]
Unref(d, i)     == IF i = 0 \/ d[i] = 0 THEN d ELSE [d EXCEPT ![i] = @ - 1]

\* ensureSorted() and the first of the formats.
First(formats) ==
  IF Contains(formats, "argb") THEN "argb" ELSE IF Contains(formats, "xrgb") THEN "xrgb" ELSE formats[1]
Taken(t, req)  == SelectSeq(req.dma, LAMBDA f : f \in t.formats)
Tried(req)     == SelectSeq(Tranches, LAMBDA t : req.device \in {0, t.device} /\ Taken(t, req) # <<>>
                                                /\ t.device \notin setup.broken)
\* createDmabuf()
CreateDmabuf(req, d) ==
  LET t == Tried(req)[1] IN
  IF Tried(req) = <<>> THEN [buf |-> NoBuffer, devs |-> d]
  ELSE [buf  |-> [NoBuffer EXCEPT !.size = req.size, !.how = "dma", !.format = First(Taken(t, req)), !.device = t.device],
        devs |-> Unref(DupHandle(GetDevice(d, t.device), t.device), t.device)]
CreateShmbuf(req) ==
  IF req.shm = <<>> THEN NoBuffer ELSE [NoBuffer EXCEPT !.size = req.size, !.how = "shm", !.format = req.shm[1]]
CreateBuffer(req, d) ==
  LET dma == CreateDmabuf(req, d) IN
  IF req.size = 0 THEN [buf |-> NoBuffer, devs |-> d]
  ELSE IF dma.buf # NoBuffer THEN dma ELSE [buf |-> CreateShmbuf(req), devs |-> dma.devs]

\* createBackbuffer(): the new one is made before the old one is deleted, wherever there is room.
InUse(c, n) == {c.one.mem, c.two.mem, n.one.mem, n.two.mem}
Room(c, n)  == LET free  == Addrs \ {c.one.addr, c.two.addr}
                   known == free \cap {n.one.addr, n.two.addr}
               IN known \cup (IF free = known THEN {} ELSE {Min(free \ known)})
Placed(b, addr, c, n) == IF b = NoBuffer THEN b ELSE [b EXCEPT !.addr = addr, !.mem = Min(MemIds \ InUse(c, n))]
Backbuffers(req, n) ==
  IF Compatible(Backbuffer(chain), req) THEN {[chain |-> chain, devs |-> devs, new |-> FALSE]}
  ELSE LET made == CreateBuffer(req, devs)
       IN {[chain |-> SetBack(chain, Placed(made.buf, addr, chain, n)),
            devs |-> Unref(made.devs, Backbuffer(chain).device), new |-> TRUE] : addr \in Room(chain, n)}
\* New memory is blank, as is what nobody has any more.
Kept(c, n) == [m \in MemIds |-> IF m \in InUse(c, n) THEN mem[m] ELSE Blank]
Use(r, n)  == chain' = r.chain /\ devs' = r.devs /\ mem' = Kept(r.chain, n)

-----------------------------------------------------------------------------
(* Contexts (wlr_screencopy, image_copy_capture, hyprland_screencopy)        *)

Request(size) == [size |-> size, device |-> IF cap.kind = "icc" THEN setup.offer.device ELSE 0,
                  dma |-> setup.offer.dma, shm |-> setup.offer.shm]
\* ScreencopyManager::createContext()
KindOf(s) == IF s = "toplevel" THEN "hyprland" ELSE setup.screens

\* IccScreencopyContext::doCapture()
DoCapture(c, n) ==
  \E r \in Backbuffers(Request(c.size), n) :
    /\ Use(r, n)
    /\ cap' = IF Backbuffer(r.chain) = NoBuffer THEN [c EXCEPT !.wanted = FALSE, !.gaveUp = TRUE]
              ELSE [c EXCEPT !.wanted = FALSE, !.at = "attached", !.lastDamage = {}, !.gaveUp = FALSE,
                             !.posted = IF r.new THEN Regions ELSE c.lastDamage]
NoCapture == UNCHANGED <<cap, chain, devs, mem>>
\* captureFrame(), with the node as it is by then.
CaptureFrame(n) ==
  IF cap.kind = "none" \/ cap.at # "none" \/ cap.wanted THEN NoCapture
  ELSE IF cap.kind # "icc" THEN cap' = [cap EXCEPT !.at = "asked"] /\ UNCHANGED <<chain, devs, mem>>
  ELSE IF cap.pending THEN cap' = [cap EXCEPT !.wanted = TRUE] /\ UNCHANGED <<chain, devs, mem>>
  ELSE DoCapture(cap, n)

\* A new context, of which captureFrame() is called.
NewCap(s) ==
  LET k == KindOf(s) IN
  IF k = "none" THEN NoCap
  ELSE [NoCap EXCEPT !.kind = k, !.source = s, !.pending = (k = "icc"), !.wanted = (k = "icc"),
                     !.at = IF k = "icc" THEN "none" ELSE "asked", !.oriented = (k # "wlr")]
Greeting(s) == IF KindOf(s) = "icc" THEN <<[e |-> "constraints", size |-> origin.size], [e |-> "done"]>> ELSE <<>>

\* ScreencopyView::destroyContext() and createContext(), the view becoming v.
Release == Unref(Unref(devs, chain.one.device), chain.two.device)
Cleared(v, update) == [v EXCEPT !.hasContent = FALSE, !.size = 0, !.dirty = @ \/ (update /\ cap.kind # "none")]
DestroyContext(v, update) ==
  /\ view' = Cleared(v, update)
  /\ cap' = NoCap /\ chain' = NoChain /\ devs' = Release /\ told' = <<>> /\ mem' = Kept(NoChain, node) /\ UNCHANGED origin
CreateContext(v) ==
  /\ view' = Cleared(v, FALSE)
  /\ cap' = NewCap(v.source) /\ chain' = NoChain /\ devs' = Release /\ told' = Greeting(v.source)
  /\ origin' = [origin EXCEPT !.changed = Regions] /\ mem' = Kept(NoChain, node)

\* What the compositor sends is handled in order.
Told(e) == told # <<>> /\ Head(told).e = e /\ died = "no"

Constraints ==
  /\ Told("constraints")
  /\ cap' = [cap EXCEPT !.size = Head(told).size, !.pending = TRUE]
  /\ told' = Tail(told)
  /\ UNCHANGED <<setup, origin, ready, view, chain, node, mem, devs, capActs, amok, died>>
Done ==
  /\ Told("done")
  /\ IF cap.wanted THEN DoCapture([cap EXCEPT !.pending = FALSE], node)
     ELSE cap' = [cap EXCEPT !.pending = FALSE] /\ UNCHANGED <<chain, devs, mem>>
  /\ told' = Tail(told)
  /\ UNCHANGED <<setup, origin, ready, view, node, capActs, amok, died>>
\* buffer and linux_dmabuf of the two other protocols, then buffer_done
Described ==
  /\ Told("buffer")
  /\ cap' = [cap EXCEPT !.size = Head(told).size]
  /\ told' = Tail(told)
  /\ UNCHANGED <<setup, origin, ready, view, chain, node, mem, devs, capActs, amok, died>>
BufferDone ==
  /\ Told("buffer_done")
  /\ \E r \in Backbuffers(Request(cap.size), node) :
       /\ Use(r, node)
       /\ cap' = [cap EXCEPT !.at = IF Backbuffer(r.chain) = NoBuffer THEN "asked" ELSE "attached"]
  /\ told' = Tail(told)
  /\ UNCHANGED <<setup, origin, ready, view, node, capActs, amok, died>>

\* The frame is shown: swapBuffers() and ScreencopyView::onFrameCaptured().
Submit(c) ==
  /\ cap' = [c EXCEPT !.at = "none"]
  /\ chain' = SwapBuffers(chain)
  /\ view' = [view EXCEPT !.dirty = TRUE, !.hasContent = TRUE, !.size = Backbuffer(chain).size]
Ready ==
  /\ Told("ready")
  /\ LET c == [cap EXCEPT !.copied = TRUE, !.snap = Head(told).snap, !.posted = {},
                          !.lastDamage = IF cap.kind = "icc" THEN Head(told).damage ELSE {}]
     IN IF cap.oriented THEN Submit(c) ELSE cap' = c /\ UNCHANGED <<chain, view>>
  /\ told' = Tail(told)
  /\ UNCHANGED <<setup, origin, ready, node, mem, devs, capActs, amok, died>>
\* OutputTransformQuery::output_geometry() and updateTransform(), whenever the output says so.
Geometry ==
  LET c == [cap EXCEPT !.oriented = TRUE] IN
  /\ died = "no" /\ cap.kind # "none" /\ ~cap.oriented
  /\ IF cap.copied THEN Submit(c) ELSE cap' = c /\ UNCHANGED <<chain, view>>
  /\ UNCHANGED <<setup, origin, ready, node, mem, devs, told, capActs, amok, died>>
\* failed, and stopped of a session: but for one reason the context goes, and for one the shell.
Failed ==
  /\ Told("failed") /\ LET why == Head(told).why IN
     IF why = "constraints" THEN died' = "constraints" /\ UNCHANGED <<view, cap, chain, devs, told, mem, origin>>
     ELSE /\ UNCHANGED died
          /\ IF why = "stopped" THEN told' = Tail(told) /\ UNCHANGED <<view, cap, chain, devs, mem, origin>>
             ELSE DestroyContext([view EXCEPT !.ended = TRUE], TRUE)
  /\ UNCHANGED <<setup, ready, node, capActs, amok>>
Stopped ==
  /\ Told("stopped") /\ DestroyContext([view EXCEPT !.ended = TRUE], TRUE)
  /\ UNCHANGED <<setup, ready, node, capActs, amok, died>>

-----------------------------------------------------------------------------
(* The compositor                                                            *)

Describe ==
  /\ died = "no" /\ cap.at = "asked" /\ cap.kind # "icc"
  /\ cap' = [cap EXCEPT !.at = "described"]
  /\ told' = told \o <<[e |-> "buffer", size |-> origin.size], [e |-> "buffer_done"]>>
  /\ UNCHANGED <<setup, origin, ready, view, chain, node, mem, devs, capActs, amok, died>>

\* A session's frames wait for the source to change, and only what has changed since the last of
\* them, or was damaged by the client, is copied; the other protocols copy the whole.
Displayed(n) == IF n.second THEN n.two ELSE n.one
Copy ==
  LET back    == Backbuffer(chain)
      changed == IF cap.kind = "icc" THEN origin.changed ELSE Regions
      copied  == changed \cup cap.posted
  IN /\ died = "no" /\ cap.at = "attached" /\ back.size = origin.size /\ changed # {}
     /\ mem' = [mem EXCEPT ![back.mem] = [r \in Regions |-> IF r \in copied THEN Content[r] ELSE @[r]]]
     /\ told' = Append(told, [e |-> "ready", damage |-> changed, snap |-> Content])
     /\ cap' = [cap EXCEPT !.at = "answered"] /\ origin' = [origin EXCEPT !.changed = {}]
     /\ Amok({w \in {"torn"} : node.there /\ Displayed(node).how = "dma" /\ Displayed(node).mem = back.mem})
     /\ UNCHANGED <<setup, ready, view, chain, node, devs, capActs, died>>
CopyFails ==
  LET misfit == Backbuffer(chain).size # origin.size IN
  /\ died = "no" /\ cap.at = "attached" /\ (misfit \/ capActs < MaxCapActs)
  /\ capActs' = IF misfit THEN capActs ELSE capActs + 1
  /\ told' = Append(told, [e |-> "failed", why |-> IF cap.kind = "icc" /\ misfit THEN "constraints" ELSE "unknown"])
  /\ cap' = [cap EXCEPT !.at = "answered"]
  /\ UNCHANGED <<setup, origin, ready, view, chain, node, mem, devs, amok, died>>

Draw(r) ==
  /\ Acts /\ died = "no" /\ cap.kind # "none"
  /\ origin' = [origin EXCEPT !.content[r] = @ + 1, !.changed = @ \cup {r}]
  /\ UNCHANGED <<setup, ready, view, cap, chain, node, mem, devs, told, amok, died>>
\* The source has another size, and a session is told.
Resize(size) ==
  /\ Acts /\ died = "no" /\ size # origin.size
  /\ origin' = [origin EXCEPT !.size = size, !.changed = Regions]
  /\ told' = IF cap.kind = "icc" THEN told \o <<[e |-> "constraints", size |-> size], [e |-> "done"]>> ELSE told
  /\ Amok({w \in {"resized"} : cap.kind = "icc"})
  /\ UNCHANGED <<setup, ready, view, cap, chain, node, mem, devs, died>>
\* The screen or toplevel goes: onScreenDestroyed(), onToplevelDestroyed(), or the session is stopped.
Gone(s) ==
  /\ Acts /\ died = "no" /\ s \in origin.there
  /\ IF cap.source # s THEN origin' = [origin EXCEPT !.there = @ \ {s}] /\ UNCHANGED <<view, cap, chain, devs, told, mem>>
     ELSE IF cap.kind = "icc"
       THEN /\ origin' = [origin EXCEPT !.there = @ \ {s}]
            /\ told' = told \o (IF cap.at = "attached" THEN <<[e |-> "failed", why |-> "stopped"]>> ELSE <<>>)
                            \o <<[e |-> "stopped"]>>
            /\ cap' = [cap EXCEPT !.at = IF @ = "attached" THEN "answered" ELSE @]
            /\ UNCHANGED <<view, chain, devs, mem>>
       ELSE /\ origin' = [origin EXCEPT !.there = @ \ {s}]
            /\ view' = Cleared([view EXCEPT !.ended = TRUE], TRUE)
            /\ cap' = NoCap /\ chain' = NoChain /\ devs' = Release /\ told' = <<>> /\ mem' = Kept(NoChain, node)
  /\ UNCHANGED <<setup, ready, node, amok, died>>
\* Then its object, which the view may no longer show.
SourceDestroyed(s) ==
  /\ died = "no" /\ s \in origin.objs \ origin.there
  /\ IF s \in view.heard THEN /\ view' = Cleared([view EXCEPT !.source = "none"], TRUE)
                              /\ cap' = NoCap /\ chain' = NoChain /\ devs' = Release /\ told' = <<>>
                              /\ mem' = Kept(NoChain, node)
     ELSE UNCHANGED <<view, cap, chain, devs, told, mem>>
  /\ origin' = [origin EXCEPT !.objs = @ \ {s}]
  /\ Amok({w \in {"former"} : s \in view.heard /\ view.source \notin {s, "none"}})
  /\ UNCHANGED <<setup, ready, node, capActs, died>>

-----------------------------------------------------------------------------
(* The view (screencopy/view.cpp)                                            *)

Same == UNCHANGED <<cap, chain, devs, told, mem, origin>>
SetCaptureSource(s) ==
  LET v == [view EXCEPT !.source = s, !.wish = s, !.ended = FALSE, !.heard = @ \cup ({s} \ {"none"})]
      made == s # "none" /\ view.completed /\ KindOf(s) # "none"
  IN /\ Acts /\ died = "no" /\ s # view.source /\ s \in {"none"} \cup origin.there
     /\ IF made THEN CreateContext(v) ELSE DestroyContext(v, TRUE)
     /\ UNCHANGED <<setup, ready, node, amok, died>>
SetPaintCursors ==
  /\ Acts /\ died = "no" /\ view.completed /\ cap.kind # "none" /\ view.source \in origin.there
  /\ CreateContext(view)
  /\ UNCHANGED <<setup, ready, node, amok, died>>
\* captureFrame() of the configuration, and setLive(), which captures when it is turned on.
Hasty == {w \in {"hasty"} : view.dirty /\ view.hasContent}
CaptureNow ==
  /\ Acts /\ died = "no" /\ cap.kind # "none" /\ ~view.live /\ CaptureFrame(node)
  /\ Amok(Hasty)
  /\ UNCHANGED <<setup, origin, ready, view, node, told, died>>
SetLive ==
  /\ Acts /\ died = "no"
  /\ view' = [view EXCEPT !.live = ~@]
  /\ IF view.live THEN NoCapture /\ UNCHANGED amok ELSE CaptureFrame(node) /\ Amok(Hasty)
  /\ UNCHANGED <<setup, origin, ready, node, told, died>>

\* componentComplete(), and onBuffersReady() when the formats are known, or known again.
OnBuffersReady(v) == IF v.source = "none" \/ KindOf(v.source) = "none" THEN view' = v /\ Same ELSE CreateContext(v)
ComponentComplete ==
  /\ died = "no" /\ ~view.built
  /\ IF ready THEN OnBuffersReady([view EXCEPT !.built = TRUE, !.completed = TRUE])
     ELSE view' = [view EXCEPT !.built = TRUE, !.listens = TRUE] /\ Same
  /\ UNCHANGED <<setup, ready, node, capActs, amok, died>>
FeedbackDone ==
  /\ (IF ready THEN Acts ELSE UNCHANGED capActs) /\ died = "no" /\ view.source \in {"none"} \cup origin.there
  /\ ready' = TRUE
  /\ IF view.listens THEN OnBuffersReady([view EXCEPT !.completed = TRUE]) ELSE UNCHANGED view /\ Same
  /\ UNCHANGED <<setup, node, amok, died>>

\* createQsgTexture(): with OpenGL from the memory, with Vulkan only of formats it knows.
VulkanFormats == {"argb", "xrgb"}
Imports(b) == b.how = "shm" \/ setup.api = "gl" \/ b.format \in VulkanFormats
Texture(b) == [addr |-> b.addr, mem |-> b.mem, how |-> b.how, snap |-> mem[b.mem]]
Synced(t)  == IF t.how = "shm" THEN [t EXCEPT !.snap = mem[t.mem]] ELSE t
\* WlBufferQSGDisplayNode::syncSwapchain()
Put(n, second, t) == IF second THEN [n EXCEPT !.second = TRUE, !.two = t] ELSE [n EXCEPT !.second = FALSE, !.one = t]
SyncSwapchain(n) ==
  LET buffer == Frontbuffer(chain)
      t      == IF chain.second THEN n.two ELSE n.one
  IN IF chain.second = n.second /\ t.addr = buffer.addr THEN n
     ELSE Put(n, chain.second, IF t.addr = buffer.addr THEN Synced(t) ELSE Texture(buffer))
Known(n) == (IF chain.second THEN n.two ELSE n.one).addr = Frontbuffer(chain).addr

\* updatePaintNode()
Paint ==
  LET n == [node EXCEPT !.there = TRUE]
      v == [view EXCEPT !.dirty = FALSE]
  IN /\ died = "no" /\ view.dirty /\ UNCHANGED <<setup, origin, ready, told, capActs>>
     /\ IF cap.kind = "none" \/ ~view.hasContent
        THEN node' = NoNode /\ view' = v /\ mem' = Kept(chain, NoNode) /\ UNCHANGED <<cap, chain, devs, amok, died>>
        ELSE IF ~Known(n) /\ ~Imports(Frontbuffer(chain))
        THEN died' = "texture" /\ NoCapture /\ UNCHANGED <<node, view, amok>>
        ELSE /\ node' = SyncSwapchain(n) /\ view' = v /\ UNCHANGED died
             /\ Amok({w \in {"reused"} : Known(n) /\ (IF chain.second THEN n.two ELSE n.one).mem # Frontbuffer(chain).mem})
             /\ IF view.live THEN CaptureFrame(SyncSwapchain(n)) ELSE NoCapture

Init ==
  /\ setup \in Setups
  /\ origin = [there |-> Sources, objs |-> Sources, content |-> [r \in Regions |-> 0], size |-> 1, changed |-> Regions]
  /\ ready = FALSE /\ cap = NoCap /\ chain = NoChain /\ node = NoNode /\ told = <<>>
  /\ view \in {[built |-> FALSE, completed |-> FALSE, listens |-> FALSE, source |-> "screen", wish |-> "screen",
                heard |-> {"screen"}, live |-> live, hasContent |-> FALSE, size |-> 0, dirty |-> FALSE,
                ended |-> FALSE] : live \in BOOLEAN}
  /\ mem = [m \in MemIds |-> Blank] /\ devs = [d \in Devices |-> 0] /\ capActs = 0 /\ amok = {} /\ died = "no"

Next ==
  \/ Constraints \/ Done \/ Described \/ BufferDone \/ Ready \/ Geometry \/ Failed \/ Stopped
  \/ Describe \/ Copy \/ CopyFails
  \/ \E r \in Regions : Draw(r)
  \/ \E size \in {0, 2} : Resize(size)
  \/ \E s \in Sources : Gone(s) \/ SourceDestroyed(s)
  \/ \E s \in Sources \cup {"none"} : SetCaptureSource(s)
  \/ SetPaintCursors \/ CaptureNow \/ SetLive \/ ComponentComplete \/ FeedbackDone \/ Paint

-----------------------------------------------------------------------------
Shown == LET t == Displayed(node) IN IF t.how = "dma" THEN mem[t.mem] ELSE t.snap

\* A frame that is shown is whole, and of the source that is set; when the scene was painted, it
\* shows the last frame, unless another was asked for before it was painted, or a buffer was made
\* where a deleted one had been (manager.cpp:130, image_copy_capture.cpp:114).
ShowsLastFrame ==
  view.hasContent =>
    /\ Frontbuffer(chain) # NoBuffer /\ view.size = Frontbuffer(chain).size
    /\ mem[Frontbuffer(chain).mem] = cap.snap /\ cap.source = view.source
    /\ ~view.dirty /\ amok \cap {"hasty", "reused"} = {} /\ died = "no" => node.there /\ Shown = cap.snap

\* A live view always has a frame under way or to be painted, unless no buffer could be made for it;
\* one without a context shows nothing (view.cpp:171, :112).
LiveGoesOn ==
  /\ view.live /\ cap.kind # "none" /\ ~cap.gaveUp /\ died = "no" =>
       \/ view.dirty \/ cap.at \in {"asked", "attached"} \/ told # <<>>
       \/ cap.at = "answered" /\ cap.copied /\ ~cap.oriented
  /\ cap.kind = "none" /\ ~view.dirty => ~node.there

\* The compositor does not draw into what is on display, unless it was asked to in between.
NotDrawnInto == "torn" \in amok => "hasty" \in amok

\* A view captures the source it has until the compositor ends that, or a former source goes.
SourceIsCaptured ==
  /\ cap.kind # "none" => cap.source = view.source /\ view.source \in origin.objs
  /\ view.source \in origin.there /\ view.completed /\ KindOf(view.source) # "none" /\ ~view.ended => cap.kind # "none"
  /\ "former" \notin amok => view.source = IF view.wish \in origin.objs THEN view.wish ELSE "none"

\* A device is held once by each buffer on it, and the compositor is given one of the size it described.
BuffersFit ==
  /\ \A d \in Devices : devs[d] = Cardinality({b \in {chain.one, chain.two} : b.device = d})
  /\ cap.at = "attached" /\ cap.kind # "icc" => Backbuffer(chain).size = cap.size

\* The shell dies only of a resize that a frame crossed, or of a format that Vulkan does not know.
Survives == (died = "constraints" => "resized" \in amok) /\ (died = "texture" => setup.api = "vulkan")

CaptureHolds == ShowsLastFrame /\ LiveGoesOn /\ NotDrawnInto /\ SourceIsCaptured /\ BuffersFit /\ Survives
=============================================================================
