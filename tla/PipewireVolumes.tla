---------------------------- MODULE PipewireVolumes ----------------------------
(* Volumes of audio nodes: node.cpp and device.cpp of                        *)
(* src/src/services/pipewire.  The volume of a node of a sound card is that  *)
(* of a route of its device, which nodes share: after a change is sent the   *)
(* device must answer before the next one is.  Other nodes have a volume of  *)
(* their own.                                                                *)
EXTENDS Integers, Sequences, SequencesExt

CONSTANTS
  OnDevice,    \* routes of the device, numbers: each is that of a node
  Alone,       \* nodes without a device, other numbers
  Volumes,     \* volumes as shown, small numbers
  Step,        \* the step of the device: smaller changes are not sent
  None,        \* an empty list, an unknown route
  MaxSets,     \* bound: volumes that are set, here or by others
  MaxBinds     \* bound: times a node is bound

VARIABLES
  daemonVolumes,  \* volumes the daemon has, by node
  subscribed,     \* objects the daemon knows to be bound
  out,            \* what the daemon sent and was not read
  in,             \* what the shell sent and was not read
  node,           \* PwNode and PwNodeBoundAudio
  device,         \* PwDevice
  sets, binds,    \* bounds
  forgotten       \* history: a volume that waited was taken for one that was sent before

pwVolumeVars == <<daemonVolumes, subscribed, out, in, node, device, sets, binds, forgotten>>

Nodes == OnDevice \cup Alone
Card  == 0     \* the device, where a message names an object

NoNode == [bound |-> FALSE, ready |-> FALSE, syncing |-> FALSE, route |-> None, shown |-> None,
           server |-> None, sent |-> None, waiting |-> None]
Msg(kind, obj, v) == [kind |-> kind, obj |-> obj, v |-> v]

\* Volumes are shown as the cube root of what the daemon has.
Cubed(v)       == v * v * v
ParseSpaPod(x) == CHOOSE v \in Volumes : Cubed(v) = x

\* Handlers work on what the shell has and what it sends.
World == [node |-> node, device |-> device, in |-> in, forgotten |-> forgotten]
Send(w, m) == [w EXCEPT !.in = Append(@, m)]

-----------------------------------------------------------------------------
(* The node.                                                                 *)

\* shouldUseDevice(): once the route of the node and those of the device are known.
ShouldUseDevice(w, n) == n \in OnDevice /\ w.node[n].route # None /\ n \in w.device.routes

\* updateVolumeProps().
UpdateVolumeProps(w, n, x) ==
  [w EXCEPT !.node[n].server = ParseSpaPod(x), !.node[n].shown = ParseSpaPod(x)]

\* onDeviceChanged(): the volume the device is known to have.
LoadKnown(w, n) ==
  IF w.device.volumes[n] = None THEN w ELSE UpdateVolumeProps(w, n, w.device.volumes[n])

\* PwNode::onInfo(): the route, with the volume the device is known to have; then the
\* properties are asked for, and a sync, after which the node is ready.
OnNodeInfo(w, n) ==
  LET routed == IF n \in Alone THEN w ELSE LoadKnown([w EXCEPT !.node[n].route = n], n)
      asked  == Send(routed, Msg("enumNode", n, None))
  IN IF w.node[n].ready \/ w.node[n].syncing THEN asked
     ELSE [Send(asked, Msg("sync", n, None)) EXCEPT !.node[n].syncing = TRUE]

OnCoreSync(w, n) ==
  IF w.node[n].syncing THEN [w EXCEPT !.node[n] = [@ EXCEPT !.ready = TRUE, !.syncing = FALSE]] ELSE w

\* onSpaParam().
OnSpaParam(w, n, x) == IF ShouldUseDevice(w, n) THEN w ELSE UpdateVolumeProps(w, n, x)

\* PwDevice::setVolumes(), setRouteProps().
SetRoute(w, n, v) == Send(w, Msg("setRoute", n, Cubed(v)))

\* onDeviceReady(): what waited is sent, unless it is what was sent last.
OnDeviceReady(w, n) ==
  LET v == w.node[n].waiting
      t == [w EXCEPT !.node[n].waiting = None]
  IN IF v = None THEN w
     ELSE IF v = w.node[n].sent
          THEN [t EXCEPT !.forgotten = @ \/ v # w.node[n].server]
     ELSE SetRoute([t EXCEPT !.node[n] = [@ EXCEPT !.sent = v, !.shown = v]], n, v)

-----------------------------------------------------------------------------
(* The device.                                                               *)

NoDevice == [bound |-> FALSE, waiting |-> FALSE, responded |-> FALSE, staging |-> {}, routes |-> {},
             volumes |-> [r \in OnDevice |-> None]]

\* PwDevice::onInfo(): the routes are asked for.
OnDeviceInfo(w) ==
  Send([w EXCEPT !.device = [@ EXCEPT !.staging = {}, !.responded = FALSE]], Msg("enumRoutes", Card, None))

\* PwDevice::onParam(): the first answer lets the nodes send what waited.
Answered(w) ==
  LET t == [w EXCEPT !.device = [@ EXCEPT !.responded = TRUE, !.waiting = FALSE]]
  IN IF w.device.responded THEN w
     ELSE IF ~w.device.waiting THEN t
     ELSE FoldLeft(OnDeviceReady, t, SetToSeq(OnDevice))

\* addDeviceIndexPairs(), onDeviceVolumesChanged().
OnRoute(w, r, x) ==
  LET t == [Answered(w) EXCEPT !.device = [@ EXCEPT !.staging = @ \cup {r}, !.routes = @ \cup {r},
                                                    !.volumes[r] = x]]
  IN IF t.node[r].bound /\ ShouldUseDevice(t, r) THEN UpdateVolumeProps(t, r, x) ELSE t

\* polled(): routes that are no longer told of go.
Polled(w) ==
  IF w.device.bound /\ w.device.staging # {}
  THEN [w EXCEPT !.device.routes = @ \cap w.device.staging] ELSE w

-----------------------------------------------------------------------------
(* What is read and done.                                                    *)

Read(w, m) ==
  CASE m.kind = "nodeInfo"   -> OnNodeInfo(w, m.obj)
    [] m.kind = "nodeParam"  -> OnSpaParam(w, m.obj, m.v)
    [] m.kind = "deviceInfo" -> OnDeviceInfo(w)
    [] m.kind = "route"      -> OnRoute(w, m.v[1], m.v[2])
    [] m.kind = "done"       -> OnCoreSync(w, m.obj)

Becomes(w) ==
  node' = w.node /\ device' = w.device /\ in' = w.in /\ forgotten' = w.forgotten

\* PwCore::poll(): what has arrived so far.
Poll(k) ==
  /\ k \in 1..Len(out)
  /\ Becomes(Polled(FoldLeft(Read, World, SubSeq(out, 1, k))))
  /\ out' = SubSeq(out, k + 1, Len(out))
  /\ UNCHANGED <<daemonVolumes, subscribed, sets, binds>>

\* PwNode::bindHooks(): the device first.
Bind(n) ==
  /\ ~node[n].bound /\ binds < MaxBinds /\ binds' = binds + 1
  /\ node' = [node EXCEPT ![n].bound = TRUE]
  /\ device' = IF n \in OnDevice THEN [device EXCEPT !.bound = TRUE] ELSE device
  /\ in' = in \o (IF n \in OnDevice /\ ~device.bound THEN <<Msg("bind", Card, None)>> ELSE <<>>)
              \o <<Msg("bind", n, None)>>
  /\ UNCHANGED <<daemonVolumes, subscribed, out, sets, forgotten>>

\* PwNode::unbindHooks(), onUnbind(), PwDevice::unbindHooks(): what was sent to objects
\* that are let go is not read any more.
Unbind(n) ==
  /\ node[n].bound
  /\ node' = [node EXCEPT ![n] = NoNode]
  /\ LET last == n \in OnDevice /\ \A o \in OnDevice \ {n} : ~node[o].bound
         gone == {n} \cup (IF last THEN {Card} ELSE {})
     IN /\ device' = IF last THEN [NoDevice EXCEPT !.volumes = device.volumes] ELSE device
        /\ subscribed' = subscribed \ gone
        /\ out' = SelectSeq(out, LAMBDA m : m.obj \notin gone)
        /\ in' = SelectSeq(in, LAMBDA m : m.obj \notin gone \/ m.kind \in {"setNode", "setRoute"})
  /\ UNCHANGED <<daemonVolumes, sets, binds, forgotten>>

\* Only a change that the device can tell from what it has is sent.
Significant(n, v) == node[n].server = None \/ v = 0 \/ v - node[n].server \notin (1 - Step)..(Step - 1)

\* setVolumes().
SetVolumes(n, v) ==
  LET w     == World
      shown == [w EXCEPT !.node[n].shown = v]
  IN /\ node[n].bound /\ node[n].shown \notin {None, v} /\ sets < MaxSets /\ sets' = sets + 1
     /\ Becomes(
          IF ~ShouldUseDevice(w, n) THEN Send(shown, Msg("setNode", n, Cubed(v)))
          ELSE IF device.waiting THEN [shown EXCEPT !.node[n].waiting = v]
          ELSE IF ~Significant(n, v) THEN shown
          ELSE SetRoute([shown EXCEPT !.node[n].sent = v, !.device.waiting = TRUE], n, v))
     /\ UNCHANGED <<daemonVolumes, subscribed, out, binds>>

-----------------------------------------------------------------------------
(* The daemon (external).                                                    *)

\* It tells of changes to those that have bound the object.
Told(n) ==
  IF n \in Alone THEN IF n \in subscribed THEN <<Msg("nodeInfo", n, None)>> ELSE <<>>
  ELSE IF Card \in subscribed THEN <<Msg("deviceInfo", Card, None)>> ELSE <<>>

SetByOthers(n, v) ==
  /\ daemonVolumes[n] # Cubed(v) /\ sets < MaxSets /\ sets' = sets + 1
  /\ daemonVolumes' = [daemonVolumes EXCEPT ![n] = Cubed(v)] /\ out' = out \o Told(n)
  /\ UNCHANGED <<subscribed, in, node, device, binds, forgotten>>

DaemonReads ==
  /\ in # <<>> /\ in' = Tail(in)
  /\ LET m == Head(in)
         changes == m.kind \in {"setNode", "setRoute"} /\ daemonVolumes[m.obj] # m.v
     IN /\ subscribed' = IF m.kind = "bind" THEN subscribed \cup {m.obj} ELSE subscribed
        /\ daemonVolumes' = IF changes THEN [daemonVolumes EXCEPT ![m.obj] = m.v] ELSE daemonVolumes
        /\ out' = out \o
             CASE m.kind = "bind" -> <<Msg(IF m.obj = Card THEN "deviceInfo" ELSE "nodeInfo", m.obj, None)>>
               [] m.kind = "enumNode" -> <<Msg("nodeParam", m.obj, daemonVolumes[m.obj])>>
               [] m.kind = "enumRoutes" ->
                    [i \in DOMAIN SetToSeq(OnDevice) |->
                       Msg("route", Card, <<SetToSeq(OnDevice)[i], daemonVolumes[SetToSeq(OnDevice)[i]]>>)]
               [] m.kind = "sync" -> <<Msg("done", m.obj, None)>>
               [] changes -> Told(m.obj)
               [] OTHER -> <<>>
  /\ UNCHANGED <<node, device, sets, binds, forgotten>>

-----------------------------------------------------------------------------
Init ==
  /\ daemonVolumes = [n \in Nodes |-> Cubed(0)] /\ subscribed = {} /\ out = <<>> /\ in = <<>>
  /\ node = [n \in Nodes |-> NoNode] /\ device = NoDevice
  /\ sets = 0 /\ binds = 0 /\ forgotten = FALSE

Next ==
  \/ \E k \in {1, Len(out)} : Poll(k)      \* bound: one message or all
  \/ DaemonReads
  \/ \E n \in Nodes : \/ Bind(n) \/ Unbind(n)
                      \/ \E v \in Volumes : SetVolumes(n, v) \/ SetByOthers(n, v)

-----------------------------------------------------------------------------
\* A device is bound while one of its nodes is, and only then waits for an answer; a
\* volume waits only for a device (node.cpp:108, :130, device.cpp:46).
WaitsForDevice ==
  /\ device.bound <=> \E n \in OnDevice : node[n].bound
  /\ device.waiting => device.bound
  /\ \A n \in Nodes : node[n].waiting # None => device.waiting

Near(v, w) == v - w \in (1 - Step)..(Step - 1)

\* At rest a node that is bound is ready and shows the volume the daemon has, or, on a
\* device, one so near that it was not sent (node.cpp:489).  Two cases are left out: a
\* device that was sent what it had already does not answer and is waited for
\* (device.cpp:199), and a volume that waits is dropped if it was sent before, though the
\* device has had another one since (node.cpp:546).
ShowsVolumes ==
  out = <<>> /\ in = <<>> /\ ~device.waiting /\ ~forgotten =>
    \A n \in Nodes : node[n].bound =>
      /\ node[n].ready /\ node[n].shown # None
      /\ \/ Cubed(node[n].shown) = daemonVolumes[n]
         \/ n \in OnDevice /\ Near(node[n].shown, ParseSpaPod(daemonVolumes[n]))
=============================================================================
