--------------------------- MODULE PipewireRegistry ---------------------------
(* The connection to the PipeWire daemon and what it tells of its objects, in *)
(* src/src/services/pipewire.  The nodes it says are the default              *)
(* (connection.cpp, core.cpp, registry.cpp, metadata.cpp, defaults.cpp): the  *)
(* daemon may go at any time and come back; the shell waits for its socket.   *)
(* And the links between nodes (registry.cpp, link.cpp and the link and       *)
(* object trackers of qml.cpp): the links from one node to another make a     *)
(* group, which shows the state of one of them; the daemon tells the state of *)
(* a link only while it is bound, and what is bound is counted.  The two      *)
(* share no state.                                                            *)
EXTENDS FiniteSets, FiniteSetsExt, Integers, Sequences, SequencesExt

CONSTANTS
  NodeIds,     \* ids of nodes, which the daemon uses again
  NodeNames,   \* names of nodes
  NoName,      \* an empty name, a null pointer
  MaxWire,     \* bound: messages under way
  MaxTurns,    \* bound: changes the daemon and the shell make
  MaxStarts,   \* bound: times the daemon starts
  Sources,     \* nodes that links come from
  Sinks,       \* nodes that links lead to
  Monitors,    \* sinks of programs that only watch (media.category)
  LinkIds,     \* ids of links, which the daemon uses again
  Nothing,     \* a null pointer
  MaxLinks     \* bound: times a link appears

VARIABLES
  daemon,      \* the daemon: phase, session, nodes by id, metadata, its properties, was it replaced
  stirred,     \* the runtime directory changed and its watcher was not told yet
  wire,        \* what the daemon sent and the shell has not read
  asks,        \* what the shell sent and the daemon has not read
  conn,        \* PwConnection and PwCore: the core, the watcher, the queued error
  reg,         \* PwRegistry: its nodes and metadata, and how far it has come
  defs,        \* PwDefaultTracker: a name and a node by key, the metadata it follows
  turns,       \* bound
  link,        \* PwLink by id: its ends, its references, is it bound, its state
  group,       \* PwLinkGroup by its ends: its references, the link it tracks
  held,        \* PwObjectTracker.objects: links and groups
  linksOf,     \* PwNodeLinkTracker: its node, its groups, did a monitor stop its update
  appeared,    \* bound
  dropped      \* history: groups whose tracked link went before others of it

pwRegistryVars == <<daemon, stirred, wire, asks, conn, reg, defs, turns>>
pwLinkVars == <<link, group, held, linksOf, appeared, dropped>>

\* The sources have the same two keys.
Keys == {"default.audio.sink", "default.configured.audio.sink"}
Configured == "default.configured.audio.sink"

NoNodes    == [i \in NodeIds |-> NoName]
NoDefaults == [k \in Keys |-> NoName]

-----------------------------------------------------------------------------
(* The default tracker.                                                      *)

FindNodeByName(r, name) ==
  LET found == {i \in NodeIds : r.nodes[i] = name}
  IN IF name = NoName \/ found = {} THEN NoName ELSE CHOOSE i \in found : TRUE

\* reset().
NoTracker == [name |-> NoDefaults, node |-> NoDefaults, meta |-> FALSE]

\* onNodeAdded(): a default that has a name and no node takes the new one.
TrackerOnNodeAdded(d, id, name) ==
  [d EXCEPT !.node = [k \in Keys |-> IF @[k] = NoName /\ d.name[k] = name THEN id ELSE @[k]]]

\* Mutant: a default node that goes is kept.
TrackerKeepsNode(d, id) == d
\* onDefaultSinkDestroyed(), onDefaultConfiguredSinkDestroyed().
TrackerOnNodeDestroyed(d, id) ==
  [d EXCEPT !.node = [k \in Keys |-> IF @[k] = id THEN NoName ELSE @[k]]]

\* setDefaultSinkName() and setDefaultSink(), and those of the other key.
SetDefault(d, key, name, node) == [d EXCEPT !.name[key] = name, !.node[key] = node]

\* onMetadataProperty(): also an empty name.
TrackerOnProperty(d, r, key, name) == SetDefault(d, key, name, FindNodeByName(r, name))

-----------------------------------------------------------------------------
(* The daemon (external).  A client that has bound the metadata is told of   *)
(* each of its properties, and of each change.                               *)

Msg(kind, id, name) == [kind |-> kind, id |-> id, name |-> name]

\* The session the shell's messages are about.
Serves == daemon.phase \in {"up", "complete"} /\ conn.core = daemon.session
Bound == Serves /\ daemon.bound

Turn(d, told) ==
  /\ turns < MaxTurns /\ Len(wire) + Len(told) <= MaxWire
  /\ daemon' = d /\ wire' = wire \o told /\ turns' = turns + 1

\* Its first socket is there before it answers, the second one comes after that.
DaemonBinds ==
  /\ daemon.phase = "down" /\ daemon.session < MaxStarts
  /\ daemon' = [daemon EXCEPT !.phase = "bound"] /\ stirred' = TRUE
  /\ UNCHANGED <<wire, asks, conn, reg, defs, turns>>
DaemonListens ==
  /\ daemon.phase = "bound"
  /\ daemon' = [daemon EXCEPT !.phase = "up", !.session = @ + 1, !.meta = TRUE, !.replaced = FALSE]
  /\ UNCHANGED <<stirred, wire, asks, conn, reg, defs, turns>>
DaemonIsComplete ==
  /\ daemon.phase = "up"
  /\ daemon' = [daemon EXCEPT !.phase = "complete"] /\ stirred' = TRUE
  /\ UNCHANGED <<wire, asks, conn, reg, defs, turns>>

\* It ends: what it sent is still read, then the connection fails.
DaemonEnds ==
  /\ daemon.phase \in {"up", "complete"} /\ stirred' = TRUE
  /\ daemon' = [daemon EXCEPT !.phase = "down", !.nodes = NoNodes, !.props = NoDefaults,
                              !.meta = FALSE, !.bound = FALSE]
  /\ asks' = <<>>
  /\ wire' = IF conn.core = daemon.session THEN Append(wire, Msg("error", NoName, NoName)) ELSE wire
  /\ UNCHANGED <<conn, reg, defs, turns>>

\* No two nodes have the same name at a time.
NodeAppears(id, name) ==
  /\ daemon.phase = "complete" /\ daemon.nodes[id] = NoName
  /\ \A i \in NodeIds : daemon.nodes[i] # name
  /\ Turn([daemon EXCEPT !.nodes[id] = name], IF Serves THEN <<Msg("node", id, name)>> ELSE <<>>)
  /\ UNCHANGED <<stirred, asks, conn, reg, defs>>
NodeGoes(id) ==
  /\ daemon.phase = "complete" /\ daemon.nodes[id] # NoName
  /\ Turn([daemon EXCEPT !.nodes[id] = NoName], IF Serves THEN <<Msg("removed", id, NoName)>> ELSE <<>>)
  /\ UNCHANGED <<stirred, asks, conn, reg, defs>>

PropertyChanges(key, name) ==
  /\ daemon.phase = "complete" /\ daemon.meta /\ daemon.props[key] # name
  /\ Turn([daemon EXCEPT !.props[key] = name], IF Bound THEN <<Msg(key, NoName, name)>> ELSE <<>>)
  /\ UNCHANGED <<stirred, asks, conn, reg, defs>>

\* The session manager, whose metadata it is, ends, or is started again.
MetadataGoes ==
  /\ daemon.phase = "complete" /\ daemon.meta
  /\ Turn([daemon EXCEPT !.meta = FALSE, !.bound = FALSE, !.props = NoDefaults, !.replaced = TRUE],
          IF Serves THEN <<Msg("metaRemoved", NoName, NoName)>> ELSE <<>>)
  /\ UNCHANGED <<stirred, asks, conn, reg, defs>>
MetadataComes ==
  /\ daemon.phase = "complete" /\ ~daemon.meta
  /\ Turn([daemon EXCEPT !.meta = TRUE], IF Serves THEN <<Msg("meta", NoName, NoName)>> ELSE <<>>)
  /\ UNCHANGED <<stirred, asks, conn, reg, defs>>

Announced == SelectSeq([i \in 1..Len(SetToSeq(NodeIds)) |->
                          Msg("node", SetToSeq(NodeIds)[i], daemon.nodes[SetToSeq(NodeIds)[i]])],
                       LAMBDA m : m.name # NoName)
Properties == SelectSeq([i \in 1..Len(SetToSeq(Keys)) |->
                          Msg(SetToSeq(Keys)[i], NoName, daemon.props[SetToSeq(Keys)[i]])],
                        LAMBDA m : m.name # NoName)

\* It answers: to get_registry, a bind of the metadata, a sync, and a property that is set.
DaemonReads ==
  /\ asks # <<>> /\ Serves
  /\ LET a == Head(asks)
         d == CASE a.kind = "bind" -> [daemon EXCEPT !.bound = daemon.meta]
                [] a.kind = "set" /\ daemon.bound -> [daemon EXCEPT !.props[Configured] = a.name]
                [] OTHER -> daemon
         told == CASE a.kind = "registry" ->
                        (IF daemon.meta THEN <<Msg("meta", NoName, NoName)>> ELSE <<>>) \o Announced
                   [] a.kind = "bind" /\ daemon.meta -> Properties
                   [] a.kind = "sync" -> <<Msg("done", a.id, NoName)>>
                   [] a.kind = "set" /\ daemon.bound /\ daemon.props # d.props -> <<Msg(Configured, NoName, a.name)>>
                   [] OTHER -> <<>>
     IN /\ Len(wire) + Len(told) <= MaxWire + 3
        /\ daemon' = d /\ wire' = wire \o told
  /\ asks' = Tail(asks) /\ UNCHANGED <<stirred, conn, reg, defs, turns>>

-----------------------------------------------------------------------------
(* The connection.                                                           *)

NoCore == 0
NoRegistry == [nodes |-> NoNodes, meta |-> FALSE, state |-> "SendingObjects", seq |-> 0]

\* PwRegistry::init(): it asks for what there is.
InitRegistry ==
  /\ reg' = [NoRegistry EXCEPT !.seq = 1]
  /\ asks' = <<Msg("registry", 0, NoName), Msg("sync", 1, NoName)>>

\* PwCore::start(): a daemon that does not answer leaves nothing behind.
StartCore ==
  IF daemon.phase \in {"up", "complete"} THEN daemon.session ELSE NoCore

\* beginReconnect() and tryConnect(): the socket is watched until there is a core.
TryConnect ==
  /\ conn' = [core |-> StartCore, watcher |-> StartCore = NoCore, fatal |-> FALSE]
  /\ wire' = <<>>
  /\ IF StartCore # NoCore THEN InitRegistry /\ daemon' = [daemon EXCEPT !.bound = FALSE]
     ELSE reg' = NoRegistry /\ asks' = <<>> /\ UNCHANGED daemon

\* Mutant: after an error the shell only waits for the directory to change.
OnlyWatch ==
  /\ conn.fatal /\ defs' = NoTracker /\ conn' = [core |-> NoCore, watcher |-> TRUE, fatal |-> FALSE]
  /\ reg' = NoRegistry /\ wire' = <<>> /\ asks' = <<>> /\ UNCHANGED <<daemon, stirred, turns>>
\* onFatalError(): everything goes; then beginReconnect() watches, and tries.
OnFatalError ==
  /\ conn.fatal /\ defs' = NoTracker /\ TryConnect
  /\ UNCHANGED <<stirred, turns>>

\* onRuntimeDirChanged().
OnRuntimeDirChanged ==
  /\ stirred /\ stirred' = FALSE
  /\ IF conn.watcher /\ conn.core = NoCore THEN TryConnect
     ELSE UNCHANGED <<daemon, conn, reg, wire, asks>>
  /\ UNCHANGED <<defs, turns>>

-----------------------------------------------------------------------------
(* What is read: PwCore::poll().                                             *)

\* onGlobal(), a node.
OnNode(m) ==
  /\ reg' = [reg EXCEPT !.nodes[m.id] = m.name]
  /\ defs' = TrackerOnNodeAdded(defs, m.id, m.name) /\ UNCHANGED <<asks, conn>>
\* onGlobal(), the metadata: onMetadataAdded() binds it.
OnMetadata ==
  /\ reg' = [reg EXCEPT !.meta = TRUE] /\ defs' = [defs EXCEPT !.meta = TRUE]
  /\ asks' = Append(asks, Msg("bind", 0, NoName)) /\ UNCHANGED conn
\* onGlobalRemoved(): safeDestroy().
OnNodeRemoved(m) ==
  /\ reg' = [reg EXCEPT !.nodes[m.id] = NoName]
  /\ defs' = TrackerOnNodeDestroyed(defs, m.id) /\ UNCHANGED <<asks, conn>>
OnMetadataRemoved ==
  /\ reg' = [reg EXCEPT !.meta = FALSE] /\ defs' = [defs EXCEPT !.meta = FALSE]
  /\ UNCHANGED <<asks, conn>>
OnMetadataProperty(m) ==
  /\ defs' = IF defs.meta THEN TrackerOnProperty(defs, reg, m.kind, m.name) ELSE defs
  /\ UNCHANGED <<reg, asks, conn>>

\* onCoreSync(): twice, so that what the binds brought has been read.
OnCoreSync(m) ==
  /\ IF m.id # reg.seq THEN UNCHANGED <<reg, asks>>
     ELSE CASE reg.state = "SendingObjects" ->
                 /\ reg' = [reg EXCEPT !.state = "Binding", !.seq = @ + 1]
                 /\ asks' = Append(asks, Msg("sync", reg.seq + 1, NoName))
            [] reg.state = "Binding" -> reg' = [reg EXCEPT !.state = "Done"] /\ UNCHANGED asks
            [] OTHER -> UNCHANGED <<reg, asks>>
  /\ UNCHANGED <<defs, conn>>

\* onError(), queueFatalError().
OnError == conn' = [conn EXCEPT !.fatal = TRUE] /\ UNCHANGED <<reg, defs, asks>>

Poll ==
  /\ conn.core # NoCore /\ wire # <<>> /\ wire' = Tail(wire)
  /\ LET m == Head(wire) IN
       CASE m.kind = "node"        -> OnNode(m)
         [] m.kind = "removed"     -> OnNodeRemoved(m)
         [] m.kind = "meta"        -> OnMetadata
         [] m.kind = "metaRemoved" -> OnMetadataRemoved
         [] m.kind = "done"        -> OnCoreSync(m)
         [] m.kind = "error"       -> OnError
         [] OTHER                  -> OnMetadataProperty(m)
  /\ UNCHANGED <<daemon, stirred, turns>>

\* setConfiguredDefault(): only if there is metadata that is bound.
SetConfiguredDefault(name) ==
  /\ defs.meta
  /\ asks' = IF Serves THEN Append(asks, Msg("set", 0, name)) ELSE asks

\* changeConfiguredSinkName(): the name is taken at once, the node when the daemon tells
\* of it.
ChangeConfigured(name) ==
  /\ turns < MaxTurns /\ turns' = turns + 1
  /\ name # defs.name[Configured] /\ SetConfiguredDefault(name)
  /\ defs' = [defs EXCEPT !.name[Configured] = name]
  /\ UNCHANGED <<daemon, stirred, wire, conn, reg>>

-----------------------------------------------------------------------------
\* The shell has found no daemon and waits for one.
Init ==
  /\ daemon = [phase |-> "down", session |-> 0, nodes |-> NoNodes, props |-> NoDefaults,
               meta |-> FALSE, bound |-> FALSE, replaced |-> FALSE]
  /\ stirred = FALSE /\ wire = <<>> /\ asks = <<>> /\ turns = 0
  /\ conn = [core |-> NoCore, watcher |-> TRUE, fatal |-> FALSE]
  /\ reg = NoRegistry /\ defs = NoTracker

Next ==
  \/ DaemonBinds \/ DaemonListens \/ DaemonIsComplete \/ DaemonEnds \/ MetadataGoes \/ MetadataComes
  \/ \E id \in NodeIds : NodeGoes(id) \/ \E name \in NodeNames : NodeAppears(id, name)
  \/ \E key \in Keys, name \in NodeNames \cup {NoName} : PropertyChanges(key, name)
  \/ DaemonReads \/ OnFatalError \/ OnRuntimeDirChanged \/ Poll
  \/ \E name \in NodeNames : ChangeConfigured(name)

-----------------------------------------------------------------------------
\* A default node is one the registry has: pointers do not outlive their nodes, and
\* nothing is left of a connection that is gone (defaults.cpp:33, :229, registry.cpp:137).
DefaultsExist ==
  /\ \A k \in Keys : defs.node[k] # NoName =>
       /\ reg.nodes[defs.node[k]] # NoName
       /\ k # Configured => reg.nodes[defs.node[k]] = defs.name[k]
  /\ conn.core = NoCore => reg = NoRegistry /\ defs = NoTracker
  /\ conn.watcher <=> conn.core = NoCore

\* All that was sent has been read, and nothing waits to be run.
AtRest == wire = <<>> /\ asks = <<>> /\ ~stirred /\ ~conn.fatal

\* At rest the shell is connected to the daemon that runs, has its nodes, and shows for
\* each key the name the metadata has, and the node of that name.  A key that metadata
\* which took the place of others does not have keeps its old name (defaults.cpp:49).
MirrorsDaemon ==
  AtRest /\ daemon.phase = "complete" =>
    /\ conn.core = daemon.session /\ reg.state = "Done" /\ reg.nodes = daemon.nodes
    /\ \A k \in Keys :
         daemon.meta /\ (daemon.replaced => daemon.props[k] # NoName) =>
           /\ defs.name[k] = daemon.props[k]
           /\ defs.node[k] = FindNodeByName(reg, daemon.props[k])

-----------------------------------------------------------------------------
(* Links.                                                                   *)

Ends   == Sources \X Sinks
NoLink == [ends |-> Nothing, refs |-> 0, bound |-> FALSE, state |-> "unlinked"]
NoGroup == [refs |-> 0, tracked |-> Nothing]

Exists(l) == link[l].ends # Nothing
LinksIn(L, g) == {l \in LinkIds : L[l].ends = g}
Groups(L)  == {g \in Ends : LinksIn(L, g) # {}}
Lowest(S)  == CHOOSE l \in S : \A m \in S : l <= m

-----------------------------------------------------------------------------
(* References.  A world w has links and groups.                              *)

World == [link |-> link, group |-> group]

\* PwBindableObject::ref(), unref(): the first one binds, the last one unbinds, which
\* forgets the state.
RefLink(w, l) ==
  [w EXCEPT !.link[l] = [@ EXCEPT !.refs = @ + 1, !.bound = @ \/ w.link[l].refs = 0]]
Unbind(k) == [k EXCEPT !.bound = FALSE, !.state = "unlinked"]
UnrefLink(w, l) ==
  LET k == [w.link[l] EXCEPT !.refs = @ - 1]
  IN [w EXCEPT !.link[l] = IF k.refs = 0 THEN Unbind(k) ELSE k]

\* PwLinkGroup::ref(), unref(): the group holds one of its links.
RefGroup(w, g) ==
  LET first == Lowest(LinksIn(w.link, g))
      t == [w EXCEPT !.group[g].refs = @ + 1]
  IN IF t.group[g].refs # 1 THEN t
     ELSE RefLink([t EXCEPT !.group[g].tracked = first], first)
UnrefGroup(w, g) ==
  LET t == [w EXCEPT !.group[g].refs = @ - 1]
  IN IF w.group[g].refs = 0 THEN w
     ELSE IF t.group[g].refs # 0 THEN t
     ELSE UnrefLink([t EXCEPT !.group[g].tracked = Nothing], w.group[g].tracked)

\* PwLinkIface and PwLinkGroupIface: <<l>> stands for a link, and its ends for a group.
Ref(w, o)   == IF Len(o) = 1 THEN RefLink(w, o[1]) ELSE RefGroup(w, o)
Unref(w, o) == IF Len(o) = 1 THEN UnrefLink(w, o[1]) ELSE UnrefGroup(w, o)

\* PwLinkGroup::state().
StateOf(g) == IF group[g].tracked = Nothing THEN "unlinked" ELSE link[group[g].tracked].state

-----------------------------------------------------------------------------
(* The link tracker.                                                         *)

\* The groups of a node, in the order of the registry (here: that of Ends).
Of(node, L) == {g \in Groups(L) : g[1] = node \/ g[2] = node}

\* updateLinks(): a group that leads to a monitor ends it, and the old list stays.
UpdateLinks(node) ==
  IF \E g \in Of(node, link) : g[2] \in Monitors
  THEN linksOf' = [linksOf EXCEPT !.node = node, !.partial = TRUE]
  ELSE linksOf' = [node |-> node, groups |-> Of(node, link), partial |-> FALSE]

\* setNode().
SetNode(node) ==
  /\ node # linksOf.node
  /\ IF node = Nothing THEN linksOf' = [node |-> Nothing, groups |-> {}, partial |-> FALSE]
     ELSE UpdateLinks(node)
  /\ UNCHANGED <<link, group, held, appeared, dropped>>

\* onLinkGroupCreated(): a new group that leads to a monitor is left out.
OnLinkGroupCreated(g) ==
  linksOf' = IF linksOf.node \in {g[1], g[2]} /\ g[2] \notin Monitors
             THEN [linksOf EXCEPT !.groups = @ \cup {g}] ELSE linksOf

\* onLinkGroupDestroyed().
OnLinkGroupDestroyed(g) == linksOf' = [linksOf EXCEPT !.groups = @ \ {g}]

-----------------------------------------------------------------------------
(* What the daemon tells.                                                    *)

\* onGlobal(), a link: initProps() and addLinkToGroup().
OnLink(l, g) ==
  /\ ~Exists(l) /\ appeared < MaxLinks /\ appeared' = appeared + 1
  /\ link' = [link EXCEPT ![l] = [NoLink EXCEPT !.ends = g]]
  /\ IF g \in Groups(link) THEN UNCHANGED linksOf ELSE OnLinkGroupCreated(g)
  /\ UNCHANGED <<group, held, dropped>>

\* onInfo(): a link that is bound, and its state, "active" or "paused".
OnInfo(l, state) ==
  /\ link[l].bound /\ link[l].state # state
  /\ link' = [link EXCEPT ![l].state = state]
  /\ UNCHANGED <<group, held, linksOf, appeared, dropped>>

\* onGlobalRemoved(), a link: safeDestroy(), PwLinkGroup::onLinkRemoved().  Those that
\* held the link or the group forget it.  The next link is tracked as it is.
OnLinkRemoved(l) ==
  /\ Exists(l)
  /\ LET g    == link[l].ends
         rest == LinksIn(link, g) \ {l}
     IN /\ link' = [link EXCEPT ![l] = NoLink]
        /\ IF rest = {} THEN /\ group' = [group EXCEPT ![g] = NoGroup]
                             /\ held' = held \ {<<l>>, g} /\ dropped' = dropped \ {g}
                             /\ OnLinkGroupDestroyed(g)
           ELSE /\ held' = held \ {<<l>>} /\ UNCHANGED linksOf
                /\ IF group[g].tracked # l THEN UNCHANGED <<group, dropped>>
                   ELSE /\ group' = [group EXCEPT ![g].tracked = Lowest(rest)]
                        /\ dropped' = dropped \cup {g}
  /\ UNCHANGED appeared

\* PwObjectTracker::setObjects(): the new ones are referenced before the old ones are let
\* go.
SetObjects(objects) ==
  /\ objects # held
  /\ LET refd == FoldSet(LAMBDA o, w : Ref(w, o), World, objects)
         left == FoldSet(LAMBDA o, w : Unref(w, o), refd, held)
     IN link' = left.link /\ group' = left.group
  /\ held' = objects /\ UNCHANGED <<linksOf, appeared, dropped>>

-----------------------------------------------------------------------------
InitLinks ==
  /\ link = [l \in LinkIds |-> NoLink] /\ group = [g \in Ends |-> NoGroup]
  /\ held = {} /\ appeared = 0 /\ dropped = {}
  /\ linksOf = [node |-> Nothing, groups |-> {}, partial |-> FALSE]

NextLinks ==
  \/ \E l \in LinkIds : \/ OnLinkRemoved(l)
                        \/ \E g \in Ends : OnLink(l, g)
                        \/ \E s \in {"active", "paused"} : OnInfo(l, s)
  \/ \E objects \in SUBSET (Groups(link) \cup {<<l>> : l \in {k \in LinkIds : Exists(k)}}) : SetObjects(objects)
  \/ \E node \in Sources \cup Sinks \cup {Nothing} : SetNode(node)

-----------------------------------------------------------------------------
\* Groups, held objects and the list of the link tracker exist, and a tracked link is one
\* of its group (link.cpp:174, qml.cpp:283, :474).
PointersHold ==
  /\ \A g \in Ends : group[g].tracked # Nothing => link[group[g].tracked].ends = g
  /\ held \subseteq Groups(link) \cup {<<l>> : l \in {k \in LinkIds : Exists(k)}}
  /\ linksOf.groups \subseteq Groups(link)

\* A link is bound, and thus shows its state, as long as it or its group is held and no
\* longer, and its references are those.  A group whose tracked link went before others
\* of it is left out: the next one is not referenced (link.cpp:180), yet let go of (:147).
HeldIsBound ==
  \A l \in LinkIds : Exists(l) /\ link[l].ends \notin dropped =>
    LET g == link[l].ends
        holds == (held \cap {<<l>>}) \cup (IF group[g].tracked = l THEN {g} ELSE {})
    IN /\ link[l].refs = Cardinality(holds) /\ link[l].bound = (link[l].refs > 0)
       /\ group[g].tracked # Nothing <=> g \in held

\* The link tracker shows the groups of its node, unless one led to a monitor when it was
\* given the node (qml.cpp:216).
ShowsLinks ==
  linksOf.node # Nothing /\ ~linksOf.partial =>
    linksOf.groups = {g \in Of(linksOf.node, link) : g[2] \notin Monitors}
=============================================================================
