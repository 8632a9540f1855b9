------------------------------ MODULE ObjectsMC ------------------------------
(* Objects a configuration works with, for TLC: the list model, the parser   *)
(* of streams, the child process, the socket and its server, the session     *)
(* lock, the tray, the properties of another program's object and those of a *)
(* JSON file.  They share no state: a behaviour explores one of them, and    *)
(* the others stay in their initial states.                                  *)
EXTENDS Integers, Sequences

CONSTANTS Explored, Items, MaxItems, Bytes, Markers, MaxStream, MaxPart,
          Commands, NoCommand, CanFail, MaxOutput, SocketPaths, NoSocketPath, CanRefuse,
          LastServer, MaxServerActs,
          Locks, Screens, MaxUnlocks, Apps, AppWithTwo, MaxInbox,
          Properties, Values, Unset, MaxMessages,
          Numbers, MaxJsonActs

\* Markers are byte strings; the generations of servers are numbered.
ASSUME MarkersAreBytes == Markers \subseteq Seq(Bytes)
ASSUME ServersAreNumbered == LastServer \in Nat
\* Numbers has those that the documents have, and nothing else that a document may have for one.
ASSUME NumbersAreValues == {"1", "2"} \subseteq Numbers /\ Numbers \cap {"none", "null", "bare", "broken"} = {}

VARIABLES which,
  values, newValues, iter, newIter, busy, view,
  splitMarker, markerChanged, buffer, read, stream, switched,
  isPostReload, command, targetRunning, process, parser, output, step, announced, failed,
  path, socket, connected, targetConnected, disconnecting, dropping, wished, usual,
  srv, file, strayed, serverActs,
  locks, active, screens, session, unlocking, end, wish, plain,
  owner, alive, registry, items, watched, watching, inbox, asked, mItems, orderly,
  remote, calls, signals, local, refused,
  props, text, fview, told, last, missed, jsonActs

\* Two entries with one key that differ in what else they say, and three others.
ListItems == {<<"a", 0>>, <<"a", 1>>, <<"b", 0>>, <<"c", 0>>, <<"d", 0>>}
\* "There must not be any duplicates in the given list".
Lists   == {s \in UNION {[1..n -> Items] : n \in 0..MaxItems} :
              \A i, j \in DOMAIN s : i # j => s[i][1] # s[j][1]}
\* One byte, two bytes, two equal bytes, and none.
ShortMarkers == {<<"m">>, <<"m", "n">>, <<"m", "m">>, <<>>}
\* One application has two items.
TrayItems == {<<a, 1>> : a \in Apps} \cup {<<AppWithTwo, 2>>}

\* Both keys, null, an object of whatever kind without the other, one key, and no object.
Documents == {[p |-> k[1], sub |-> k[2]] : k \in {<<"1", "1">>, <<"2", "null">>, <<"none", "bare">>,
                                                  <<"none", "2">>, <<"broken", "broken">>}}

Model   == INSTANCE ScriptModel
Parser  == INSTANCE SplitParser
Process == INSTANCE Process
Socket  == INSTANCE Socket
Lock    == INSTANCE SessionLock
Tray    == INSTANCE StatusNotifier
Mirror  == INSTANCE DBusProperties
Adapter == INSTANCE JsonAdapter

modelVars   == <<values, newValues, iter, newIter, busy, view>>
parserVars  == <<splitMarker, markerChanged, buffer, read, stream, switched>>
processVars == <<isPostReload, command, targetRunning, process, parser, output, step, announced, failed>>
socketVars  == <<path, socket, connected, targetConnected, disconnecting, dropping, wished, usual>>
serverVars  == <<srv, file, strayed, serverActs>>
lockVars    == <<locks, active, screens, session, unlocking, end, wish, plain>>
trayVars    == <<owner, alive, registry, items, watched, watching, inbox, asked, mItems, orderly>>
mirrorVars  == <<remote, calls, signals, local, refused>>
adapterVars == <<props, text, fview, told, last, missed, jsonActs>>
streamVars  == <<parserVars, processVars, socketVars, serverVars>>
otherVars   == <<lockVars, trayVars, mirrorVars, adapterVars>>
vars == <<which, modelVars, streamVars, otherVars>>

Init == /\ which \in Explored
        /\ Model!Init /\ Process!Init /\ Socket!Init /\ Socket!InitServers /\ Parser!Init
        /\ Lock!Init /\ Tray!Init /\ Mirror!Init /\ Adapter!Init
        /\ which # "parser" => splitMarker = <<"m">> /\ ~markerChanged
        /\ which # "tray"   => owner = "ours"
        /\ which # "mirror" => \A p, q \in Properties : remote[p] = remote[q]
        /\ which # "adapter" => text = Adapter!Broken /\ props = [p |-> "1", sub |-> "own", v |-> "1"]

\* One part steps, and the others are as they were.
Streams ==
  /\ UNCHANGED <<which, modelVars, otherVars>>
  /\ \/ which = "parser"  /\ Parser!Next  /\ UNCHANGED <<processVars, socketVars, serverVars>>
     \/ which = "process" /\ Process!Next /\ UNCHANGED <<parserVars, socketVars, serverVars>>
     \/ which = "socket"  /\ Socket!Next  /\ UNCHANGED <<parserVars, processVars, serverVars>>
     \/ which = "server"  /\ Socket!NextServers /\ UNCHANGED <<parserVars, processVars, socketVars>>
Others ==
  /\ UNCHANGED <<which, streamVars>>
  /\ \/ which = "model"   /\ Model!Next   /\ UNCHANGED otherVars
     \/ which = "lock"    /\ Lock!Next    /\ UNCHANGED <<modelVars, trayVars, mirrorVars, adapterVars>>
     \/ which = "tray"    /\ Tray!Next    /\ UNCHANGED <<modelVars, lockVars, mirrorVars, adapterVars>>
     \/ which = "mirror"  /\ Mirror!Next  /\ UNCHANGED <<modelVars, lockVars, trayVars, adapterVars>>
     \/ which = "adapter" /\ Adapter!Next /\ UNCHANGED <<modelVars, lockVars, trayVars, mirrorVars>>
Next == Streams \/ Others

Spec == Init /\ [][Next]_vars

-----------------------------------------------------------------------------
\* The properties of the modules, stated there.

\* The variables keep their types (ScriptModel, SplitParser, Process, Socket, SessionLock,
\* StatusNotifier, DBusProperties); the row operations of the list model give a view its rows.
ObjectsHold ==
  /\ Model!TypeOK /\ Model!ViewFollows
  /\ Parser!TypeOK /\ Process!TypeOK /\ Socket!TypeOK
  /\ Lock!TypeOK /\ Tray!TypeOK /\ Mirror!TypeOK
\* A stream is split at its markers, however it is cut into parts, if no marker
\* follows another directly.
SplitsExactly == Parser!SplitsExactly
\* A child process that is wanted is started, `running' tells of it, and the parser it was started
\* with hears all it writes; and what is set in properties of a file is saved, while others write it.
WishIsServed == Process!WishIsServed /\ Process!OutputIsHeard /\ (which = "adapter" => Adapter!AdapterHolds)
\* A socket goes where its `connected' was set, and a server listens where and when it was told to.
TargetIsServed == Socket!TargetIsServed /\ Socket!ServerIsServed
\* The session is unlocked only for an object that holds its lock and was told to.
NeverExposed == Lock!NeverExposed
\* One object holds the session's lock, with a surface on every screen, as long as
\* the session is locked.
SessionIsOperable == Lock!SessionIsOperable
\* Locking a second object does nothing.
NeverAborts == Lock!NeverAborts
\* What is set in properties of a file is saved, also if others are set after it.
EverySetIsSaved == Adapter!EverySetIsSaved
\* At rest the tray has the items announced and none of an application that ended.
TrayIsCurrent == Tray!TrayIsCurrent
\* At rest a property shows the value of the program whose it is.
MirrorsRemote == Mirror!MirrorsRemote
=============================================================================
