------------------------------- MODULE Socket -------------------------------
(***************************************************************************)
(* Socket (src/src/io/socket.cpp): a Unix socket the shell connects,       *)
(* disconnects and points at other paths at will, also in a handler of the *)
(* signal that it was disconnected.  QLocalSocket is external: it opens at *)
(* once or later or is refused, and closes at once or, with data left to   *)
(* write, later.  And SocketServer: each generation of a configuration has *)
(* one, which the reload hands the old one, and which listens at a path of *)
(* the file system; whoever closes a listener removes the file there.      *)
(***************************************************************************)
EXTENDS Naturals

CONSTANTS
  SocketPaths,
  NoSocketPath,
  CanRefuse,     \* may a connection be refused?
  LastServer,    \* the SocketServers are those of the generations 1 to LastServer
  MaxServerActs  \* bound on what is done with them

VARIABLES
  path,             \* mPath
  socket,           \* the QLocalSocket: its path and state
  connected, targetConnected, disconnecting,
  dropping,         \* onSocketDisconnected() is emitting connectionStateChanged()
  wished,           \* history: what `connected' was set to last, since a connection
                    \* was closed by the other side
  usual             \* history: none was refused, disconnected while it was opening,
                    \* or asked for again by a handler that already had it

VARIABLES
  srv,              \* the SocketServers
  file,             \* whose listener the file at a path is, 0 when there is no file
  strayed,          \* history: a reload did not hand the old server over, or an old one
                    \* was told to listen again, or at another path
  serverActs

serverVars == <<srv, file, strayed, serverActs>>

socketVars == <<path, socket, connected, targetConnected, disconnecting, dropping, wished, usual>>

NoSocket == [st |-> "none", path |-> NoSocketPath]
None     == socket = NoSocket

-----------------------------------------------------------------------------
\* connectPathSocket() to p with the target t: it returns with the socket open,
\* opening or refused.
ConnectPathSocket(p, t) ==
  \/ /\ socket' = [st |-> "open", path |-> p]
     /\ connected' = TRUE /\ targetConnected' = FALSE /\ disconnecting' = FALSE
     /\ UNCHANGED usual
  \/ /\ socket' = [st |-> "opening", path |-> p]
     /\ targetConnected' = t /\ UNCHANGED <<connected, disconnecting, usual>>
  \/ /\ CanRefuse
     /\ socket' = [st |-> "refused", path |-> p]
     /\ targetConnected' = t /\ usual' = FALSE /\ UNCHANGED <<connected, disconnecting>>

SetPath(p) ==
  /\ connected => disconnecting
  /\ p # path
  /\ path' = p
  /\ IF targetConnected /\ None /\ p # NoSocketPath THEN ConnectPathSocket(p, TRUE)
     ELSE UNCHANGED <<socket, connected, targetConnected, disconnecting, usual>>
  /\ UNCHANGED <<dropping, wished>>

\* Mutant: the target is kept when the socket is being closed.
ConnectWaits ==
  /\ wished' = TRUE
  /\ IF None /\ path # NoSocketPath THEN ConnectPathSocket(path, TRUE) /\ UNCHANGED dropping
     ELSE UNCHANGED <<socket, connected, targetConnected, disconnecting, dropping, usual>>
  /\ UNCHANGED path

\* setConnected(true).
Connect ==
  /\ wished' = TRUE
  /\ IF None /\ path # NoSocketPath THEN ConnectPathSocket(path, TRUE)
     ELSE /\ targetConnected' = TRUE
          /\ usual' = (usual /\ (dropping => None))
          /\ UNCHANGED <<socket, connected, disconnecting>>
  /\ UNCHANGED <<path, dropping>>

\* onSocketDisconnected(), up to its signal.
Disconnected == socket' = NoSocket /\ connected' = FALSE /\ disconnecting' = FALSE /\ dropping' = TRUE

\* setConnected(false).  Of a socket that is open, disconnectFromServer() closes
\* it now or later; of another one, nothing is heard any more.
Disconnect ==
  /\ wished' = FALSE /\ targetConnected' = FALSE
  /\ \/ None \/ disconnecting
     \/ socket.st # "open"
  /\ disconnecting' = (disconnecting \/ ~None)
  /\ usual' = (usual /\ socket.st # "opening")
  /\ UNCHANGED <<path, socket, connected, dropping>>

DisconnectOpen ==
  /\ socket.st = "open" /\ ~disconnecting
  /\ wished' = FALSE /\ targetConnected' = FALSE
  /\ \/ ~dropping /\ Disconnected
     \/ /\ socket' = [socket EXCEPT !.st = "closing"]
        /\ disconnecting' = TRUE
        /\ UNCHANGED <<connected, dropping>>
  /\ UNCHANGED <<path, usual>>

OnSocketConnected ==
  /\ ~dropping /\ socket.st = "opening"
  /\ socket' = [socket EXCEPT !.st = "open"]
  /\ connected' = TRUE /\ targetConnected' = FALSE /\ disconnecting' = FALSE
  /\ UNCHANGED <<path, dropping, wished, usual>>

\* The last data was written, or the other side closes.
OnSocketDisconnected ==
  /\ ~dropping /\ socket.st \in {"open", "closing"}
  /\ Disconnected
  /\ wished' = targetConnected
  /\ UNCHANGED <<path, targetConnected, usual>>

\* The end of onSocketDisconnected(): a socket that a handler has made already is
\* replaced if it is not open yet.
Reconnect ==
  /\ dropping
  /\ dropping' = FALSE
  /\ IF targetConnected /\ path # NoSocketPath THEN ConnectPathSocket(path, TRUE)
     ELSE UNCHANGED <<socket, connected, targetConnected, disconnecting, usual>>
  /\ UNCHANGED <<path, wished>>

-----------------------------------------------------------------------------
Init ==
  /\ path = NoSocketPath /\ socket = NoSocket /\ dropping = FALSE
  /\ connected = FALSE /\ targetConnected = FALSE /\ disconnecting = FALSE
  /\ wished = FALSE /\ usual = TRUE

Next ==
  \/ \E p \in SocketPaths \cup {NoSocketPath} : SetPath(p)
  \/ Connect \/ Disconnect \/ DisconnectOpen
  \/ OnSocketConnected \/ OnSocketDisconnected \/ Reconnect

Spec == Init /\ [][Next]_socketVars

-----------------------------------------------------------------------------
TypeOK ==
  /\ path \in SocketPaths \cup {NoSocketPath}
  /\ socket.path \in SocketPaths \cup {NoSocketPath}
  /\ socket.st \in {"none", "opening", "open", "refused", "closing"}
  /\ {connected, targetConnected, disconnecting, dropping, wished, usual} \subseteq BOOLEAN

\* Between events the socket is on its way to what `connected' was set to last,
\* and `connected' tells what it has come to, wherever in closing and opening it
\* was changed: in the usual case (see `usual').
TargetIsServed ==
  usual /\ ~dropping =>
    /\ connected <=> socket.st \in {"open", "closing"}
    /\ disconnecting <=> socket.st = "closing"
    /\ wished => socket.st # "none" \/ path = NoSocketPath
    /\ ~wished => socket.st \in {"none", "closing"}
    /\ socket.st = "closing" => targetConnected = wished

-----------------------------------------------------------------------------
(* SocketServer *)

Servers == 1..LastServer

\* `wanted' is what `active' was set to last; `excused' that listening failed since, or that the
\* handler was set after it.
NewServer == [life |-> "none", active |-> FALSE, activeTarget |-> FALSE, mPath |-> NoSocketPath,
              activePath |-> NoSocketPath, handler |-> FALSE, clients |-> 0, wanted |-> FALSE,
              excused |-> FALSE]

ServerActs == serverActs < MaxServerActs /\ serverActs' = serverActs + 1
Activatable(s) == ~s.active /\ s.life = "served" /\ s.activeTarget /\ s.mPath # NoSocketPath /\ s.handler

\* disableServer(): the connections' sockets go, and the file, whose ever it is by now.
Disabled(s) == [s EXCEPT !.active = FALSE, !.clients = 0]
FileRemoved(s, f) == IF s.active THEN [f EXCEPT ![s.activePath] = 0] ELSE f

\* enableServer() of server i, now s, if it can be, among these servers and files: what is at the
\* path is removed; listening may fail, and then disableServer() also removes what is by now at
\* the path that was its before.
EnableIfActivatable(i, s, servers, files) ==
  IF ~Activatable(s) THEN srv' = [servers EXCEPT ![i] = s] /\ file' = files
  ELSE \E listens \in BOOLEAN :
         /\ srv' = [servers EXCEPT ![i] = [s EXCEPT !.active = listens, !.activeTarget = FALSE,
                                                   !.activePath = s.mPath, !.excused = ~listens]]
         /\ file' = [p \in SocketPaths |-> IF p = s.mPath THEN IF listens THEN i ELSE 0
                                           ELSE IF ~listens /\ p = s.activePath THEN 0 ELSE files[p]]

\* A generation is loaded: its server has the properties the configuration gives it.
CreateServer(i, wants, p, handles) ==
  /\ ServerActs
  /\ srv[i].life = "none" /\ (i > 1 => srv[i - 1].life = "served")
  /\ srv' = [srv EXCEPT ![i] = [NewServer EXCEPT !.life = "made", !.activeTarget = wants, !.wanted = wants,
                                                 !.mPath = p, !.handler = handles]]
  /\ UNCHANGED <<file, strayed>>

\* onReload(): with the old instance it stops the old listener before it starts its own.
OnReload(i, matched) ==
  /\ ServerActs
  /\ srv[i].life = "made" /\ (matched => i > 1)
  /\ LET old == srv[i - 1]
         s == [srv[i] EXCEPT !.life = "served"]
     IN IF matched THEN EnableIfActivatable(i, s, [srv EXCEPT ![i - 1] = Disabled(old)], FileRemoved(old, file))
                   ELSE EnableIfActivatable(i, s, srv, file)
  /\ strayed' = (strayed \/ (i > 1 /\ ~matched))

\* ~SocketServer(), of the old generation.
DestroyServer(i) ==
  /\ srv[i].life = "served" /\ i < LastServer /\ srv[i + 1].life = "served"
  /\ srv' = [srv EXCEPT ![i] = [NewServer EXCEPT !.life = "gone"]]
  /\ file' = FileRemoved(srv[i], file)
  /\ UNCHANGED <<strayed, serverActs>>

Superseded(i) == \E j \in Servers : j > i /\ srv[j].life = "served"
Strays(i)  == strayed' = (strayed \/ (Superseded(i) /\ file' # file))
Live(i) == ServerActs /\ srv[i].life \in {"made", "served"}

\* setActive().
SetServerActive(i, active) ==
  LET s == [srv[i] EXCEPT !.activeTarget = active, !.wanted = active, !.excused = @ /\ srv[i].active]
  IN /\ Live(i)
     /\ IF active = s.active THEN srv' = [srv EXCEPT ![i] = s] /\ UNCHANGED file
        ELSE IF active THEN EnableIfActivatable(i, s, srv, file)
        ELSE srv' = [srv EXCEPT ![i] = Disabled(s)] /\ file' = FileRemoved(s, file)
     /\ Strays(i)

\* setPath(), which an active server does not follow.
SetServerPath(i, p) ==
  /\ Live(i) /\ p # srv[i].mPath
  /\ EnableIfActivatable(i, [srv[i] EXCEPT !.mPath = p], srv, file)
  /\ Strays(i)

\* setHandler(): nothing is started.
SetHandler(i, handles) ==
  /\ Live(i) /\ handles # srv[i].handler
  /\ srv' = [srv EXCEPT ![i].handler = handles, ![i].excused = @ \/ srv[i].activeTarget]
  /\ UNCHANGED <<file, strayed>>

\* onNewConnection() of whose file a client finds at the path: without a handler that ends the
\* shell; a handler that makes no Socket drops the connection.
OnNewConnection(p, handled) ==
  /\ ServerActs
  /\ file[p] # 0 /\ srv[file[p]].handler
  /\ srv[file[p]].clients < 2
  /\ srv' = IF handled THEN [srv EXCEPT ![file[p]].clients = @ + 1] ELSE srv
  /\ UNCHANGED <<file, strayed>>

InitServers ==
  /\ srv = [i \in Servers |-> NewServer] /\ file = [p \in SocketPaths |-> 0]
  /\ strayed = FALSE /\ serverActs = 0

NextServers ==
  \/ \E i \in Servers, p \in SocketPaths \cup {NoSocketPath} :
       \/ \E wants, handles \in BOOLEAN : CreateServer(i, wants, p, handles)
       \/ SetServerPath(i, p)
  \/ \E i \in Servers, b \in BOOLEAN : OnReload(i, b) \/ SetServerActive(i, b) \/ SetHandler(i, b)
  \/ \E i \in Servers : DestroyServer(i)
  \/ \E p \in SocketPaths, b \in BOOLEAN : OnNewConnection(p, b)

\* A server listens only where its file is, however servers and their generations follow each
\* other, if each reload hands the server over and no old one is started again. It listens if its
\* generation is the last and it was told to, has a path and a handler, and could; and not if it
\* was told not to.
ServerIsServed ==
  /\ \A i \in Servers : srv[i].active /\ ~strayed => file[srv[i].activePath] = i
  /\ \A p \in SocketPaths : file[p] # 0 => srv[file[p]].active /\ srv[file[p]].activePath = p
  /\ \A i \in Servers :
       /\ srv[i].active => srv[i].wanted
       /\ /\ srv[i].life = "served" /\ ~Superseded(i)
          /\ srv[i].wanted /\ srv[i].mPath # NoSocketPath /\ srv[i].handler /\ ~srv[i].excused
          => srv[i].active
=============================================================================
