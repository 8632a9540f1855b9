----------------------------------- MODULE Ipc ---------------------------------
(* Calls from the command line into a running shell: IpcHandlers and their    *)
(* registry, the server and its connections, clients that call a function,    *)
(* read a property or listen to a signal.                                     *)
(* src/src/ipc/ipc.cpp, src/src/io/ipc.cpp, ipccomm.cpp, ipchandler.cpp.      *)
EXTENDS Naturals, Sequences, FiniteSets, Functions

CONSTANTS
  Gens,       \* engine generations, in their order: 1, 2
  Handlers,   \* IpcHandlers
  GenOf,      \* the generation of each
  Targets,    \* target names
  NoTarget,   \* the empty name
  Clients,    \* processes of the command line
  Function,   \* the signature of the one function handlers declare: a record of params, ret
  Arguments,  \* lists of argument texts that are called with
  MaxIpcActs  \* bound: what the configuration does

VARIABLES
  gens,       \* g_generations
  handler,    \* IpcHandlers
  known,      \* knownHandlers of the registry of a generation
  used,       \* handlers of it: the one that is called for a target
  client,     \* IpcClient and what it does
  conn,       \* IpcServerConnection of a client and its RemoteSignalListener
  wire,       \* responses on their way to a client
  ipcActs,    \* bound
  due,        \* history: signals for a client since it listens
  bunched     \* history: clients that read two responses at once

ipcVars == <<gens, handler, known, used, client, conn, wire, ipcActs, due, bunched>>

NoHandler  == "nohandler"
NoConn     == [there |-> FALSE, input |-> "none", stuck |-> FALSE, listener |-> "none"]
NoCommand  == [kind |-> "none", target |-> NoTarget, entry |-> FALSE, arguments |-> <<>>]
NewHandler == [complete |-> FALSE, enabled |-> TRUE, target |-> NoTarget, registered |-> NoTarget, alive |-> TRUE]

-----------------------------------------------------------------------------
(* Types                                                                     *)

Types == {"void", "string", "int", "bool", "real", "color"}
\* fromString(): the texts of each type.
FromString(type, text) ==
  CASE type = "string" -> TRUE
    [] type = "int"    -> text \in {"0", "12"}
    [] type = "bool"   -> text \in {"true", "false", "0", "12"}
    [] type = "real"   -> text \in {"0", "12", "1.5"}
    [] type = "color"  -> text \in {"red", "#fff", "fff"}
    [] OTHER           -> FALSE
\* resolve(): at most ten parameters, of types that can be called with; any result of no type is void.
Resolves(f) == /\ Len(f.params) <= 10
               /\ \A i \in DOMAIN f.params : f.params[i] \in Types
               /\ f.ret \in Types \cup {"var"}

-----------------------------------------------------------------------------
(* The registry of a generation                                              *)

Registry == [known |-> known, used |-> used]
RegistryBecomes(r) == known' = r.known /\ used' = r.used

RegisterHandler(r, h, t) ==
  LET g == GenOf[h] IN
  [known |-> [r.known EXCEPT ![g][t] = Append(@, h)],
   used  |-> [r.used EXCEPT ![g][t] = IF @ = NoHandler THEN h ELSE @]]
\* removeOne()
RemoveOne(s, x) ==
  LET at    == {i \in DOMAIN s : s[i] = x}
      first == CHOOSE i \in at : \A j \in at : i <= j
  IN IF at = {} THEN s ELSE SubSeq(s, 1, first - 1) \o SubSeq(s, first + 1, Len(s))
\* Mutant: the handlers that wait for the target are not told.
NobodyNext(left) == NoHandler
NextOf(left) == IF left = <<>> THEN NoHandler ELSE Head(left)
DeregisterHandler(r, h, t) ==
  LET g == GenOf[h]  left == RemoveOne(r.known[g][t], h) IN
  [known |-> [r.known EXCEPT ![g][t] = left],
   used  |-> [r.used EXCEPT ![g][t] = IF @ = h THEN NextOf(left) ELSE @]]

\* updateRegistration(), of a handler as it is to be.
UpdateRegistration(h, state) ==
  IF ~state.complete \/ GenOf[h] \notin gens THEN
       /\ handler' = [handler EXCEPT ![h] = state] /\ UNCHANGED <<known, used>>
  ELSE LET r == IF state.registered = NoTarget THEN Registry ELSE DeregisterHandler(Registry, h, state.registered)
           t == IF state.enabled /\ state.target # NoTarget THEN state.target ELSE NoTarget
       IN /\ RegistryBecomes(IF t = NoTarget THEN r ELSE RegisterHandler(r, h, t))
          /\ handler' = [handler EXCEPT ![h] = [state EXCEPT !.registered = t]]

Act == ipcActs < MaxIpcActs /\ ipcActs' = ipcActs + 1
Configures(h) == handler[h].alive /\ GenOf[h] \in gens /\ UNCHANGED <<gens, client, conn, wire, due, bunched>>
SetEnabled(h, e) == /\ Act /\ Configures(h) /\ e # handler[h].enabled
                    /\ UpdateRegistration(h, [handler[h] EXCEPT !.enabled = e])
SetTarget(h, t)  == /\ Act /\ Configures(h) /\ t # handler[h].target
                    /\ UpdateRegistration(h, [handler[h] EXCEPT !.target = t])
OnPostReload(h)  == /\ Configures(h) /\ ~handler[h].complete
                    /\ UpdateRegistration(h, [handler[h] EXCEPT !.complete = TRUE]) /\ UNCHANGED ipcActs
\* ~IpcHandler()
Destroy(h) ==
  /\ Act /\ Configures(h)
  /\ IF handler[h].registered # NoTarget
     THEN UpdateRegistration(h, [handler[h] EXCEPT !.enabled = FALSE, !.alive = FALSE])
     ELSE handler' = [handler EXCEPT ![h].alive = FALSE] /\ UNCHANGED <<known, used>>

\* A reload: for some time there are two generations, and nobody is current.
Reload ==
  /\ Act /\ Cardinality(gens) = 1 /\ \E g \in Gens : (\A x \in gens : g = x + 1) /\ gens' = gens \cup {g}
  /\ UNCHANGED <<handler, known, used, client, conn, wire, due, bunched>>
\* The old one goes, with its handlers and their registry.
OldGoes ==
  /\ Cardinality(gens) = 2 /\ LET g == CHOOSE x \in gens : \A y \in gens : x <= y IN
       /\ gens' = gens \ {g}
       /\ handler' = [h \in Handlers |-> IF GenOf[h] = g THEN [handler[h] EXCEPT !.alive = FALSE, !.registered = NoTarget] ELSE handler[h]]
       /\ known' = [known EXCEPT ![g] = [t \in Targets |-> <<>>]]
       /\ used' = [used EXCEPT ![g] = [t \in Targets |-> NoHandler]]
  /\ UNCHANGED <<client, conn, wire, ipcActs, due, bunched>>

-----------------------------------------------------------------------------
(* Clients                                                                   *)

\* A process connects and sends its command, in one piece or, when it is long, in two.
Send(c, command, pieces) ==
  /\ client[c].state = "idle"
  /\ client' = [client EXCEPT ![c] = [@ EXCEPT !.state = "waiting", !.command = command]]
  /\ conn' = [conn EXCEPT ![c] = [NoConn EXCEPT !.there = TRUE, !.input = IF pieces = 1 THEN "whole" ELSE "part"]]
  /\ UNCHANGED <<gens, handler, known, used, wire, ipcActs, due, bunched>>

\* waitForResponse(), and what is done with the response.
Read(c) ==
  /\ client[c].state = "waiting" /\ wire[c] # <<>>
  /\ LET got == client[c].buffer \o wire[c]
         m   == Head(got)
         goes == client[c].command.kind = "listen" /\ m = "signal"
     IN /\ client' = [client EXCEPT ![c] = [@ EXCEPT !.buffer = Tail(got), !.answer = m, !.heard = IF m = "signal" THEN @ + 1 ELSE @,
                                                     !.state = IF goes THEN "waiting" ELSE "done"]]
        /\ bunched' = IF Len(got) > 1 THEN bunched \cup {c} ELSE bunched
  /\ wire' = [wire EXCEPT ![c] = <<>>]
  /\ UNCHANGED <<gens, handler, known, used, conn, ipcActs, due>>
\* The connection is closed by the shell, or the process ends.
HangUp(c) ==
  /\ client[c].state = "waiting" /\ wire[c] = <<>> /\ (~conn[c].there \/ client[c].command.kind = "listen")
  /\ client' = [client EXCEPT ![c].state = "done"]
  /\ UNCHANGED <<gens, handler, known, used, conn, wire, ipcActs, due, bunched>>

-----------------------------------------------------------------------------
(* The server                                                                *)

\* exec(): what is answered, and nothing yet to one who listens.
Response(command) ==
  LET g == CHOOSE x \in gens : TRUE
      h == IF command.target = NoTarget THEN NoHandler ELSE used[g][command.target]
  IN IF Cardinality(gens) # 1 THEN <<"NoCurrentGeneration">>
     ELSE IF command.kind = "query" /\ command.target = NoTarget THEN <<"Targets">>
     ELSE IF h = NoHandler THEN <<"TargetNotFound">>
     ELSE IF ~command.entry \/ (command.kind = "call" /\ ~Resolves(Function)) THEN <<"EntryNotFound">>
     ELSE IF command.kind = "call" THEN
          IF \/ Len(command.arguments) # Len(Function.params)
             \/ \E i \in DOMAIN command.arguments : ~FromString(Function.params[i], command.arguments[i])
          THEN <<"ArgParseFailed">> ELSE <<"Completed">>
     ELSE IF command.kind \in {"listen", "wait"} THEN <<>> ELSE <<"Value">>

\* onReadyRead(): a command that is not all there leaves the stream in a transaction that failed.
OnReadyRead(c) ==
  /\ conn[c].there /\ conn[c].input \in {"part", "whole"}
  /\ LET r == Response(client[c].command) IN
     IF conn[c].input = "part" THEN conn' = [conn EXCEPT ![c].input = "rest", ![c].stuck = TRUE] /\ UNCHANGED wire
     ELSE /\ wire' = [wire EXCEPT ![c] = @ \o r]
          /\ conn' = [conn EXCEPT ![c] = IF r = <<>> THEN [@ EXCEPT !.input = "none", !.listener = "listens"] ELSE NoConn]
  /\ UNCHANGED <<gens, handler, known, used, client, ipcActs, due, bunched>>
\* The other piece: nothing is read from such a stream.
OnRest(c) ==
  /\ conn[c].there /\ conn[c].input = "rest" /\ conn' = [conn EXCEPT ![c].input = "none"]
  /\ UNCHANGED <<gens, handler, known, used, client, wire, ipcActs, due, bunched>>

\* onDisconnected(), onConnDestroyed(): the connection goes, and the one that listened for it.
OnDisconnected(c) ==
  /\ conn[c].there /\ client[c].state = "done" /\ conn' = [conn EXCEPT ![c] = NoConn]
  /\ UNCHANGED <<gens, handler, known, used, client, wire, ipcActs, due, bunched>>

\* A handler signals: all hear it who listen to its target, in whatever generation.
Listening(h) == {c \in Clients : conn[c].listener = "listens" /\ client[c].command.target = handler[h].registered
                                 /\ client[c].state # "done"}
OnSignalTriggered(h) ==
  /\ Act /\ handler[h].alive /\ handler[h].complete /\ GenOf[h] \in gens
  /\ wire' = [c \in Clients |-> IF c \in Listening(h) THEN Append(wire[c], "signal") ELSE wire[c]]
  /\ due'  = [c \in Clients |-> due[c] + Cardinality({c} \cap Listening(h))]
  /\ UNCHANGED <<gens, handler, known, used, client, conn, bunched>>

Init ==
  /\ gens = {1} /\ ipcActs = 0 /\ bunched = {}
  /\ \E t \in Targets \cup {NoTarget} :
       handler = [h \in Handlers |-> [NewHandler EXCEPT !.target = t]]
  /\ known = [g \in Gens |-> [t \in Targets |-> <<>>]] /\ used = [g \in Gens |-> [t \in Targets |-> NoHandler]]
  /\ client = [c \in Clients |-> [state |-> "idle", command |-> NoCommand, buffer |-> <<>>, answer |-> "", heard |-> 0]]
  /\ conn = [c \in Clients |-> NoConn] /\ wire = [c \in Clients |-> <<>>] /\ due = [c \in Clients |-> 0]

Commands ==
  {[NoCommand EXCEPT !.kind = k, !.target = t, !.entry = e] : k \in {"listen", "wait", "query", "prop"}, t \in Targets, e \in BOOLEAN}
  \cup {[kind |-> "call", target |-> t, entry |-> TRUE, arguments |-> a] : t \in Targets, a \in Arguments}
  \cup {[NoCommand EXCEPT !.kind = "query"]}

Next ==
  \/ \E h \in Handlers : OnPostReload(h) \/ Destroy(h) \/ OnSignalTriggered(h) \/ (\E e \in BOOLEAN : SetEnabled(h, e))
                         \/ (\E t \in Targets \cup {NoTarget} : SetTarget(h, t))
  \/ Reload \/ OldGoes
  \/ \E c \in Clients : Read(c) \/ HangUp(c) \/ OnReadyRead(c) \/ OnRest(c) \/ OnDisconnected(c)
                        \/ (\E command \in Commands, p \in 1..2 : Send(c, command, p))

-----------------------------------------------------------------------------
\* Of the handlers that are there for a target the first to come is called, and there is one
\* to be called while there are handlers, whatever was enabled, renamed or destroyed meanwhile
\* (ipchandler.cpp:364, :380).
RegistryHolds ==
  \A g \in gens, t \in Targets :
    /\ Range(known[g][t]) = {h \in Handlers : handler[h].alive /\ handler[h].complete /\ handler[h].enabled
                                              /\ GenOf[h] = g /\ handler[h].target = t}
    /\ \A i, j \in DOMAIN known[g][t] : known[g][t][i] = known[g][t][j] => i = j
    /\ used[g][t] = IF known[g][t] = <<>> THEN NoHandler ELSE Head(known[g][t])

\* Each command that came in one piece is answered or listened for, and who listens hears every
\* signal of its target, also across a reload, unless two came at once (ipc.cpp:68, ipccomm.cpp:379).
CallersAreServed ==
  \A c \in Clients :
    client[c].state = "waiting" /\ ~conn[c].stuck =>
      /\ conn[c].input = "none" => wire[c] # <<>> \/ conn[c].listener = "listens"
      /\ conn[c].listener = "listens" => due[c] = client[c].heard + Len(client[c].buffer) + Len(wire[c])
      /\ c \notin bunched => client[c].buffer = <<>>

\* Who listens has heard, at rest, every signal.
SignalsAreHeard == \A c \in Clients : client[c].state = "waiting" /\ wire[c] = <<>> => client[c].heard = due[c]
=============================================================================
