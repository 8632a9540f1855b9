--------------------------- MODULE StatusNotifier ---------------------------
(***************************************************************************)
(* The system tray (src/src/services/status_notifier/): a host that shows  *)
(* the items a StatusNotifierWatcher knows, and a watcher of its own that  *)
(* serves when no other program's does.  Items are announced to whoever    *)
(* owns the watcher's name.  Everything reaches the shell by one           *)
(* connection, in the order in which the bus sent it.  The bus, the        *)
(* applications with the items and the other programs' watchers are        *)
(* external.                                                               *)
(***************************************************************************)
EXTENDS Naturals, Sequences, FiniteSets

CONSTANTS
  Apps,       \* applications
  TrayItems,  \* their items: <<application, n>>
  MaxInbox    \* bound: messages and answers on their way to the shell, beyond which
              \* nothing is sent that it did not ask for

VARIABLES
  owner,      \* of org.kde.StatusNotifierWatcher: "none", "ours" or "other"
  alive,      \* applications that run
  registry,   \* items announced to the owner
  items,      \* StatusNotifierWatcher.items of ours, a list of different ones
  watched,    \* applications whose end the bus reports to it
  watching,   \* and those it has asked the bus to report
  inbox,
  asked,      \* requests for RegisteredStatusNotifierItems on their way
  mItems,     \* StatusNotifierHost.mItems: the tray has those that answer a GetAll
  orderly     \* history: no application was dropped with two items, or ended before
              \* the bus knew that it was watched

trayVars == <<owner, alive, registry, items, watched, watching, inbox, asked, mItems, orderly>>

App(i)   == i[1]
ItemsOf(a) == {i \in TrayItems : App(i) = a}
Msg(kind, about) == [kind |-> kind, about |-> about]
ElementsOf(s)    == {s[k] : k \in DOMAIN s}

\* Some order in which the items of a set are told of.
Each(kind, set) ==
  LET about == {Msg(kind, i) : i \in set}
  IN {s \in [1..Cardinality(set) -> about] : ElementsOf(s) = about}

Room == Len(inbox) + asked < MaxInbox

-----------------------------------------------------------------------------
(* The bus, the applications and the other watchers *)

Launch(a) ==
  /\ a \notin alive
  /\ alive' = alive \cup {a}
  /\ UNCHANGED <<owner, registry, items, watched, watching, inbox, asked, mItems, orderly>>

Announce(i) ==
  /\ Room /\ App(i) \in alive /\ owner # "none" /\ i \notin registry
  /\ registry' = registry \cup {i}
  /\ inbox' = Append(inbox, Msg(IF owner = "ours" THEN "call" ELSE "registered", i))
  /\ UNCHANGED <<owner, alive, items, watched, watching, asked, mItems, orderly>>

Ends(a) ==
  /\ Room /\ a \in alive
  /\ alive' = alive \ {a}
  /\ registry' = registry \ ItemsOf(a)
  /\ IF owner = "other"
     THEN \E told \in Each("unregistered", registry \cap ItemsOf(a)) : inbox' = inbox \o told
     ELSE inbox' = IF a \in watched THEN Append(inbox, Msg("died", a)) ELSE inbox
  /\ orderly' = (orderly /\ a \notin watching)
  /\ UNCHANGED <<owner, items, watched, watching, asked, mItems>>

OtherComes ==
  /\ Room /\ owner = "none"
  /\ owner' = "other" /\ registry' = {}
  /\ inbox' = Append(inbox, Msg("came", "other"))
  /\ UNCHANGED <<alive, items, watched, watching, asked, mItems, orderly>>

OtherGoes ==
  /\ Room /\ owner = "other"
  /\ owner' = "none" /\ registry' = {}
  /\ inbox' = Append(inbox, Msg("gone", "other"))
  /\ UNCHANGED <<alive, items, watched, watching, asked, mItems, orderly>>

\* Without an owner the answer is an error.
OtherAnswers ==
  /\ asked > 0
  /\ asked' = asked - 1
  /\ inbox' = IF owner = "other" THEN Append(inbox, Msg("reply", registry)) ELSE inbox
  /\ UNCHANGED <<owner, alive, registry, items, watched, watching, mItems, orderly>>

Watches(a) ==
  /\ a \in watching
  /\ watching' = watching \ {a} /\ watched' = watched \cup {a}
  /\ UNCHANGED <<owner, alive, registry, items, inbox, asked, mItems, orderly>>

-----------------------------------------------------------------------------
(* The shell, with the next message *)

Next_(kind) == inbox # <<>> /\ Head(inbox).kind = kind
About       == Head(inbox).about

\* StatusNotifierHost::onItemRegistered() of these: an item must answer the call
\* that looks for its owner.
Registered(set) == mItems' = mItems \cup {i \in set : App(i) \in alive}

\* The watcher's end comes to the watcher, which tries to take its name, and to
\* the host, which drops its items.
OnWatcherUnregistered ==
  /\ Next_("gone")
  /\ mItems' = {}
  /\ IF owner = "none"
     THEN owner' = "ours" /\ inbox' = Append(Tail(inbox), Msg("came", "ours"))
     ELSE UNCHANGED owner /\ inbox' = Tail(inbox)
  /\ UNCHANGED <<alive, registry, items, watched, watching, asked, orderly>>

\* connectToWatcher(): ours has no items yet when its name is registered.
OnWatcherRegistered ==
  /\ Next_("came")
  /\ asked' = IF owner = "ours" THEN asked ELSE asked + 1
  /\ inbox' = Tail(inbox)
  /\ UNCHANGED <<owner, alive, registry, items, watched, watching, mItems, orderly>>

\* The signal comes back to the host by the bus.
RegisterStatusNotifierItem ==
  /\ Next_("call")
  /\ IF About \in items \/ App(About) \notin alive
     THEN inbox' = Tail(inbox) /\ UNCHANGED <<items, watching>>
     ELSE /\ items' = items \cup {About}
          /\ watching' = watching \cup ({App(About)} \ watched)
          /\ inbox' = Append(Tail(inbox), Msg("registered", About))
  /\ UNCHANGED <<owner, alive, registry, watched, asked, mItems, orderly>>

\* Mutant: the watch on the application is kept off the list of items.
ServiceUnregisteredKeeps ==
  /\ Next_("died")
  /\ inbox' = Tail(inbox)
  /\ watched' = watched \ {About} /\ watching' = watching \ {About}
  /\ UNCHANGED <<owner, alive, registry, items, asked, mItems, orderly>>

\* Only one of an application's items is told of; that it is the last in the list is left out.
OnServiceUnregistered ==
  /\ Next_("died")
  /\ LET gone == items \cap ItemsOf(About)
     IN /\ items' = items \ gone
        /\ IF gone = {} THEN inbox' = Tail(inbox)
           ELSE \E last \in gone : inbox' = Append(Tail(inbox), Msg("unregistered", last))
        /\ orderly' = (orderly /\ \A i, j \in gone : i = j)
  /\ watched' = watched \ {About} /\ watching' = watching \ {About}
  /\ UNCHANGED <<owner, alive, registry, asked, mItems>>

OnItemRegistered ==
  /\ \/ Next_("registered") /\ Registered({About})
     \/ Next_("reply")      /\ Registered(About)
  /\ inbox' = Tail(inbox)
  /\ UNCHANGED <<owner, alive, registry, items, watched, watching, asked, orderly>>

OnItemUnregistered ==
  /\ Next_("unregistered")
  /\ mItems' = mItems \ {About}
  /\ inbox' = Tail(inbox)
  /\ UNCHANGED <<owner, alive, registry, items, watched, watching, asked, orderly>>

-----------------------------------------------------------------------------
Init ==
  /\ owner \in {"ours", "other"}
  /\ asked = IF owner = "other" THEN 1 ELSE 0
  /\ alive = {} /\ registry = {} /\ items = {} /\ watched = {} /\ watching = {}
  /\ inbox = <<>> /\ mItems = {} /\ orderly = TRUE

Shell ==
  \/ OnWatcherUnregistered \/ OnWatcherRegistered
  \/ RegisterStatusNotifierItem \/ OnServiceUnregistered
  \/ OnItemRegistered \/ OnItemUnregistered

Next ==
  \/ \E a \in Apps : Launch(a) \/ Ends(a) \/ Watches(a)
  \/ \E i \in TrayItems : Announce(i)
  \/ OtherComes \/ OtherGoes \/ OtherAnswers
  \/ Shell

Spec == Init /\ [][Next]_trayVars

-----------------------------------------------------------------------------
TypeOK ==
  /\ owner \in {"none", "ours", "other"} /\ alive \subseteq Apps
  /\ watched \cup watching \subseteq Apps /\ watched \cap watching = {}
  /\ registry \cup items \cup mItems \subseteq TrayItems
  /\ asked \in Nat /\ orderly \in BOOLEAN

\* When everything was delivered the tray has the items that were announced to
\* the present watcher and none of an application that has ended, whichever
\* watchers and applications came and went: in the orderly case (see `orderly').
TrayIsCurrent ==
  orderly /\ inbox = <<>> /\ asked = 0 =>
    registry \subseteq mItems /\ \A i \in mItems : App(i) \in alive

\* So it should be in any case.
NoDeadItems ==
  inbox = <<>> /\ watching = {} => \A i \in mItems : App(i) \in alive
=============================================================================
