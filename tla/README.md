# Quickshell in TLA+

A verification development for the `quickshell` source tree in `src/`: TLA+ models of the
parts of the program that keep state across callbacks, threads and processes, TLC instances
that check them, and TLAPS proofs of the invariants that carry them.

Paths below are relative to the repository (`src/src/...` is the C++ code). `map` in `PROJECT.json`
names, for each stretch of the source that is modelled, the definitions that stand for it; a small helper
whose lines are named by the definition that uses it is not listed again.

## Inventory

Quickshell is a toolkit for desktop shells. One process loads a QML configuration, and everything
that QML calls runs on that process's main thread. What makes its own logic hard is that a signal
runs QML *before the function that emits it has returned*, so that a handler can call back into an
object that is half way through a change; that results come later, from the event loop, pool
threads, child processes, D-Bus or the compositor, in an order nobody fixed; and that a reload
replaces all objects of the configuration while old ones still wait to be deleted.

The components, with their lines (`.cpp` and `.hpp`), the state they keep, what they do and with
whom, what is hard about it, and what makes them correct. `PROJECT.json` lists each one with its
sources and what is left out of its model.

### Modelled, all but what the notes of `PROJECT.json` leave out

| component | state | operations, partners | hard | correct means |
|---|---|---|---|---|
| `FileView` (`io/`, 1160) | target path, content, the live operation | reads and writes in pool threads, `waitForJob()`, a file watcher, handlers of `loaded()`/`saved()` | cancelled operations that go on, queued results that outlive them, blocking calls within handlers | operations are serial, every write is announced once, a view at rest shows its file, an atomic write is all or nothing |
| `RootWrapper`, `EngineGeneration` (`core/`, 830) | the current generation, generations on their way out, exit requests | soft and hard reload, `Qt.exit()`, kill request | reload within a reload, deferred deletion of roots | no pointer to a deleted generation, one configuration at rest, an exit request ends the program |
| `Reloadable`, `PostReloadHook` (`core/reload`, 290) | whether reloaded, whether the hook ran | `onReload()`, `postReload()` of a generation, timers of late objects | objects made while or after their generation finishes | each is served, and hooks of a soft reload find the old tree gone |
| PAM client (`services/pam`, 955) | conversation, question on display, child process and pipes | `start()`, `abort()`, `respond()`; the child | aborted children that live on, restarts from handlers, a child that dies | no child is lost, `active` is true to a child, answers reach their question |
| greetd client (`services/greetd`, 489) | session state, buffered request | requests and replies that do not name each other | cancelling and creating in one breath | the shell is told it may launch only if somebody was authenticated |
| Polkit agent (`services/polkit`, 1346) | queue of requests, active flow, sessions | the daemon, the helper, the user | a second request, cancellation from both sides | one flow at a time, each request is answered once |
| Notification server (`services/notifications`, 1223; `core/retainable`) | id map, list, retained notifications and their locks | `Notify`, `CloseNotification`, dismissal, reload | closing from handlers, retention of what is closed | list and id map agree, one `NotificationClosed`, closed ones that are locked are kept |
| `ScriptModel` (`core/scriptmodel`, 290) | values | a new list becomes row operations that views apply | rows of later operations are relative to earlier ones | the view has the model's rows at every operation |
| `SplitParser` (`io/datastream`, 270) | buffer, marker | bytes of a process or socket, in parts | a marker cut in two, empty chunks, a new marker | every chunk once |
| `JsonAdapter` (`io/jsonadapter`, 379) | properties, sub-objects it made | `FileView`: a load sets properties, a change of one may be written | a change while the file is read or written | at rest properties and file agree, what was set last is kept |
| `Process` (`io/process`, 580) | wanted and actual process, its output and parser | the system, `running`, `command`, `exec()` | toggling before the end of the last one and in its handlers, parsers exchanged in between | ends up running iff wanted, its output reaches its parser |
| `Socket`, `SocketServer` (`io/socket`, 390) | socket, target, closing; the listener and its file | the peer, `connected`, `path`; the next generation's server | reconnecting while it closes; two servers, one file | ends up where it was told to be |
| session lock (`wayland/session_lock`, 960) | lock of each object, the one of the session, surfaces | the compositor, screens, reload | unlocking re-entered by its own signal, destruction | the session is never exposed, and can be unlocked by whoever locked it |
| tray (`services/status_notifier`, 1330) | items of the watcher and of the host | applications, other watchers | watchers that take over, applications that end before they are watched | the tray has what is announced and nothing dead |
| D-Bus properties (`dbus/properties`, 680) | one bindable per property | `Get`, `GetAll`, `Set`, `PropertiesChanged` | writes, changes and invalidations that cross | at rest a property shows the program's value |
| PipeWire (`services/pipewire`, 4356) | connection; nodes, links, metadata; default nodes; volumes | registry events, `SetParam`, metadata, trackers that bind | a daemon that goes and comes back, ids used again, a device that is busy | no pointer outlives its node, what is bound is what is held, at rest the daemon's nodes, defaults, links and volumes are shown |
| MPRIS (`services/mpris`, 1181) | player, position and when it was heard | `PropertiesChanged`, `Seeked`, setters | a position nobody tells of as it goes on | at rest the position is the player's, however long it played |
| UPower, power profiles (`services/upower`, 1143) | devices and which are ready; the profile | start of the daemon, `EnumerateDevices`, signals, `Set` | devices that come and go while asked | what is listed is ready, there and listed once |
| NetworkManager (`network`, 2826) | devices, access points, connections, networks | paths that come and go, each asked for its properties | several objects make up one network, in any order | at rest each network has its access points and connections; security never looks better than it is |
| Bluetooth and the object manager (`bluetooth`, `dbus/objectmanager`, 1328) | adapters, devices, their interfaces | `GetManagedObjects`, `InterfacesAdded/Removed`, calls | answers that cross signals | lists agree with each other and with BlueZ |
| D-Bus menus (`dbus/dbusmenu`, `core/qsmenu`, 1181) | items, their objects, who has it open | `GetLayout`, `LayoutUpdated`, `ItemsPropertiesUpdated` | layouts that overtake changes, shared objects | no list shows a deleted item, at rest the menu is the program's |
| `ObjectModel` (`core/model`, 188) | a list | rows in and out, `diffUpdate()` | - | (used by the modules above) |
| Hyprland (`wayland/hyprland/ipc`, 2093) | monitors, workspaces, windows, what is focused | events and answers on two sockets | objects named before they are announced, answers older than events | no dangling pointer, at rest the compositor's lists |
| i3, Sway (`x11/i3/ipc`, 1328) | workspaces, outputs, focus | requests and events on one socket | focus against lists that are asked for | as above |
| foreign toplevels (`wayland/toplevel_management`, 786) | handles, lists, the active one | state in parts until `done` | the activated one told before or after the deactivated one | what is listed is ready and there |
| workspaces (`wayland/windowmanager`, `windowmanager`, 1107) | handles, windowsets, projections, screens | groups and workspaces in batches until `done`, requests and their commit | objects removed between batches, outputs without a screen | at any time the last batch is shown |
| windows (`window`, `wlr_layershell`, 3033) | proxy, backing window, visibility wished and actual | reload that hands windows on, screens, popups | handlers in the middle of a hand-over, configure and acknowledge | one proxy per window, shown iff wanted |
| surface extensions, inhibitors, grab, shortcuts (`wayland/hyprland`, `background_effect`, `idle_inhibit`, `shortcuts_inhibit`, 2433) | the protocol object of each surface | surfaces that come and go with visibility, reload | objects that outlive a window, references | each protocol object is on the surface its window has now |
| screen copying, buffers (`wayland/screencopy`, `wayland/buffer`, 3019) | context, two buffers, device, textures | three protocols, `constraints`, `ready`, `failed`, the scene graph | a resize or an end that crosses a frame, textures that outlive buffers | what is shown is a whole frame of the source, a live view goes on |
| live reload (`core/scan`, `core/toolsupport`, part of `generation`, 680) | files, hashes, watcher, links of the tooling | notices of files and directories, scan, compilation, `watchFiles` | files that change during a reload, editors that replace them | at rest the configuration is that of the files, or the last attempt failed on them |
| `LazyLoader`, `BoundComponent`, incubation, `Variants` (`core`, 1247) | incubator, targets, instances | `active`, `loading`, `item`, reload, windows' frames | activation against deactivation and failure | wanted iff there, one instance for each value, nothing incubates for ever |
| `Retainable` (`core/retainable`, 325) | hook and its references | locks, `dropped()`, deletion | locks switched, moved and destroyed | destroyed when unlocked and not before |
| desktop entries (`core/desktopentry*`, 1028) | entries by id, a scan in a pool thread | the directory monitor, its timer | a change during a scan | at rest the entries are those of the files |
| IPC (`ipc`, `io/ipc*`, 2087) | handlers by target and generation, connections | calls, properties, listeners of other processes | a reload between call and answer | the first handler answers, each caller is served |
| log (`core/logging*`, `ringbuf`, 1736) | ring of messages, the file, the reader | threads, another process that follows | encoding relative to the message before | what is read is what was written |
| instances, launcher, crash reporter (`launch`, `core/paths`, `core/instanceinfo`, `crash`, 2608) | run directories, links, locks, the waiting parent | commands of other processes, crash and restart | a process id used again, directories half made | a command finds those that run and no others |

These interact as follows. `RootWrapper` owns the generations; a generation serves the `Reloadable`s
and hooks of its tree, of which `Process`, `Socket` (their start waits for `onPostReload()`), session
locks, servers, loaders, `Variants`, windows and notification servers (which take over what their
predecessor had) are ones. Windows feed the incubation controller; everything attached to a surface
follows its window. `Process` and `Socket` feed stream parsers. Every D-Bus service reads its objects by
way of `DBusProperties`; lists reach QML as `ObjectModel` or `ScriptModel`. Everything else meets only in
the shell's QML, which the models therefore allow to make any call at any point where the code runs it.

### Not modelled

| component | lines | why |
|---|---|---|
| tray items' icons and activation (`status_notifier/item`) | 614 | properties follow `DBusProperties`; what is left is images |
| menus as shown, popup anchors, clock, icons, regions, colours | 4000 | geometry and images: no order of events to speak of |
| X11 panels | 736 | geometry of struts |
| Wayland platform glue, widgets, ui, web engine, debug | 1800 | presentation |
| PipeWire peaks, node properties; players' metadata; wired networks; idle notifications | - | plain mirrored values, or samples |
| build, packaging, tests, docs, `quickshellx-experiments-xps` | - | not part of the running program |

## Plan

The models came in the order in which their failure would hurt and be missed by tests.

1. *Core* (done): `FileView`, `Generation`; their proofs.
2. *Services* (done): `Pam`, `Greetd`, `Polkit`, `Notifications`, composed by `ServicesMC`; their
   proofs.
3. *Objects* (done): `ScriptModel`, `SplitParser`, `JsonAdapter`, `Process`, `Socket`, `SessionLock`,
   `StatusNotifier`, `DBusProperties`, composed by `ObjectsMC`; proofs about all
   of them.
4. *The bus* (done): `PipewireRegistry`, `PipewireVolumes`, `Mpris`, `Bluetooth`,
   `UPower`, `DBusMenu`, `Wireless`, with `ObjectModel`, composed by `BusMC`; a proof about the security
   that `Wireless` shows.
5. *Desktop* (done): `HyprlandIpc`, `I3Ipc`, `Toplevels`, `Workspaces`, `Windows`, `Surfaces`,
   `Screencopy`, composed by `DesktopMC`; a proof about `Toplevels`.
6. *Program* (done): `Loaders`, `Retainable`, `DesktopEntries`, `Ipc`, `LogFile`, `LiveReload`,
   `Instances`, composed by `ProgramMC`; proofs about `Loaders`, `Retainable`,
   `Ipc`, `LiveReload` and `Instances`.
7. *To come.* An abstract file that `FileView` without handlers implements, and an abstract list that
   `ScriptModel` and `ObjectModel` implement row by row.
8. *Proofs to come.* `DefaultsExist` of `PipewireRegistry`; `WindowsShow`.

Modules that share no state are checked by one run: its MC module chooses which of them a behaviour
explores and leaves the others at their initial states, so that a run stays one question: *are the
objects of this layer, each by itself, right under everything that may happen to them?*

## How the models are built

*One module per component*; its variables are the members that matter, its actions the functions
and handlers. A function that emits a signal (or blocks) in the middle is split there, and what it
has still to do is a frame of a stack variable (`stack`, `frames`, `calls`, `unlocking`, `step`,
`dropping`): between two frames QML may act, and in `FileView` pool threads run. Definitions keep
the names of the code.

*What is external* (the pool, the compositor, D-Bus, daemons, children, views) is modelled by what
the code expects of it and marked so in `map`.

*History variables* record what a property needs to know of the past (`told`, `answers`, `wished`,
`hurried`, `usual`, `orderly`, ...); no action's guard depends on one. Where the code does not keep a
promise in general, a history variable singles out the case in which it does, the passing property
is stated under it, and the general promise is stated as well: either a `violation` run refutes
it or the list *Other disagreements* below tells of it.

*Mutants.* Next to a definition there may be a mutated form of it (`\* Mutant: ...`), a plausible
bug. It is used by no specification; putting it in the definition's place makes the property that
`PROJECT.json` names for it fail.

## Models, runs and proofs

### `FileView` (`src/src/io/fileview.cpp`)

`FileView.tla` models one `FileView`, the operation objects it hands to the global thread pool, the
event loop that receives their queued `finished()`, the files, and other programs that change them.

* **State.** `target`, `inFlight`, `prepared`, `st`, `writeData`, `live` are the members
  `targetPath`, `pathInFlight`, `mPrepared`, `state`, `writeData`, `liveOperation`. `ops` holds
  each `FileViewOperation`: its `FileViewState`, `shouldCancel`, whether `done()` is still
  connected, and how far its `run()` has come. `disk` is the file system, `notify` a pending
  inotify event. `stack` is the call stack of the main thread.
* **Actions.** One per function of the object for the part before and after each nested call, one
  per stretch of `FileViewReader::read()` and `FileViewWriter::write()` between two checks of
  `shouldCancel`, and the two ways in which a queued `finished()` ends (`OperationFinished`,
  `DroppedFinished`).
* **Runs.** `fileview_core` (441 504 states): every shell call in any order on two paths, atomic or
  plain, blocking or asynchronous. `fileview_live` (80 552 states): a watched file that other
  programs replace and delete, every system call failing at will, `onFileChanged: reload()`.
  `fileview_last` is a finding: `setText(a); setText(b); setText(a)` ends with `b`. All runs
  have `Handlers = FALSE`, but for `onFileChanged: reload()`: a handler of another signal that starts an
  operation loses its outcome (`fileview.cpp:376`, see *Other disagreements*).
* **Bounds.** `Ops` bounds the operation objects alive at once (a call that might need one more is
  not made): two are one live and one abandoned operation, which is all that the argument
  distinguishes, since what abandoned ones do to the view does not depend on their number.
  `MaxDepth` bounds the nesting of handlers, `Data` the contents; two paths suffice for a result of
  the path that was left. There is no bound on the length of a behaviour.
* **Fairness.** The main thread goes on with a call it has started (weak, `MainStep`), the pool runs
  each operation it was given (weak, per operation), and the event loop reaches each posted
  `finished()`: its queue is first in first out, so that shell calls which keep arriving cannot
  overtake it for ever (strong, since the action is disabled while the main thread is in a call).
* **Proved** (`FileViewProofs.tla`, for any paths, contents, numbers of operations, options and
  calls). `TypeCorrect`. Under `Handlers = FALSE`: `OnlyTheLiveOperationReports`, `WritesAreAlone`,
  `PreparedViewIsCurrent`. None of the three is inductive alone. `IInv` adds the shape of the stack
  (a function that waits for `cancelAsync()` has nothing below it), that a function which goes on
  after `cancelAsync()` finds no live operation, that the live operation is connected and for the
  target path until its result is applied, and that only abandoned reads are active without being
  live. With handlers that call back the invariant fails.
  `ViewShowsItsFile`, when moreover nothing fails and nobody else writes: `FInv` says of a live operation
  that its result, at every point of its `run()`, is or will be what the file holds (`LiveIsRight`), that an
  applied result is (`AppliedIsRight`), and that an operation which was told to stop is followed by another
  (`CancelledIsFollowed`): without that a dropped read could leave an old text for good.
  `EveryWriteIsTold`: a write whose outcome was not announced is the live one, or its result is being announced
  (`UInv`).
  `FilesAreWhole` has no condition on handlers, faults or other programs, only that writes are atomic: what any
  frame or writer is about to write was given for it (`AInv`). If blocking writes are allowed, what was given has to
  include the empty text: `waitForJob()` blanks the buffer of an asynchronous write which a blocking one
  then writes again (see *Other disagreements*), and the theorem says so in its hypothesis.
* **Only model-checked.** The liveness `OperationsEnd`: under the fairness above every operation is deleted
  and every call returns.
* **Not modelled.** The adapter, directory events, the split of a read into chunks (one step reads
  the file), `printErrors`. An event of a watcher that no longer exists is not delivered.

### `Generation` (`src/src/core/rootwrapper.cpp`, `generation.cpp`, `reload.cpp`)

* **State.** `gen` is every `EngineGeneration` ever made: phase (`new`, `dying` from `destroy()` to
  the deletion of its root, `gone`), `reloadComplete`, whether the engine's `quit`/`exit` reach it
  (`linked`) and its signals the wrapper (`wired`), whose deletion its `postReload()` awaits
  (`after`), `shouldTerminate` and `exitCode`. `cur` is `RootWrapper::generation`, `doomed` the queue
  of deferred deletions, `objs` reloadables and hooks, `stack` the calls in progress, `app` and
  `status` where `main()` is and with what it ends.
* **Actions.** `reloadGraph()` is cut where it runs QML: `QmlReload` (scan or compile errors, or the
  tree is being created), `EnterReload`, `FinishReload`, `SoftReloaded`/`HardPosted`/`HardReloaded`,
  `FailedAgain`, `Returns`. The event loop has `DeleteRoot`, `Deleted`, `TimerFires`; QML
  `QmlReload`, `QmlExit`, `Create`; the user `IpcKill`; `main()` `Construct`, `Constructed`, `Shutdown`.
* **Runs.** `Generation` is checked directly. `generation_core` (750 063 states): three configurations, reloads nested twice, hard and
  soft. `generation_live` (38 478 states): two configurations with nesting at every point.
* **Bounds.** `MaxGens` 3: one that is replaced, one that replaces it and one of a nested reload.
  `MaxDepth` 2 nests one reload in another; `MaxActs` 1 lets QML act once per emission, while
  several acts in a row at the event loop are unbounded. One object of either kind: objects do not
  influence each other.
* **Condition.** `OneConfiguration` holds if no reload starts while the wrapper is detached from its
  generation (`Reenter` contains none of `reload`, `finished`, `posted`). With `Reenter <- AllPoints`
  in `Generation_core.cfg` TLC refutes it: a reload asked for by a handler of `reloadFinished()` leaves two
  configurations running, since `onReload()` still replaces the generation it found
  (`rootwrapper.cpp:167`).
* **Fairness.** The main thread goes on (weak), deferred deletions and zero timers are reached
  (strong: they are disabled while a call is in progress, which a busy shell may start again and
  again, but the event queue is first in first out).
* **Proved** (`GenerationProofs.tla`, for any number of configurations, objects, codes, any nesting).
  `TypeCorrect`; `NeverDangles`, for nesting at every point, by `PInv`: deletions happen only with an
  empty stack, when the current generation is connected to the wrapper; `OneAtRest` under
  `ReentersSafely`, by `SInv`: only the innermost call has the wrapper detached, each living
  generation is the current one or one that is being loaded, the others are dying and wait in
  `doomed`, and a current generation can only be lost by an exit. `SoftHooksAreAlone`, under the same
  condition, by `HInv`: a generation that awaits another's deletion began with it as the last of the
  queue `doomed` (`LastDoomed`), which is first in first out, so that when its hooks run no other tree is
  left; while it is loaded it awaits none (`LoadsWaitForNone`), and a hook which found others there
  belongs to a generation that awaited none (`CrowdedIsHard`), that of a hard reload.
* **Only model-checked.** The liveness.
* **Not modelled.** File watching, incubation, extensions, which old object a new one takes over.

### Service clients: `Pam`, `Greetd`, `Polkit`, `Notifications` (`ServicesMC`)

`services_all` (88 779 states) explores each of the four, all their properties and the liveness of PAM.

* **`Pam`** (`services/pam`). `target`, `conv`, `required` are `mTargetActive`, `conversation`,
  `mIsResponseRequired`; `convs` holds each `PamConversation` with its child and the two pipes;
  `frames` the signals being emitted, from whose handlers (`PamReenter`, `PamAnswer`) the shell calls
  back. `Activate`, `Deactivate`, `Respond`, `ComponentComplete` are QML's; `Started`, `Aborted`,
  `OnRequest`, `OnExit`, `OnEof`, `MessageChanged`, `Emitted`, `Reaped`, `Delete` the main thread's;
  `ChildAsks`, `ChildReads`, `ChildExits`, `ChildDies` the other process's. Two conversations (one
  aborted, one new), two messages. `ServicesHold` says that no child outlives its conversation and that
  an active context has a child whose end it hears of, `AnswersMatch` that an answer reaches its
  question, `EndIsNoticed` that the end of a child ends its conversation. Fairness: the main thread's
  event loop goes on (`PamMain`); the child need do nothing. The shell answers a message once
  (`AnswerTwice = FALSE`): a second `respond()` from a handler is accepted by the code, since
  `respond()` does not clear `required`.
  **Proved** (`ServicesProofs.tla`, for any number of conversations, one at least (`ConvsAreNumbered`), of
  messages and of nested handlers, with failures): `AnswersReachTheirQuestion`, for a shell whose handlers
  answer in `pamMessage()` only, once, and do not act in `activeChanged()` of a start or when the message
  changes (`AnswersInTurn`). `Orderly` says of each child that what it asked is its last
  message and that an answer on its way is to that; `RequiredIsAsked`, that an answer which is wanted and was
  not given would be to the question the child waits for. The latter fails in the middle of an abort and of a
  change of message, so `Stacked` says where in the stack of signals those may be, and `Owned` that an
  aborted conversation, whose child goes on, does not reach the context.
  `ServicesKeep` needs none of this: whatever handlers do, no child is left without its conversation and an
  active context has a child (`PamLife`); with it the types of all four clients (`ServicesHold`), for any
  number of messages (`MessagesAreNumbered`).
* **`Greetd`** (`services/greetd`). `requests` and `replies` are the two directions of the socket. The
  daemon is external. `PatientShellIsRight` holds for a shell that creates a session only when
  nothing of an old one is under way (`hurried`); without that condition it is not so (see *Other
  disagreements*).
  **Proved** (`ServicesProofs.tla`, for any number of requests under way): `PatientShellIsToldTheTruth`. The
  client and the daemon talk in turns: `OneStepAtATime` says, for each state of the client, which request
  or answer is under way (at most one) and in which state that finds the daemon's session; `GivenUpEnds`,
  that after the client went inactive what is left at the daemon will be cancelled by a request that was
  sent already; `NoneIsLeft`, that the daemon is never asked for a second session. All three fail once a
  session is created while an old one is being cancelled (`hurried`).
* **`Polkit`** (`services/polkit`). A request and its flow share a record; `queue` and `active` are the
  agent's. `EveryRequestIsAnswered` holds while requests do not overlap and no handler of a failure
  cancels (`usual`): the queue itself does not work (`agentimpl.cpp:109`). Three requests: one
  shown, one waiting, one that nobody can answer.
  **Proved** (for any set of requests): `EachRequestIsAnsweredOnce`. `PolkitInv`: the active request is in
  progress and unanswered, each other is either fresh or was answered once and only waits to be
  deleted, and nothing is queued. It is assumed that a null flow is no request's (`NullIsNoFlow`).
* **`Notifications`** (`services/notifications`, `core/retainable.cpp`). `idMap`, `listed` are the
  server's, each notification has its `retained()`/`deleteLater()` state and locks. `calls` are the
  signals being emitted. Two notifications, handlers nested twice. `ListIsWhatIsOpen`: the list has those
  nobody closed, and a sender is told once, and exactly then, unless a handler of `closed()` closes the
  notification again (`reclosed`): then it is told twice. `LockedIsKept`: what a program
  or the shell is closing or has closed is deleted by no step while it is locked. `Discarded` names the two deletions
  that ask for no lock: `delete` of one that was announced and not tracked (`server.cpp:80`, `:200`), and of those on the
  list when a reload hands nothing on (`:89`). Both are of notifications nobody closed, and go against what
  `retainable.hpp:38` and `:64` say (see *Other disagreements*).
  **Proved** (for any number of notifications and any nesting of handlers): `TheListIsWhatIsOpen`,
  `LockedAreKept`. What holds at rest has to be said of every moment at which a handler may act, so
  `NoteInv` speaks of the stack: `notification()` is only emitted at its bottom, of one notification after
  the other and of none twice (`EmittedOnce`); one that nobody closed is listed, or pending there, or on its
  way out in `dropped()` (`OpenIsListed`); and unless closed again a notification is in `closed()` at
  most once, while it is listed, is told of when it leaves the list, and in `dropped()` once after that
  (`ToldOnce`). `LockedAreKept` looks at each step from `NoteInv`: it is what says that a notification being announced,
  and one on the list between events, is not on its way out, so that the deletions without regard to locks are those of
  `Discarded` and no others. The order in which a reload hands notifications on is any that lists each once.

### Objects (`ObjectsMC`)

`objects_all` (503 882 states) explores each of nine parts; `objects_lock` and `objects_adapter` are
findings about the lock and the JSON adapter.

* **`ScriptModel`**. One action per branch of the loop of `updateValuesUnique()`; `view` applies the
  row operations as it is told of them. `ViewFollows` says that the view has the model's rows at each
  of them and the new list at the end: values are compared as the model does, by key (`<<key,
  rest>>`). Lists of up to four items: a run of two that moves over two.
  **Proved** (`ObjectsProofs.tla`, for lists of any length without duplicates): `ObjectsKeep`, with the types of
  the other parts. `Arranged`: the rows that were passed are those of the new list, by key, and the view has
  the rows of the model; the two iterators are always at the same row, since each branch ends by passing what
  it put there.
* **`SplitParser`**. `ParseBytes` reads a part of up to three bytes; the stream has up to five, the
  marker up to two, also two equal ones, and may be changed. `SplitsExactly` compares with the chunks
  of the whole stream; it excepts markers that follow one another directly, of which the second is
  taken for text (`datastream.cpp:83`).
  **Proved** (for any stream, marker and parts): `SplitsAtMarkers`. What a scan finds is determined by being
  leftmost (`Leftmost`, `ScanIsLeftmost`: by the greatest position at which it would fail), so two scans of one
  stream agree; a part's scan with what the buffer has left over finds the markers of the stream from
  there on, since none ends in the buffer and a gap of one byte is only missed by a marker that follows
  directly.
* **`Process`**. `process` is the `QProcess`, `step` the signals of its end, `parser` and `output` the
  stdout parser, and the child's output on its way to it. `WishIsServed`: at rest it runs iff it was
  wanted; excepted is a start that was wanted while another failed (`failed`). `OutputIsHeard`: the
  parser that a run began with has all the child wrote, once and in order, when the end is told; one
  that comes later gets nothing wrong. Two commands, two pieces of output, a parser of either kind.
  **Proved** (`ObjectsProofs.tla`, for any commands and amount of output), with `JsonAdapter`:
  `WishesAreKept`. The wish is kept at any moment but while the end of a process is told, which ends in
  another look at it; nothing started meanwhile is reported before that is over (`EndIsTold`), so that
  `running` is never told of the wrong process. What is heard, what the parser holds and what is unread
  are, in this order, what was written (`InOrder`), and nothing is unread that no `readyRead` is due for.
* **`Socket`**. `TargetIsServed` excepts connections that were refused, closed while they opened, or
  asked for by a handler that had one (`usual`). With it `ServerIsServed`, for the `SocketServer`s of
  successive generations (`srv`, `file`): a server that is to listen does, with its file in place,
  and one that is not does not. Excepted (`strayed`): a reload that does not hand the server over, and
  an old one that is told to listen again, which when destroyed removes its successor's file.
  Two paths, two generations, seven calls.
  **Proved** (`ObjectsProofs.tla`, for any paths and any number of generations and calls):
  `TargetsAreServed`. Of a socket the invariant is said inside the handlers of a disconnection too
  (`WishIsTarget`): there the wish is `targetConnected`, which the handler's end serves. Of the servers:
  the generations come one after the other, each made in the presence of one that serves (`InTurn`); a
  file is of one that listens, and one that listens is of the last generation (`LastListens`), so that
  who stops removes nobody else's file; and whoever was told to listen and does not has the target or
  lacks a path or handler (`Tries`), unless its generation is over.
* **`SessionLock`**. `locks` are the `WlSessionLock`s with their managers, `active` the pointer they
  all share, `session` what the compositor thinks, `unlocking` the calls of `unlock()` whose own
  signal has come back to them. `NeverExposed` (only an `unlock()` of the holder opens the session)
  holds in any case; `SessionIsOperable` (one holder, with a surface on each screen, while the session
  is locked) as long as no holder is destroyed and no handler of an unlock locks again (`plain`). Two
  objects, two screens.
  **Proved** (`ObjectsProofs.tla`, for any objects, screens and nesting): `StaysOperable`,
  `OnlyUnlockExposes`. The invariant says it at every moment, not only at rest: the
  holder shows a surface on each screen, there is one holder, the pointer which all managers share is
  set exactly while there is, and under `plain` the compositor agrees. Without the second conjunct
  `unlock()` of one holder would leave the other with the pointer gone.
* **`StatusNotifier`**. `inbox` is the shell's one connection to the bus: calls to its watcher,
  signals to its host (those of its own watcher also come back this way) and news of names.
  `TrayIsCurrent` holds at rest unless an application ended before the bus knew it was watched, or
  had several items (`orderly`): then only one is announced as gone (the last of the list, which the model
  keeps as a set). Two applications, one of them with two items, and two messages under way beside answers.
  **Proved** (`ObjectsProofs.tla`, for any applications, items and numbers of messages): `TrayFollows`.
  The invariant says of each item what the messages under way will make of it: the last word about what is
  registered is that it comes (`Shown`), unless another's watcher has yet to be asked; the last word about
  anything else is that it goes (`RestHidden`); ours has each call about a registered item before it or has
  the item, with no news of its application's end on the way (`OursKnown`). Since all news comes by one
  connection, words of a former watcher or of a former life of an application are never the last.
* **`JsonAdapter`** (`io/jsonadapter`, with the part of `io/fileview` it meets). `props` are a property, a
  sub-object and a property of that; `fview` the view's content and live operation, `text` the file. Each
  change that the configuration makes is written (`WriteAdapter`), each notice of the file reloads it, as
  the documentation composes them. `ShowsFile`: at rest the properties are those of the file, whatever
  handlers set during a load, unless a reload was dropped since one that had read before was under way (`busy`). `LastSetIsKept`: what was set last is in the file, unless it was
  what is being overwritten (`dropped`), or others were set while the end of a write had taken it back
  (`overtaken`); without the latter exception it is the finding `objects_adapter`. Two values, four changes
  by the configuration or others, who may write anything: that is two writes under way, a change that
  crosses them and one that follows.
  **Proved** (`ObjectsProofs.tla`, for any numbers and any number of changes): `WishesAreKept`. The
  properties are as the view's data says, except while other data is being written (`DataIsShown`); that
  data, when nothing is live, is the file's, or news of the file are on the way (`DataIsFile`); and what was
  set last is in the document being written, or in the file (`LastIsWritten`), also where the end of a
  former write took it back.
* **`DBusProperties`**. `calls` and `signals` are the two directions. `MirrorsRemote`: at rest a property
  is what the program has, unless a call about it failed since it was last heard of; a refused `Set`
  leaves the refused value on display. Two properties, two values, two messages under way beside
  answers.
  **Proved** (`ObjectsProofs.tla`, for any properties, values and numbers of messages):
  `AtRestMirrored`. What is shown follows from what is under way: the last value told is
  the program's (`LastIsTrue`); with nothing told, what is shown is the last value written or the
  program's (`WrittenIsShown`); with nothing told or asked, it is the program's (`QuietIsTrue`). That
  answers and signals come in the order in which they were sent is an assumption about the bus.

### What other programs have: the bus (`BusMC`)

`bus_all` (321 100 states) explores eleven parts. In each, the other program (external: PipeWire, a player, BlueZ, UPower,
NetworkManager, an application's menu) changes at any time; what it sends and what the shell asks are
queues (`...Signals`, `...Calls`, `wire`, `asks`), since a connection keeps its order, and the shell's
handlers are one action each. `PointersHold` is about every state, `AudioIsMirrored` and
`ProgramsAreMirrored` about those at rest, when both queues are empty: then the shell shows what the
program has. `SecurityOnlyGrows` is about steps.
**Proved**: `SecurityOnlyGrows` (`StrongerByMore`, in `Wireless`): the six strongest types of security stay
valid whatever is announced in addition (`StaysValid`), and the best is the first that is valid.

| module | the state of the shell | what is asked of it | bounds |
|---|---|---|---|
| `PipewireRegistry` (`connection`, `core`, `registry`, `metadata`, `defaults`) | `conn`, `reg`, `defs` | `DefaultsExist`: a default is a node there is; `MirrorsDaemon`: with nodes and defaults of the daemon that runs, also after it was replaced | two nodes, three changes, two starts, two messages under way |
| `PipewireRegistry`, links (`link`, trackers of `qml`) | `link`, `group`, `held`, `linksOf` | `HeldIsBound`: a link is bound as long as held; `ShowsLinks` | one source, a sink and a monitor, two ids that are used again, four appearances |
| `PipewireVolumes` (`node`, `device`) | `node`, `device` | `WaitsForDevice`; `ShowsVolumes`: at rest the volume the daemon has | two nodes on a device, three volumes of which two are too near to be sent, two sets |
| `Mpris` | `watcher`, `player` | `ShownPlayersExist`; `ShowsPosition`: the position is the player's after any time of play, pause, seek | time to 3, two rates, two tracks, two players |
| `Bluetooth` | `listed`, `dev` | `ListsAgree`, `MirrorsBluez` | two adapters, two devices |
| `UPower` | `power`, `powerObj`; `profiles` | `DevicesListedReady`, `ListsPowerDevices`; `ShowsProfile` | two devices, three changes; a profile without a name |
| `DBusMenu` | `handle`, `menu` | `MenuHolds`: no list has a deleted item; `OpenersAreCounted`; `ShowsMenu` | four ids, two openers, three changes |
| `Wireless`, devices | `backend`, `netObj` | `NetDevicesHold`, `ShowsNetDevices` | two paths, two changes |
| `Wireless` | `radio`, `nets` | `NetworksHold`, `ShowsNetworks` | one access point, two connections of one SSID |
| `Wireless`, security | `caps`, `adhoc`, `privacy`, `apWpa`, `apRsn` | `SecurityIsTold`: what is protected never looks open, and what is shown needs a cipher that both have; `SecurityOnlyGrows`: an access point that announces more looks no weaker | three kinds of device, all subsets of the flags in question |

The conditions under which they hold are history variables, each a case that the code loses:
`dropped` (a link's successor is not referenced), `forgotten` (a volume that waits is taken for one that
was sent), `lost` (the rate changed), `returned` (a device came back while asked), `ppRefused`,
`patched` (a menu item whose other properties are reset), `twice` (a path asked for twice),
`unscanned`. *Other disagreements* has each with its line.

### The session: compositors and windows (`DesktopMC`)

`desktop_all` (568 900 states) explores seven parts. `ObjectsHold` is about pointers and lists,
`CompositorIsMirrored` about rest, `WindowsShow` about windows and what is attached to them.

* **`HyprlandIpc`** (`wayland/hyprland/ipc`). `server` is the compositor, `events` its event socket,
  `questions` requests on sockets of their own: an answer tells what was there when it was made,
  and nothing orders it with events. Objects named early are created early. At rest monitors,
  workspaces and windows are those of the compositor (`HyprlandIsMirrored`) unless an answer crossed
  an event (`crossed`). Two monitors, two workspaces, a window; three changes, two events unread.
* **`Toplevels`**. Three windows, of which the old one and the new one are told to be (de)activated in
  either order. `TopsHold`: shown ones are ready and there. `ActiveFollowsFocus`.
  **Proved** (`ToplevelsKeep`, for any windows): both. What makes it inductive is that a window which is activated
  before it is shown is the one in focus (`ActiveIsActivated`). It rests on what `ObjectModel` proves of
  its lists (`Appended`, `Removed`).
* **`I3Ipc`**. One socket for requests and events. `I3Holds`, `I3IsMirrored`, unless an output came to
  show another workspace without a focus event (`moved`) or a name was changed (`renamed`).
* **`Windows`** (`window`, `wlr_layershell`). `proxy` is `ProxyWindowBase` per window and generation, `win`
  the toolkit's window with its layer surface. Two windows and a popup, two screens: visibility,
  reload (handing windows on by id), loss of a screen or of the scene graph, exposure (the one thing modelled of what the compositor says). `WindowsHold`: a
  proxy's window is there and its own; `WindowsShow`: shown iff wanted.
* **`Surfaces`**. `feature` chooses one of opacity and mask, blur, idle inhibitor, shortcuts inhibitor, focus
  grab and global shortcuts; two proxies, three toolkit windows. `SurfacesFollow`: one protocol object for a
  surface, destroyed before it, with the look that is wished; inhibitors are on the surface that
  is shown; the grab holds the surfaces of its windows; shortcuts that are registered hear.
* **`Screencopy`** (and `wayland/buffer`). `cap` is the context of one of three protocols, `chain` the two
  buffers, `mem` their memory, `node` the scene graph's textures. `CaptureHolds`: a frame shown is whole and the
  last; a live view goes on; no buffer shown is drawn into, buffers fit and devices are counted.
* **`Workspaces`** (`wayland/windowmanager`). Events come one at a time; `promised` is the compositor at the
  last `done`. `WorkspacesAreMirrored`: whatever came since, that is what the configuration sees.
  `WorkspacesHold`: nothing listed has lost its handle, and no request waits for a commit nobody scheduled.

`odd`, `amok`, `nullWindow`, `died`, `misused` note what the code does not provide for; each is listed below.

### The program (`ProgramMC`)

`program_all` (1 502 200 states) explores eight parts. `ProgramHolds` says of five of them what is proved for all
constants (`ProgramProofs.tla`, `ProgramKeeps`): `LoaderHolds`, `RetainedByLocks`, `RegistryHolds`, `WatchesAsSet` and
`InstancesHold`. `WishesAreServed` has what stays with TLC.

* **`Loaders`** (`core/lazyloader`, `boundcomponent`, `incubator`). The controller creates objects in pieces, by
  the frames of windows or a timer. `LoaderHolds`: a loader has its item iff it is wanted, one that is wanted at
  once has it at once; `NeverStranded`: something incubates only if something will make it go on.
  **Proved**: `LoaderHolds`. A loader has the one item there is, and only if it is wanted; what incubates has none
  yet (`HasItem`); none is begun before the loader is loaded (`Unbegun`); what is wanted is there or incubates
  unless a load failed (`Served`).
* **`Loaders`, `Variants`.** Models change twice and have up to two of four values: objects that share
  entries or none, and one that is no object.
  `VariantsHold`: one instance for each value. `ReloadMatches`: a reload gives no old instance to two,
  and to each the one that has most in common with it.
* **`Retainable`**. Two objects, two locks that are switched, moved and destroyed, also in the handler of
  `dropped()`. `RetainedByLocks`, `NotWhileLocked`, for locks that are switched on before they are
  given an object (`uneven`). The counter of references has `Wrap` values.
  **Proved** (for any objects, any finite number of locks, and counters that hold more
  than what is done to them, `LocksAreCounted`): `LockedAreSpared`, `RetainedAreLocked`. `Kept`: unless `uneven`, the counter of
  a hook is the number of locks that are on and have the object, and of explicit locks; it is at most
  what was done (`Total`), so that it does not come round to zero; and no lock points to what is deleted (`Pointed`).
* **`DesktopEntries`**. Two directories with files, a scan in a pool thread, a timer of the monitor.
  `EntriesHold`: nothing listed is deleted, lookups agree. `EntriesAreShown`: at rest entries are
  those of the files, the first directory's over the second's.
* **`Ipc`** (`ipc`, `io/ipc*`). Two generations with three handlers of one target; a client that calls, reads a
  property or listens. `RegistryHolds`, `CallersAreServed`, the latter across a reload.
  **Proved** (for any targets, clients, handlers and generations): `RegistryHolds`. The list of a target in a
  generation has each handler that is registered for it there, once, and its first is the one in use (`ListsAgree`);
  a handler is registered for its target as long as it should be, and with no generation that is gone
  (`RegisteredAsDue`).
* **`LogFile`** (`core/logging`, `ringbuf`). Messages encoded relative to what was written before; a process that
  reads or follows, and filters. `LogReadsBack`: what is read is what was written, also
  while it is being written. `PrintsWhatPasses`. Between messages pass 0, 20 or 40 seconds: each of the three
  encodings of a time that fits is met; longer ones are under *Other disagreements*.
* **`LiveReload`** (`core/scan`, `core/toolsupport`, the watcher of `core/generation` and the calls of
  `core/rootwrapper`). Two files, the root and a type it uses, with a text each: one that compiles, one
  that does not, one the scanner rejects, one it masks by `//@ if`. A user edits (in place, in two steps, or
  by replacement), deletes and restores; the reload is three steps, the scan, the compilation and the new
  watcher, between which anything may happen; the watcher forgets a file that was replaced. `disk` are the
  files, `gen` what the generation's scan knows of them, `watch` the watcher's list, `load` the reload at
  work; `tried` what the last one had before it. `ChangesAreLoaded`: at rest the configuration is that of the files, or was
  tried and failed; excepted are changes before the watcher was there, or told of before they were complete,
  those of files that a failed scan did not reach, and files that were restored (see *Other disagreements*).
  `WatchesAsSet`, at rest: there is a watcher iff `watchFiles` says so, but for a setting that a failed reload
  has reset, and a process that has the tooling's lock keeps no links without a `.qmlls.ini`. Two edits in `program_all`; it holds with three as well.
  **Proved**: `WatchesAsSet`, for any texts of the files.
* **`Instances`** (`launch`, `core/paths`, `core/instanceinfo`, `crash`). Two process ids that are used again,
  three instances, the directories, links, and lock that the commands look at, a parent that waits for a daemon,
  crash and restart. `InstancesHold`: a locked directory is that of a living instance, the commands find those that run
  and no others, no parent waits for ever, crashes end, who was told to quit does not run again.
  **Proved**: `InstancesHold`, for any process ids but 0 (`ProcessesAreNumbered`, the id by which the code
  means none), any number of instances and of acts, and any of four failures of directories. None of its parts is
  inductive. What is found depends on files that several steps write, so `InstanceInv` says how far each process
  has come and what is on disk then: a process and its instance name each other, and the instance has the process's
  configuration and display (`ProcsFit`); the lock is there, held and written as far as the launch is (`LocksFit`)
  and held only by the process that has the instance (`InstsFit`); instances are numbered in their order without
  gaps (`InOrder`), so that one launched next is new; links by process id and by configuration lead to all
  instances and to no others (`PidsLink`, `PathsLink`); two processes that were told not to be duplicates differ
  already before they run (`Dups`), which is kept because a command finds every instance that runs (`RunningIsFound`);
  what a process inherits are launched instances, the greatest number first (`EnvsFit`), whence the instance that
  crashed last is the one whose age counts. `DaemonsFit`, `QuitsFit` and `ReportsFit` have those who wait, who quit
  and the reports. That commands find what runs is shown of the searches themselves (`ByPidIs`, `ByIdIs`,
  `ByConfigIs`): what `Collect` keeps are the instances whose lock is there, by life, display and link.

Of these parts and those of the two sections before only `Pam` states liveness as such: the others are event
driven, and what they promise is stated of the states at rest, which a run reaches from every state by
reading what was sent. Their bounds (`Max...Acts` and the like) count what the shell, the user and the
other program do of their own accord; what handles events and answers is not counted, so that a
behaviour can always come to rest.

## Other disagreements

What the models and their making showed, beside the `findings`. They are not runs of their own, either
because no text of the repository says otherwise, or because the part is not modelled.

*`io`*

* `FileView`: a failed `QSaveFile::commit()` and a cancelled write are announced by `saved()`. A
  blocking write that waits for an asynchronous one writes the buffer which `waitForJob()` has blanked
  (`fileview.cpp:422`, `:425`). A `reload()` during a read of the same path is dropped (`:302`), whatever
  was written to the file meanwhile. `saveAsync()` does not set `pathInFlight`, so that a read on demand
  during a write is dropped or waits for the write, depending on whether the path was read before.
  `operationFinished()` forgets the live operation after its signals, also one that a handler of them
  started (`:376`), which `fileview.hpp:321` does not say.
* Stream parsers: of two markers that follow one another the second is text (`datastream.cpp:83`; cf.
  `datastream.hpp:66`). A `StdioCollector` that is set after the former parser was destroyed gets what
  is buffered twice (`process.cpp:125`, `datastream.cpp:28`, `:116`).
* `JsonAdapter`, beside the finding: properties that handlers set during a load are not announced (`jsonadapter.cpp:90`); one
  set before the first load ends overwrites the file. For lists of `JsonObject`s `isNew` is inverted: an array
  longer than the list dereferences null, others are read into objects nobody uses (`:209`). `var` and list
  properties of sub-objects are read and written on the adapter (`:158`, `:199`). A made object that a later
  file does not mention is deleted, its property null (`:47`).
* `Process`: a failed start forgets a start that was wanted meanwhile, though `exec()` promises it
  (`process.cpp:289`); `signal()` of a process that is not running signals pid 0. Exchanging the parser
  closes the channel for the rest of the run (`:110`); one that is set when there was none gets nothing
  (`:211`). `setCommand()` strips `file://` of the arguments in place (`:187`).
* `Socket`: after a refused connection `connected = true` does nothing; a disconnection while it opens
  is forgotten.
* `SocketServer`: a server of a replaced configuration that was not handed over removes its successor's
  file (`socket.cpp:170`, `:199`). `setHandler()` never starts a server that was wanted (`:143`); without
  a handler a connection dereferences null (`:210`); a failure to listen is not retried (`:174`).

*`core`, `window`*

* `RootWrapper`: `reloadFailed()` is emitted twice (`rootwrapper.cpp:132`, `:141`). The hooks of a hard
  reload run before the old tree is gone (`generation.cpp:156`), and so do those of late objects
  (`reload.cpp:131`).
* Live reload: a file restored with its old content, also one of two after a failed reload, is not
  loaded or watched again (`generation.cpp:247`); changes between scan and watch are lost (`:170`), as are those told of
  before a file is complete (`:231`). After a scan error, new files are not watched
  (`rootwrapper.cpp:74`). A configuration with `watchFiles: false` that is loaded while another notice is under way
  dereferences a null watcher (`generation.cpp:226`). `QuickshellSettings::reset()` changes `watchFiles`
  without a signal (`qmlglobal.cpp:52`).
* Tooling: when an `//@ if` of a file starts to fail, its masked text is written through the link to the
  user's own file (`toolsupport.cpp:186`, `:207`). A failed lock attempt leaks its file (`:46`).
* `ScriptModel`: a moved entry keeps its old payload when only its key is the same.
* `ColorQuantizer`, not modelled: the pool thread reads the source by a pointer while the main thread may set
  it (`colorquantizer.cpp:36`, `:225`); setting an empty source keeps the colors of the former.
* `ObjectModel::diffUpdate()` inserts reordered entries again (`model.hpp:132`).
* `LazyLoader`: after a failed incubation the pointer to the incubator dangles
  (`lazyloader.cpp:197`); `activeAsync = false` does not stop a load; a component that is set when an item is
  already wanted is not loaded.
* `RetainableLock`: setting its object takes a reference also when it is not locked, locking takes
  another, and the destructor gives one back (`retainable.cpp:89`, `:102`, `:129`; cf. `retainable.hpp:67`).
* `Variants`: after a removed value the indices of instances are off by one (`variants.cpp:31`).
* Desktop entries: directories that are missing at the start, deeper ones and files edited in place go
  unnoticed (`desktopentrymonitor.cpp:53`, `:65`); a hidden entry also drops the lookup in other case of
  an entry with another id.
* Windows: moving a shown window to another screen emits `closed()`, which `windowinterface.hpp:248`
  has for the user and the display server, and a later close is not heard (`proxywindow.cpp:414`;
  likewise for popups, `popupwindow.cpp:78`). A reload of a shown panel onto another screen deletes the
  window under the function that hands it over (`proxywindow.cpp:224`). After a lost scene graph
  `closed()` does not follow `resourcesLost()` (`:260`, `windowinterface.hpp:254`). A layer surface's first
  change back to a default is lost (`surface.cpp:214`).
* IPC: two responses that arrive together delay the second (`ipc.hpp:196`); a function that takes a color
  is given room for a bool (`io/ipc.cpp:176`); `IpcClient::connect()` returns 0 whatever happens
  (`ipc.cpp:125`).
* Log: a delta of exactly 65535 seconds puts the reader out of step (`logging.cpp:691`), greater ones are
  added to the time before (`:682`, `:777`); negative ones are written as large (`:665`). Following a log
  with `--tail` misses what came while the file was first read (`:907`; cf. `parsecommand.cpp:159`).
* Instances: after a crash and restart `launch()` returns into `main()`, which runs the default
  configuration (`launch/main.cpp:67`); the descriptor of the crash record is inherited by the shell's
  children. Two `--no-duplicate` starts race (`command.cpp:439`). A daemon's parent returns success at the end of
  the pipe (`command.cpp:498`). Ids are documented as matched by substring (`parsecommand.cpp:116`) and are
  by prefix (`command.cpp:186`).

*`services`, `dbus`*

* PAM: a handler of `activeChanged()` may abort the conversation that is about to start; a failed
  `fork()` gives the "child" -1, which `abort()` kills (`subprocess.cpp:74`).
* greetd: a session the daemon holds is cancelled and a new one created by two requests sent together; the
  success of the first is read as the authentication of the second, and `readyToLaunch()` emitted though
  nobody was authenticated (`connection.cpp:205`; cf. `:202`). An "already" reply returns with replies left in the buffer; a socket error is not connected
  to anything.
* Polkit: a second request replaces the flow of the first instead of waiting (`agentimpl.cpp:109`; cf.
  `polkit/module.md:29`).
* Notifications: the server deletes notifications that nobody closed without a look at their locks: one that is not
  tracked after `notification()`, or not tracked again after a reload, and all when a reload hands nothing on
  (`server.cpp:80`, `:89`, `:200`); `retainable.hpp:38` and `:64` have locked objects retained. `Notify` reads
  the id after the notification may have been deleted; `setText()` of an action has its condition inverted (`notification.cpp:59`); a replacement without inline reply keeps
  that of the former (`:183`).
* Tray: the owner of an item is looked up before the bus is asked to report its end, so that an
  application which ends in between stays for ever; names are matched by prefix
  (`watcher.cpp:79`); an item whose `GetAll` fails is never asked again; a status that changes from one
  pixmap to another leaves the icon's URL as it was, so that views keep the old image (`item.cpp:103`).
* Menus of the platform, not modelled: one that is displayed while its handle has the menu keeps listening for
  changes after it was shown (`item.cpp:347`, `qsmenuanchor.cpp:40`), and for tray items gives back one
  reference more than it took; setting another menu while one is open never gives back the first one's, and
  keeps the pointer to what it deletes (`qsmenuanchor.cpp:101`).
* PipeWire: a device that is sent what it has does not answer and is waited for (`device.cpp:199`); a
  waiting volume that equals the last one sent is dropped though it has changed since
  (`node.cpp:546`); the successor of a group's tracked link is not bound (`link.cpp:180`, `:147`); a monitor among a
  node's links stops their update (`qml.cpp:216`); metadata that is replaced keeps old names
  (`defaults.cpp:49`).
* MPRIS: when the rate changes, the position is computed as if it had been so since it was heard
  (`player.cpp:181`).
* UPower: a device that goes and comes back while it is asked is listed twice (`core.cpp:117`). A power
  profile without a name here voids the whole list.
* D-Bus menus: an item that moves to another parent is deleted by the one it had, later a null
  dereference (`dbusmenu.cpp:379`, `:391`); a partial update resets what it does not name (`:147`); a new
  order of the same children is not taken (`:398`).
* NetworkManager: a path asked for twice gets two objects (`backend.cpp:94`, `:106`); of several ways to
  connect the weakest is shown (`wireless.cpp:70`, where the comment of `:67` has the strongest).

*`wayland`, `x11`*

* Session lock: relocking in a handler of an unlock leaves the session locked for good
  (`session_lock/session_lock.cpp:42`); a reload while it is locked asks for a second surface on each screen, which is
  a protocol error, as `updateSurfaces(false)` is not given the old object (`session_lock.cpp:128`); so is unlocking
  before the compositor has granted the lock.
* Hyprland: an answer older than events that were read recreates or deletes what they were about
  (`connection.cpp:655`, `:706`); the first part of an answer is taken for all of it (`:167`); a window opened while
  workspaces are unknown is dropped (`:450`); no active window is not told (`:550`).
* i3: nobody listens to a focused monitor that was set at the start (`controller.cpp:122`, `:281`); a
  renamed workspace is looked up by its new name (`:300`); there is no reconnection.
* Toplevels: `unsetRectangle()` dereferences null (`toplevel_management/qml.cpp:102`); of two active ones, deactivating
  the later leaves none (`:159`).
* Workspaces: `canRemove` is never taken over (`windowset.cpp:156`; cf. `windowset.hpp:55`); objects that the
  configuration kept use handles that are gone (`:96`, `:178`, `:237`); an output that goes before it is left
  stays (`output_tracking.cpp:32`).
* Screencopy: `stopped()` is never emitted (`view.hpp:66`); `captureFrame()` of a live view captures
  (`view.hpp:49`, `view.cpp:115`); a failed live view of the `ext` protocol never resumes
  (`image_copy_capture.cpp:115`, cf. the comment of `:121`); constraints that cross a frame are fatal (`:184`); the
  former source's end stops its successor (`view.cpp:41`); without linux-dmabuf nothing is ever ready
  (`dmabuf.cpp:289`); a buffer object is destroyed twice (`dmabuf.cpp:497`); a format unknown to Vulkan is null
  (`manager.cpp:143`).
* Surfaces: a reload to defaults leaves the old opacity, mask and blur (`hyprland/surface/qml.cpp:206`, `:221`,
  `background_effect/qml.cpp:202`); a popup shown again before its old window is deleted loses its
  inhibitor (`idle_inhibit/inhibitor.cpp:105`), for shortcuts fatally (`shortcuts_inhibit/inhibitor.cpp:136`);
  a shortcut that was never registered unregisters another's (`global_shortcuts/manager.cpp:34`).
* Popups and X11, not modelled: `popupanchor.cpp:273` takes `left()` for `top()`, `:112` dereferences null.

## What stays with TLC, and what is not said

* **Liveness and `ENABLED`** are beyond the prover; `OperationsEnd`,
  `EveryObjectIsServed`, `ExitHonoured` and `EndIsNoticed` are checked on the instances only.
* **Induction over data**: the induction theorems take operators as parameters, which the provers cannot
  instantiate. Where a proof needs induction (`ScanIsLeftmost`) it goes by a least counterexample
  (`Smallest`, from `WFMin`).
* **What nothing is proved of**: the parts of `BusMC` but the security of networks, those of `DesktopMC` but the toplevels, and of `ProgramMC` `DesktopEntries`,
  `LogFile`, and the `Variants` of `Loaders`.
  `DBusMenu` is recursive and out of the prover's reach with all that is composed with it, that is `BusMC`;
  the reductions of `Variants` and `DesktopEntries` (folds), and the reader of the log are compared by
  TLC with their references.
* **Hypotheses of theorems** are the conditions of the runs, named there: `Handlers = FALSE`,
  `ReentersSafely`, `AnswersInTurn`, and the history variables `plain`, `hurried`, `usual`, `reclosed` inside the
  properties. A case they exclude is one in which the code was seen to fail, each with its line under *Other
  disagreements*. `ToplevelsKeep` assumes that the null pointer (`NoTop`) is no toplevel.
* **Memory safety** is said only where a model has a pointer that may dangle (`CurIsAllocated`,
  `active = "dangling"`). Data races of the pool with the main thread are excluded by the code's
  hand-over of `FileViewState`, which the models take as it is.
* **The shell's QML** may do anything the models list, as often as it likes; what it says, draws and
  computes is left out.

## How to run it

In this directory, for each run `R` of `PROJECT.json`: `tlc -config <cfg> <module>.tla`; the runs with
expectation `violation` end with the counterexample that their finding describes. `tlapm
M.tla` for `FileViewProofs`, `GenerationProofs`, `ObjectsProofs`, `ProgramProofs`, `ServicesProofs`, `ObjectModel`, `Toplevels` and `Wireless` checks the
proofs. The longest run, `desktop_all`, takes some two minutes.
