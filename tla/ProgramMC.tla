------------------------------ MODULE ProgramMC --------------------------------
(* The parts of the shell that work among themselves, for TLC: loaders,       *)
(* variants, locks on objects, desktop entries, calls by other processes, the *)
(* log, the processes and the files of a configuration.  They share no state: *)
(* a behaviour explores one of them, and the others stay as they begin.       *)
EXTENDS Naturals, Sequences, FiniteSets

CONSTANTS
  Explored,
  MaxLoadActs,
  MaxVariants, MaxModels,
  Held, Locks, Wrap, MaxLockActs,
  Nothing,
  EntryObjs, MaxFileChanges,
  HandlerGens, CallGens, Clients, Targets, MaxIpcActs,
  Levels, Ring, Tails, MaxMessages,
  Pids, MaxInstances, MaxProcActs,
  RootTexts, TypeTexts, MaxEdits

\* Nothing is no object; there are finitely many locks, and counters of them are wide enough.
ASSUME NothingIsNoObject == Nothing \notin Held
\* A handler belongs to a generation, and is not no handler; nothing is no target.
ASSUME HandlersHaveGenerations ==
  /\ 1 \in CallGens /\ \A h \in DOMAIN HandlerGens : HandlerGens[h] \in CallGens
  /\ "nohandler" \notin DOMAIN HandlerGens /\ Nothing \notin Targets
ASSUME LoadsAreCounted == MaxLoadActs \in Nat
ASSUME LocksAreCounted ==
  IsFiniteSet(Locks) /\ MaxLockActs \in Nat /\ Wrap \in Nat /\ Wrap > MaxLockActs + 2
\* No process has the id 0.
ASSUME ProcessesAreNumbered == 0 \notin Pids /\ MaxInstances \in Nat

VARIABLES which,
  loader, items, controller, bound, loadActs, spoiled,
  hook, lock, dropping, lockActs, uneven, forced,
  model, instances, old, taken, varLoaded, modelActs,
  files, watched, dirNotice, debounce, scans, completed, inProgress, queued,
  entries, lower, doomed, fileChanges, unseen,
  gens, handler, known, used, client, conn, wire, ipcActs, due, bunched,
  clock, made, posted, onDisk, ended, alive, file, writer, reader, fileNotice,
  printed, written, odd,
  proc, insts, links, tree, pragma, fails, daemon, reporter, reports, quits, procActs, amiss,
  disk, gen, watch, notices, watchFiles, load, tooling, tried, lost, edits

\* Two values of a model that are objects and share a pair, and one with another key.
Objects == {{<<"k", 1>>, <<"l", 1>>}, {<<"k", 1>>, <<"l", 2>>}, {<<"m", 1>>}}

\* Files that are hidden, that have no name, and that are named for a locale of the session and not.
Locale(l, t, m) == [language |-> l, territory |-> t, modifier |-> m]
Line(l, v)      == [locale |-> l, value |-> v]
File(h, n, ns)  == [hidden |-> h, noDisplay |-> n, names |-> ns]
Plain           == Locale("", "", "")
Says ==
  [hidden   |-> File(TRUE, FALSE, <<Line(Plain, "x")>>),
   nameless |-> File(FALSE, TRUE, <<>>),
   fr       |-> File(FALSE, FALSE, <<Line(Locale("fr", "", ""), "f"), Line(Plain, "p")>>),
   de       |-> File(FALSE, TRUE, <<Line(Locale("de", "", ""), "d"), Line(Locale("de", "AT", ""), "at"),
                                    Line(Plain, "p"), Line(Locale("de", "DE", ""), "dd")>>)]


\* Two handlers of the first generation and one of the second, of one function of a number.
ThreeHandlers == [h \in {"h1", "h2", "h3"} |-> IF h = "h3" THEN 2 ELSE 1]
Function    == [params |-> <<"int">>, ret |-> "var"]

\* One category of the shell from Info on, and another's without Debug.
Rules     == <<[covers |-> {"shell"}, level |-> "Info", enabled |-> TRUE]>>
ReadRules == <<[covers |-> {"shell"}, level |-> "any", enabled |-> TRUE],
               [covers |-> {"other"}, level |-> "Debug", enabled |-> FALSE]>>

Loader   == INSTANCE Loaders WITH Plains <- {Nothing}, Maps <- Objects
Retain   == INSTANCE Retainable WITH NoObject <- Nothing
Entries  == INSTANCE DesktopEntries WITH
              Dirs <- <<"home", "sys">>, EntryIds <- {"a", "A"}, LowerId <- [i \in {"a", "A"} |-> "a"],
              Contents <- DOMAIN Says, System <- Locale("de", "AT", ""), notice <- dirNotice
Calls    == INSTANCE Ipc WITH
              Gens <- CallGens, Handlers <- DOMAIN HandlerGens, GenOf <- HandlerGens, NoTarget <- Nothing,
              Arguments <- {<<"12">>, <<"true">>, <<>>}
Log      == INSTANCE LogFile WITH
              Categories <- {"shell"}, Foreign <- {"other"}, DefaultLevel <- [c \in {"shell"} |-> "Warn"],
              Sparse <- FALSE, Bodies <- {"text"}, Steps <- {0, 20, 40}, notice <- fileNotice
Instance == INSTANCE Instances
Live     == INSTANCE LiveReload

loaderVars  == <<loader, items, controller, bound, loadActs, spoiled>>
variantVars == <<model, instances, old, taken, varLoaded, modelActs>>
lockVars    == <<hook, lock, dropping, lockActs, uneven, forced>>
entryVars   == <<files, watched, dirNotice, debounce, scans, completed, inProgress, queued,
                 entries, lower, doomed, fileChanges, unseen>>
ipcVars     == <<gens, handler, known, used, client, conn, wire, ipcActs, due, bunched>>
logVars     == <<clock, made, posted, onDisk, ended, alive, file, writer, reader, fileNotice,
                 printed, written, odd>>
procVars    == <<proc, insts, links, tree, pragma, fails, daemon, reporter, reports, quits, procActs, amiss>>
liveVars    == <<disk, gen, watch, notices, watchFiles, load, tooling, tried, lost, edits>>
vars        == <<which, loaderVars, variantVars, lockVars, entryVars, ipcVars, logVars, procVars, liveVars>>

Init ==
  /\ which \in Explored
  /\ Loader!InitVariants /\ Retain!Init
  /\ Loader!Init  /\ (which # "loaders" => ~controller.interleave /\ loader.component = "none")
  /\ Entries!Init /\ (which # "entries" => watched = {"home"} /\ \A d \in DOMAIN files : \A i \in DOMAIN files[d] : files[d][i] = Entries!NoFile)
  /\ Calls!Init   /\ (which # "ipc" => \A h \in DOMAIN handler : handler[h].target = Nothing)
  /\ Log!Init     /\ (which # "log" => ~reader.follow /\ \A t \in Tails : reader.tail <= t)
  /\ Instance!Init /\ (which # "instances" => fails = {} /\ <<2, "shell">> \in tree)
  /\ Live!Init    /\ (which # "files" => disk = [root |-> "plain", type |-> "absent"] /\ tooling.ours)

\* One part steps, and the others are as they were.
Parts ==
  \/ which = "loaders"  /\ Loader!Next  /\ UNCHANGED <<variantVars, lockVars>>
  \/ which = "variants" /\ Loader!NextVariants /\ UNCHANGED <<loaderVars, lockVars>>
  \/ which = "retain"   /\ Retain!Next  /\ UNCHANGED <<loaderVars, variantVars>>
Next ==
  /\ UNCHANGED which
  /\ \/ Parts                             /\ UNCHANGED <<entryVars, ipcVars, logVars, procVars, liveVars>>
     \/ which = "entries" /\ Entries!Next /\ UNCHANGED <<loaderVars, variantVars, lockVars, ipcVars, logVars, procVars, liveVars>>
     \/ which = "ipc"     /\ Calls!Next   /\ UNCHANGED <<loaderVars, variantVars, lockVars, entryVars, logVars, procVars, liveVars>>
     \/ which = "log"     /\ Log!Next     /\ UNCHANGED <<loaderVars, variantVars, lockVars, entryVars, ipcVars, procVars, liveVars>>
     \/ which = "instances" /\ Instance!Next /\ UNCHANGED <<loaderVars, variantVars, lockVars, entryVars, ipcVars, logVars, liveVars>>
     \/ which = "files"   /\ Live!Next    /\ UNCHANGED <<loaderVars, variantVars, lockVars, entryVars, ipcVars, logVars, procVars>>

Spec == Init /\ [][Next]_vars

-----------------------------------------------------------------------------
\* The properties of the modules, stated there.

\* The loader has the item it made while it is wanted, what was dropped is not retained but by a lock,
\* the first handler that is there is called, files are watched as the setting says, and commands of other
\* processes find the instances that run and no others, of which none is twice, whatever crashed or was
\* launched again (Loaders, Retainable, Ipc, LiveReload, Instances).
ProgramHolds ==
  /\ which = "loaders"   => Loader!LoaderHolds
  /\ which = "retain"    => Retain!RetainedByLocks
  /\ which = "ipc"       => Calls!RegistryHolds
  /\ which = "files"     => Live!WatchesAsSet
  /\ which = "instances" => Instance!InstancesHold

\* A loader that is wanted loads, each value of a model has its instance and a reload matches them, at
\* rest the entries are those of the files, a command of another process is answered and hears each
\* signal it waits for, and a change of the configuration's files is loaded, or was tried (Loaders,
\* DesktopEntries, Ipc, LiveReload).
WishesAreServed ==
  /\ which = "loaders"   => Loader!NeverStranded
  /\ which = "variants"  => Loader!VariantsHold /\ Loader!ReloadMatches
  /\ which = "entries"   => Entries!EntriesHold /\ Entries!EntriesAreShown
  /\ which = "ipc"       => Calls!CallersAreServed
  /\ which = "files"     => Live!ChangesAreLoaded

\* While a lock holds an object it is not destroyed.
NotWhileLocked == Retain!NotWhileLocked

\* The detailed log is read as it was written, and printed as the filters say.
LogReadsBack == which = "log" => Log!LogReadsBack /\ Log!PrintsWhatPasses
=============================================================================
