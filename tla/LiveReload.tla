------------------------------- MODULE LiveReload ------------------------------
(* The files of a configuration (src/src/core): what a reload reads            *)
(* (scan.cpp), which files a generation watches and when a change of one leads *)
(* to another reload (generation.cpp, rootwrapper.cpp), and the copy of the    *)
(* configuration that is kept for editors (toolsupport.cpp).  What a reload    *)
(* does to objects is in Generation.                                           *)
EXTENDS FiniteSets, Naturals

CONSTANTS
  RootTexts,   \* what the root file can say, of "plain", "uses" (the type), "quiet" (watchFiles: false), "scan" (an unclosed //@ if)
  TypeTexts,   \* what the type can: "one" is good, "bad" is not, "gated" has an //@ if that fails
  MaxEdits     \* bound: what users and other programs do

VARIABLES
  disk,        \* the text of each file
  gen,         \* EngineGeneration: its scanner's hashes, its files, the extra ones, those deleted under it
  watch,       \* its QFileSystemWatcher: is there one, files(), those of them that are as they were
               \* when added, and the files whose directories it watches
  notices,     \* what the watchers have not told
  watchFiles,  \* QuickshellSettings.mWatchFiles
  load,        \* reloadGraph() at work: what it has read
  tooling,     \* is there a .qmlls.ini, is the lock this process', and the links in the vfs
  tried,       \* history: the disk at the last reload, and the files it found
  lost,        \* history: files of which a change was missed, and "setting"
  edits

liveVars == <<disk, gen, watch, notices, watchFiles, load, tooling, tried, lost, edits>>

\* The root file, and a type in another directory; each is alone in its own.
Files    == {"root", "type"}
Texts(f) == IF f = "root" THEN RootTexts ELSE TypeTexts
There(f) == disk[f] # "absent"

NoHash   == [f \in Files |-> "none"]
\* scanQmlRoot(): the root file, and the type if the root uses it and there is one.
Reads(text, f)   == IF f = "root" THEN text # "absent" ELSE text \notin {"absent", "none"}
HashOf(f, text)  == IF Reads(text, f) THEN text ELSE "none"
ScannedBy(hash)  == {"root"} \cup {f \in Files : hash[f] # "none"}
\* fileIntercepts: what is between //@ if and //@ endif becomes comments; again each time (here, once).
Masked(text)     == IF text = "gated" THEN "masked" ELSE text
Intercepted(h)   == {f \in Files : h[f] \in {"gated", "masked"}}
\* Whether the component is ready, as the engine finds the files.
Compiles == \/ disk["root"] \in {"plain", "quiet", "scan"}
            \/ disk["root"] = "uses" /\ disk["type"] \notin {"absent", "empty", "bad"}

\* hasFileContentChanged().
Changed(f) == gen.hash[f] = "none" \/ disk[f] # gen.hash[f]
OwnFiles   == gen.scanned \cup gen.extra
ScanErrors(hash) == \E f \in Files : hash[f] = "scan"

-----------------------------------------------------------------------------
(* Watching.                                                                 *)

NoWatch == [on |-> FALSE, files |-> {}, live |-> {}, dirs |-> {}]
\* setWatchingFiles(true) without a watcher: those that are not there are not watched.
WatchOf(files) == LET found == {f \in files : There(f)}
                  IN  [on |-> TRUE, files |-> found, live |-> found, dirs |-> files]
\* Those are not noticed when they come, but for the ones that are known to have gone.
Unwatched(files, deleted) == {f \in files : ~There(f) /\ f \notin deleted}

\* inotify (external): the end of a file is told of once, and its directory of what comes and goes.
Tells(f, what) == IF f \in watch.live THEN {<<f, what>>} ELSE {}
TellsDir(f)    == (IF f \in watch.dirs THEN {<<f, "dir">>} ELSE {}) \cup (IF f = "root" THEN {<<f, "tooling">>} ELSE {})

Edit == edits < MaxEdits /\ edits' = edits + 1
Writes(f, text) ==
  /\ disk' = [disk EXCEPT ![f] = text]
  /\ lost' = IF load.step = "idle" THEN lost ELSE lost \cup {f}
  /\ UNCHANGED <<gen, watchFiles, load, tooling, tried>>

\* Programs write a file in place, in two steps,
Truncate(f) ==
  /\ Edit /\ There(f) /\ disk[f] # "empty" /\ Writes(f, "empty")
  /\ notices' = notices \cup Tells(f, "changed") /\ UNCHANGED watch
Fill(f, text) ==
  /\ disk[f] = "empty" /\ Writes(f, text)
  /\ notices' = notices \cup Tells(f, "changed") /\ UNCHANGED <<watch, edits>>
\* or put another in its place (of which its links may be told before its end), or delete it.
Replace(f, text) ==
  /\ Edit /\ Writes(f, text)
  /\ \E link \in SUBSET Tells(f, "changed") : notices' = notices \cup link \cup Tells(f, "gone") \cup TellsDir(f)
  /\ watch' = [watch EXCEPT !.live = @ \ {f}]
Delete(f) ==
  /\ Edit /\ There(f) /\ Writes(f, "absent")
  /\ notices' = notices \cup Tells(f, "gone") \cup TellsDir(f)
  /\ watch' = [watch EXCEPT !.live = @ \ {f}]
\* .qmlls.ini comes or goes.
ToggleIni ==
  /\ Edit /\ tooling' = [tooling EXCEPT !.ini = ~@] /\ notices' = notices \cup TellsDir("root")
  /\ UNCHANGED <<disk, gen, watch, watchFiles, load, tried, lost>>

-----------------------------------------------------------------------------
(* Tooling.                                                                  *)

\* updateTooling(): a link to each file that was scanned; links of directories that no longer are
\* stay.  Without a .qmlls.ini all go; another process' lock leaves all as it is.
Links(hash) ==
  IF ~tooling.ours THEN tooling.links
  ELSE IF ~tooling.ini THEN [f \in Files |-> FALSE]
  ELSE [f \in Files |-> IF f \in ScannedBy(hash) THEN There(f) ELSE f # "root" /\ tooling.links[f]]
\* Then what is to be read instead of a file is written to its link, that is, to the file.
Written(hash) == {f \in Intercepted(hash) : /\ tooling.ours /\ tooling.ini /\ Links(hash)[f]
                                            /\ disk[f] # Masked(hash[f])}
UpdateTooling(hash) ==
  /\ tooling' = [tooling EXCEPT !.links = Links(hash)]
  /\ disk' = [f \in Files |-> IF f \in Written(hash) THEN Masked(hash[f]) ELSE disk[f]]
ToldOf(files) == UNION {Tells(f, "changed") : f \in files}

\* RootWrapper::updateTooling(), for what the generation scanned.
ToolingChanged ==
  /\ load.step = "idle" /\ <<"root", "tooling">> \in notices
  /\ UpdateTooling(gen.hash)
  /\ notices' = (notices \ {<<"root", "tooling">>}) \cup ToldOf(Written(gen.hash))
  /\ UNCHANGED <<gen, watch, watchFiles, load, tried, lost, edits>>

\* The process that has the lock ends: the next update takes it.
OtherEnds ==
  /\ ~tooling.ours /\ tooling' = [tooling EXCEPT !.ours = TRUE]
  /\ UNCHANGED <<disk, gen, watch, notices, watchFiles, load, tried, lost, edits>>

-----------------------------------------------------------------------------
(* Reloading.  Other programs write while it reads.                          *)

Idle == [step |-> "idle", hash |-> NoHash]
\* reloadGraph(): the root file is read.
BeginReload ==
  /\ load' = [step |-> "scan", hash |-> [NoHash EXCEPT !["root"] = HashOf("root", disk["root"])]]
  /\ tried' = [disk |-> disk, files |-> {"root"}] /\ lost' = lost \cap {"setting"}
\* Then the type, if the root uses it; the tooling and the settings.
Scan ==
  /\ load.step = "scan"
  /\ LET hash == IF load.hash["root"] = "uses"
                 THEN [load.hash EXCEPT !["type"] = HashOf("type", disk["type"])] ELSE load.hash
         stay == {f \in OwnFiles \cup ScannedBy(hash) : There(f) /\ f \notin watch.live}
     IN  /\ UpdateTooling(hash)
         /\ notices' = notices \cup ToldOf(Written(hash))
         /\ load' = IF ScanErrors(hash) THEN Idle ELSE [step |-> "load", hash |-> hash]
         /\ lost' = lost \cup Written(hash) \cup (IF ScanErrors(hash) THEN stay ELSE {})
                         \cup (IF watchFiles THEN {} ELSE {"setting"})
         /\ tried' = [tried EXCEPT !.files = ScannedBy(hash)]
  /\ watchFiles' = TRUE
  /\ UNCHANGED <<gen, watch, edits>>

\* A new generation, with a watcher of its own if it does not say that it wants none.
Loaded ==
  /\ load.step = "load" /\ Compiles
  /\ gen' = [hash |-> load.hash, scanned |-> ScannedBy(load.hash), extra |-> {}, deleted |-> {}]
  /\ watchFiles' = (disk["root"] # "quiet")
  /\ watch' = IF watchFiles' THEN WatchOf(ScannedBy(load.hash)) ELSE NoWatch
  /\ notices' = notices \cap {<<"root", "tooling">>} /\ load' = Idle
  /\ lost' = (lost \ {"setting"}) \cup Unwatched(gen'.scanned, {})
  /\ UNCHANGED <<disk, tooling, tried, edits>>
\* The component is not ready: the old generation watches also what the new one would be made of, with
\* a watcher of its own again; what was left of a batch of the old one is still told.
Failed ==
  /\ load.step = "load" /\ ~Compiles
  /\ LET more == ScannedBy(load.hash) \ gen.scanned
         kept == {<<n[1], "changed">> : n \in {m \in notices : m[2] \in {"changed", "gone"}}}
                 \cup {n \in notices : n[2] = "dir"}
     IN  /\ gen' = [gen EXCEPT !.extra = more,
                               !.hash = [f \in Files |-> IF f \in more THEN HashOf(f, disk[f]) ELSE gen.hash[f]]]
         /\ watch' = IF watch.on THEN WatchOf(gen.scanned \cup more) ELSE watch
         /\ \E n \in SUBSET kept : notices' = n \cup (notices \cap {<<"root", "tooling">>})
         /\ lost' = lost \cup Unwatched(gen.scanned \cup more, gen.deleted)
  /\ load' = Idle
  /\ UNCHANGED <<disk, watchFiles, tooling, tried, edits>>

\* onFileChanged(): of a file that is still watched, unless it is empty or as it was.
FileChanged(f) ==
  /\ load.step = "idle" /\ <<f, "changed">> \in notices /\ notices' = notices \ {<<f, "changed">>}
  /\ IF f \notin watch.files THEN gen' = [gen EXCEPT !.deleted = @ \cup {f}] /\ UNCHANGED <<load, tried, lost>>
     ELSE /\ UNCHANGED gen
          /\ IF disk[f] # "empty" /\ Changed(f) THEN BeginReload ELSE UNCHANGED <<load, tried, lost>>
  /\ UNCHANGED <<disk, watch, watchFiles, tooling, edits>>
\* onFileChanged(): of one that has gone; QFileSystemWatcher does not watch it any more.
FileGone(f) ==
  /\ load.step = "idle" /\ <<f, "gone">> \in notices /\ notices' = notices \ {<<f, "gone">>, <<f, "changed">>}
  /\ watch' = [watch EXCEPT !.files = @ \ {f}]
  /\ gen' = [gen EXCEPT !.deleted = @ \cup {f}]
  /\ UNCHANGED <<disk, watchFiles, load, tooling, tried, lost, edits>>
\* onDirectoryChanged(): a file that was deleted is there again, and is another.
Again == {f \in gen.deleted : There(f)}
DirectoryChanged(f) ==
  /\ load.step = "idle" /\ <<f, "dir">> \in notices /\ notices' = notices \ {<<f, "dir">>}
  /\ IF \E g \in Again : Changed(g) THEN BeginReload
     ELSE lost' = lost \cup (Again \ watch.live) \cup {g \in {f} : <<g, "gone">> \in notices} /\ UNCHANGED <<load, tried>>
  /\ UNCHANGED <<disk, gen, watch, watchFiles, tooling, edits>>

\* Quickshell.reload() and Quickshell.watchFiles, by the configuration.
UserReload ==
  /\ load.step = "idle" /\ Edit /\ BeginReload
  /\ UNCHANGED <<disk, gen, watch, notices, watchFiles, tooling>>
SetWatchFiles ==
  /\ load.step = "idle" /\ Edit /\ watchFiles' = ~watchFiles
  /\ watch' = IF ~watchFiles' THEN NoWatch ELSE IF watch.on THEN watch ELSE WatchOf(OwnFiles)
  /\ notices' = IF watchFiles' THEN notices ELSE notices \cap {<<"root", "tooling">>}
  /\ lost' = (lost \ {"setting"}) \cup (IF watchFiles' /\ ~watch.on THEN Files ELSE {})
  /\ UNCHANGED <<disk, gen, load, tooling, tried>>

-----------------------------------------------------------------------------
\* The configuration was loaded.
Init ==
  /\ disk \in [Files -> {"absent"} \cup RootTexts \cup TypeTexts]
  /\ \A f \in Files : disk[f] \in {"absent"} \cup Texts(f)
  /\ Compiles /\ \A f \in Files : disk[f] # "scan"
  /\ gen = [hash |-> [f \in Files |-> IF f = "root" \/ disk["root"] = "uses" THEN HashOf(f, disk[f]) ELSE "none"],
            scanned |-> {"root"} \cup {f \in {"type"} : disk["root"] = "uses"}, extra |-> {}, deleted |-> {}]
  /\ tried = [disk |-> disk, files |-> gen.scanned] /\ edits = 0 /\ lost = {} /\ notices = {} /\ load = Idle
  /\ watchFiles = (disk["root"] # "quiet")
  /\ watch = IF watchFiles THEN WatchOf(gen.scanned) ELSE NoWatch
  /\ tooling \in [ini : {FALSE}, ours : BOOLEAN, links : {[f \in Files |-> FALSE]}]

Next ==
  \/ \E f \in Files : Truncate(f) \/ (\E t \in Texts(f) : Fill(f, t) \/ Replace(f, t)) \/ Delete(f)
  \/ \E f \in Files : FileChanged(f) \/ FileGone(f) \/ DirectoryChanged(f)
  \/ ToggleIni \/ ToolingChanged \/ OtherEnds \/ Scan \/ Loaded \/ Failed \/ UserReload \/ SetWatchFiles

-----------------------------------------------------------------------------
AtRest == load.step = "idle" /\ notices = {}

\* While files are watched, what each says at rest runs, or was tried since, also of those that a
\* reload found and failed to load: unless the directory was told of before the file's end, the file
\* came back as it was, or was replaced or found by a scan with an error, which leaves it unwatched,
\* it changed while it was read, or watching was off (generation.cpp:231, :247, rootwrapper.cpp:74).
\* Empty files are taken for half written.
ChangesAreLoaded ==
  AtRest /\ watch.on => \A f \in (OwnFiles \cup tried.files) \ lost :
    disk[f] \notin {"absent", "empty"} => disk[f] \in {gen.hash[f], tried.disk[f]}
\* The files are watched as the setting says, but for one that a failed reload has reset
\* (qmlglobal.cpp:52); and of a process that has the lock, the links are those of .qmlls.ini.
WatchesAsSet ==
  AtRest => /\ watch.on => watchFiles
            /\ "setting" \notin lost => watch.on = watchFiles
            /\ tooling.ours /\ ~tooling.ini => \A f \in Files : ~tooling.links[f]
=============================================================================
