------------------------------ MODULE FileView ------------------------------
(***************************************************************************)
(* qs::io::FileView, the file accessor exposed to shell configurations     *)
(* (src/src/io/fileview.cpp).  One FileView object lives on the main       *)
(* thread; each asynchronous read or write is a FileViewOperation that a   *)
(* thread of the global QThreadPool runs and that reports back with a      *)
(* queued call of finished() on the main thread.                           *)
(*                                                                         *)
(* The main thread's nested calls are a stack of frames, so that pool      *)
(* threads interleave between any two of them, so that waitForJob() really *)
(* blocks, and so that a QML handler of a completion signal can call back  *)
(* into the object while the emitting function is still on the stack.      *)
(***************************************************************************)
EXTENDS Naturals, Sequences, FiniteSets, TLC

CONSTANTS
  Paths,          \* paths the shell may give to the view
  Data,           \* nonempty file contents
  Ops,            \* operation objects that can exist at once
  Empty,          \* the empty content
  NoPath,         \* the empty path
  NoFile,         \* content of a path where no file exists
  NoOp,           \* the null operation pointer
  Options,        \* option records the shell may select
  Calls,          \* functions of the view the shell calls
  Writes,         \* contents the shell passes to setData()
  Handlers,       \* may a completion handler call back into the view?
  External,       \* may other programs change the files?
  Faults,         \* may file system calls fail?
  ReloadOnChange, \* does the shell install onFileChanged: this.reload() ?
  MaxDepth        \* bound on the nesting of completion handlers

Content == Data \cup {Empty}
Errors  == {"Success", "Unknown", "FileNotFound", "PermissionDenied", "NotAFile"}
Kinds   == {"reader", "writer"}
Signals == {"loaded", "loadFailed", "saved", "saveFailed"}

OptionRecord == [preload : BOOLEAN, blockLoading : BOOLEAN, blockAllReads : BOOLEAN,
                 blockWrites : BOOLEAN, atomicWrites : BOOLEAN, watchChanges : BOOLEAN]

ASSUME DistinctValues ==
  /\ Empty \notin Data /\ NoFile \notin Content
  /\ NoPath \notin Paths /\ NoOp \notin Ops

ASSUME ParameterTypes ==
  /\ Options \subseteq OptionRecord
  /\ Writes \subseteq Content
  /\ Calls \subseteq {"setPath", "read", "setData", "reload", "waitForJob", "setOption"}
  /\ {Handlers, External, Faults, ReloadOnChange} \subseteq BOOLEAN
  /\ MaxDepth \in Nat

VARIABLES
  disk,      \* content of each path, NoFile when absent
  ops,       \* the operation objects, shared with the pool threads
  opt,       \* QML options: preload, blockLoading, ...
  target,    \* targetPath
  inFlight,  \* pathInFlight
  prepared,  \* mPrepared
  st,        \* state: the FileViewState last applied
  writeData, \* data of the write being performed, Empty when none
  live,      \* liveOperation
  notify,    \* an inotify event is pending on the current watcher
  stack,     \* frames of the main thread, innermost first
  wanted     \* history: content last passed to setData for this path, or NoFile

view == <<target, inFlight, prepared, st, writeData, live>>
vars == <<disk, ops, opt, view, notify, stack, wanted>>

-----------------------------------------------------------------------------
(* Values *)

\* FileViewState; printErrors only selects log lines.
State == [path : Paths \cup {NoPath}, data : Content, exists : BOOLEAN, error : Errors]
BlankState == [path |-> NoPath, data |-> Empty, exists |-> FALSE, error |-> "Success"]

\* FileViewOperation.  conn: done() is connected to operationFinished().
\* told is history: the outcome has been announced by a completion signal.
Operation == [kind : Kinds, state : State, atomic : BOOLEAN, cancel : BOOLEAN, conn : BOOLEAN,
              pc : {"gone", "queued", "open", "write", "commit", "posted"}, told : BOOLEAN]
Gone == [kind |-> "reader", state |-> BlankState, atomic |-> FALSE, cancel |-> FALSE,
         conn |-> FALSE, pc |-> "gone", told |-> FALSE]

Frame == [at : {"cancelAsync", "waitForJob", "loadAsync", "startLoad", "saveSync", "emittedSync"}]
         \cup [at : {"setPath"}, path : Paths \cup {NoPath}]
         \cup [at : {"saveAsync"}, data : Content]
         \cup [at : {"emitted", "finished"}, sig : Signals, op : Ops]

NewOp(kind, path, data) ==
  [kind |-> kind, state |-> [BlankState EXCEPT !.path = path, !.data = data],
   atomic |-> opt.atomicWrites, cancel |-> FALSE, conn |-> TRUE, pc |-> "queued",
   told |-> FALSE]

\* No file exists at the empty path.  A writer may meet it: a handler that ran
\* inside cancelAsync() can have cleared the path.
FileAt(p)   == IF p = NoPath THEN NoFile ELSE disk[p]

Active(o)   == ops[o].pc \notin {"gone", "posted"}
Running(o)  == ops[o].pc \in {"open", "write", "commit"}
LiveReader  == live # NoOp /\ ops[live].kind = "reader"
LiveWriter  == live # NoOp /\ ops[live].kind = "writer"
Loaded      == st.path # NoPath /\ st.exists

\* shouldBlockRead()
ShouldBlockRead == opt.blockAllReads \/ (opt.blockLoading /\ ~Loaded)

\* writeCmpData(): the data being written if any, else the data held.
WriteCmpData == IF writeData = Empty THEN st.data ELSE writeData

CompletionSignal(kind, error) ==
  CASE kind = "reader" /\ error = "Success" -> "loaded"
    [] kind = "reader" /\ error # "Success" -> "loadFailed"
    [] kind = "writer" /\ error = "Success" -> "saved"
    [] kind = "writer" /\ error # "Success" -> "saveFailed"

-----------------------------------------------------------------------------
(* The main thread's stack *)

At(label) == stack # <<>> /\ Head(stack).at = label
Top       == Head(stack)
Return    == stack' = Tail(stack)
Goto(fs)  == stack' = fs \o Tail(stack)   \* replace the innermost frame
Call(fs)  == stack' = fs \o stack
F(label)  == [at |-> label]

Emitting == stack # <<>> /\ Top.at \in {"emitted", "finished", "emittedSync"}

\* Bound: a call starts only while an operation object is left for it and for
\* the calls below it.
Starts == {"setPath", "loadAsync", "startLoad", "saveAsync"}
OpLeft == Cardinality({i \in DOMAIN stack : stack[i].at \in Starts})
            < Cardinality({o \in Ops : ops[o].pc = "gone"})

\* QML runs from the event loop, or from a handler of a completion signal.
CanCall(f) == /\ f \in Calls
              /\ stack = <<>> \/ (Handlers /\ Emitting /\ Len(stack) <= MaxDepth)
              /\ OpLeft

\* updateState(): loaded is derived, the property signals only re-evaluate
\* bindings, which read what is set here.
UpdateState(s) == st' = s /\ prepared' = TRUE

\* updateState() with the state of operation o, whose path is moved into the
\* view; moving a QString swaps.  The completion signal follows.
Apply(o, connected) ==
  /\ writeData' = Empty
  /\ UpdateState(ops[o].state)
  /\ ops' = [ops EXCEPT ![o].state.path = st.path, ![o].told = TRUE,
                        ![o].conn = connected]

\* The current watcher sees a change of the file it watches.
Touch(p, c) ==
  /\ disk' = [disk EXCEPT ![p] = c]
  /\ notify' = (notify \/ (p = target /\ opt.watchChanges))

\* updateWatchedFiles(): a new watcher; an event pending on the old one may
\* be delivered before its deferred deletion.
UpdateWatchedFiles == notify' \in {FALSE, notify}

Init ==
  /\ disk \in [Paths -> Content \cup {NoFile}]
  /\ ops = [o \in Ops |-> Gone]
  /\ opt \in Options
  /\ target = NoPath /\ inFlight = NoPath /\ prepared = FALSE
  /\ st = BlankState /\ writeData = Empty /\ live = NoOp
  /\ notify = FALSE /\ stack = <<>>
  /\ wanted = NoFile

-----------------------------------------------------------------------------
(* Functions called from QML *)

\* Mutant: the path changes under a running operation.
SetPathNoCancel(p) ==
  /\ CanCall("setPath") /\ p # target
  /\ Call(<<[at |-> "setPath", path |-> p]>>)
  /\ UNCHANGED <<disk, ops, opt, view, notify, wanted>>

SetPath(p) ==
  /\ CanCall("setPath") /\ p # target
  /\ Call(<<F(IF LiveWriter THEN "waitForJob" ELSE "cancelAsync"), [at |-> "setPath", path |-> p]>>)
  /\ UNCHANGED <<disk, ops, opt, view, notify, wanted>>

\* updatePath() with targetPath already p; fs are the frames below this call.
UpdatePath(p, fs) ==
  /\ target' = p
  /\ wanted' = IF p = target THEN wanted ELSE NoFile
  /\ IF p = NoPath
     THEN UpdateState(BlankState) /\ stack' = fs
     ELSE /\ prepared' = FALSE
          /\ stack' = IF opt.preload THEN <<F("loadAsync")>> \o fs ELSE fs
          /\ UNCHANGED st
  /\ UpdateWatchedFiles
  /\ UNCHANGED <<disk, ops, opt, inFlight, writeData, live>>

SetPathContinue == At("setPath") /\ UpdatePath(Top.path, Tail(stack))

Reload == CanCall("reload") /\ UpdatePath(target, stack)

WaitForJobCall ==
  /\ CanCall("waitForJob") /\ live # NoOp
  /\ Call(<<F("waitForJob")>>)
  /\ UNCHANGED <<disk, ops, opt, view, notify, wanted>>

\* text() and data() of an unprepared view; of a prepared one they only return.
ReadAsync ==
  /\ CanCall("read") /\ ~prepared /\ ~ShouldBlockRead
  /\ Call(<<F("loadAsync")>>)
  /\ UNCHANGED <<disk, ops, opt, view, notify, wanted>>

\* loadSync() with an operation in flight waits for it instead of reading.
ReadWaiting ==
  /\ CanCall("read") /\ ~prepared /\ ShouldBlockRead /\ target # NoPath /\ live # NoOp
  /\ Call(<<F("waitForJob")>>)
  /\ UNCHANGED <<disk, ops, opt, view, notify, wanted>>

\* What FileViewReader::read() can make of path p in the current file system.
ReadResults(p) ==
  LET r == [BlankState EXCEPT !.path = p, !.exists = disk[p] # NoFile]
  IN  IF disk[p] = NoFile
      THEN {[r EXCEPT !.error = "FileNotFound"]}
      ELSE {[r EXCEPT !.data = disk[p]]}
           \cup (IF Faults THEN {[r EXCEPT !.error = e] : e \in {"NotAFile", "PermissionDenied", "Unknown"}}
                 ELSE {})

ReadSync ==
  /\ CanCall("read") /\ ~prepared /\ ShouldBlockRead /\ live = NoOp
  /\ IF target = NoPath
     THEN UpdateState(BlankState) /\ UNCHANGED stack
     ELSE /\ \E r \in ReadResults(target) : UpdateState(r)
          /\ Call(<<F("emittedSync")>>)
  /\ UNCHANGED <<disk, ops, opt, target, inFlight, writeData, live, notify, wanted>>

\* setText() and setData(), which differ in the conversion only.
SetData(d) ==
  /\ CanCall("setData") /\ target # NoPath
  /\ wanted' = d
  /\ IF d = WriteCmpData
     THEN UNCHANGED <<writeData, stack>>
     ELSE /\ writeData' = d
          /\ Call(CASE ~opt.blockWrites -> <<F("cancelAsync"), [at |-> "saveAsync", data |-> d]>>
                    [] opt.blockWrites /\ live # NoOp -> <<F("cancelAsync"), F("saveSync")>>
                    [] opt.blockWrites /\ live = NoOp -> <<F("saveSync")>>)
  /\ UNCHANGED <<disk, ops, opt, target, inFlight, prepared, st, live, notify>>

\* A write without a path is refused with a warning.
SetDataNoPath(d) ==
  /\ CanCall("setData") /\ target = NoPath /\ d # WriteCmpData
  /\ writeData' = Empty
  /\ UNCHANGED <<disk, ops, opt, target, inFlight, prepared, st, live, notify, stack, wanted>>

\* The option setters.  Only preload and watchChanges act at once.
SetOption(o) ==
  /\ CanCall("setOption") /\ o \in Options /\ o # opt
  /\ opt' = o
  /\ IF o.preload /\ ~opt.preload /\ ~prepared THEN Call(<<F("loadAsync")>>) ELSE UNCHANGED stack
  /\ IF o.watchChanges # opt.watchChanges THEN UpdateWatchedFiles ELSE UNCHANGED notify
  /\ UNCHANGED <<disk, ops, view, wanted>>

-----------------------------------------------------------------------------
(* Continuations of those functions *)

\* Mutant: an abandoned read stays connected.
CancelAsyncKeepsConnection ==
  /\ At("cancelAsync")
  /\ CASE live = NoOp -> Return /\ UNCHANGED <<ops, live>>
       [] LiveReader  -> /\ ops' = [ops EXCEPT ![live].cancel = TRUE]
                         /\ live' = NoOp
                         /\ Return
       [] LiveWriter  -> /\ ops' = [ops EXCEPT ![live].cancel = TRUE]
                         /\ Goto(<<F("waitForJob")>>)
                         /\ UNCHANGED live
  /\ UNCHANGED <<disk, opt, target, inFlight, prepared, st, writeData, notify, wanted>>

\* Mutant: a write is abandoned like a read ("this really shouldn't block").
CancelAsyncNeverBlocks ==
  /\ At("cancelAsync")
  /\ IF live = NoOp
     THEN UNCHANGED <<ops, live>>
     ELSE /\ ops' = [ops EXCEPT ![live].cancel = TRUE, ![live].conn = FALSE]
          /\ live' = NoOp
  /\ Return
  /\ UNCHANGED <<disk, opt, target, inFlight, prepared, st, writeData, notify, wanted>>

CancelAsync ==
  /\ At("cancelAsync")
  /\ CASE live = NoOp -> Return /\ UNCHANGED <<ops, live>>
       [] LiveReader  -> /\ ops' = [ops EXCEPT ![live].cancel = TRUE, ![live].conn = FALSE]
                         /\ live' = NoOp
                         /\ Return
       [] LiveWriter  -> /\ ops' = [ops EXCEPT ![live].cancel = TRUE]
                         /\ Goto(<<F("waitForJob")>>)
                         /\ UNCHANGED live
  /\ UNCHANGED <<disk, opt, target, inFlight, prepared, st, writeData, notify, wanted>>

\* waitForJob(): blocks until finishRun() has unlocked blockMutex, then
\* applies the result and emits.
WaitForJob ==
  /\ At("waitForJob") /\ live # NoOp /\ ops[live].pc = "posted"
  /\ LET sig == CompletionSignal(ops[live].kind, ops[live].state.error)
     IN  Goto(<<[at |-> "emitted", sig |-> sig, op |-> live]>>)
  /\ Apply(live, FALSE)
  /\ UNCHANGED <<disk, opt, target, inFlight, live, notify, wanted>>



WaitForJobDone ==
  /\ At("emitted")
  /\ live' = NoOp
  /\ Return
  /\ UNCHANGED <<disk, ops, opt, target, inFlight, prepared, st, writeData, notify, wanted>>

SyncDone ==
  /\ At("emittedSync")
  /\ Return
  /\ UNCHANGED <<disk, ops, opt, view, notify, wanted>>



LoadAsync ==
  /\ At("loadAsync")
  /\ IF live = NoOp \/ inFlight # target
     THEN Goto(<<F("cancelAsync"), F("startLoad")>>)
     ELSE Return
  /\ UNCHANGED <<disk, ops, opt, view, notify, wanted>>

StartLoad ==
  /\ At("startLoad")
  /\ inFlight' = target
  /\ Return
  /\ IF target = NoPath
     THEN UpdateState(BlankState) /\ UNCHANGED <<ops, live>>
     ELSE \E o \in Ops :
            /\ ops[o].pc = "gone"
            /\ ops' = [ops EXCEPT ![o] = NewOp("reader", target, Empty)]
            /\ live' = o
            /\ UNCHANGED <<prepared, st>>
  /\ UNCHANGED <<disk, opt, target, writeData, notify, wanted>>

\* saveAsync() after cancelAsync(), with the data it copied before.
SaveAsync ==
  /\ At("saveAsync")
  /\ \E o \in Ops :
       /\ ops[o].pc = "gone"
       /\ ops' = [ops EXCEPT ![o] = NewOp("writer", target, Top.data)]
       /\ live' = o
  /\ Return
  /\ UNCHANGED <<disk, opt, target, inFlight, prepared, st, writeData, notify, wanted>>

\* Mutant: a blocking write does not update the state.
SaveSyncForgetsState ==
  /\ At("saveSync")
  /\ Goto(<<F("emittedSync")>>)
  /\ Touch(target, writeData)
  /\ writeData' = Empty
  /\ UNCHANGED <<ops, opt, target, inFlight, prepared, st, live, wanted>>

\* FileViewWriter::write() on the main thread, with the data left in writeData.
SaveSync ==
  /\ At("saveSync")
  /\ Goto(<<F("emittedSync")>>)
  /\ LET r == [path |-> target, data |-> writeData, exists |-> FileAt(target) # NoFile,
               error |-> "Success"]
     IN  \/ target # NoPath /\ Touch(target, writeData) /\ UpdateState(r)
         \/ /\ Faults \/ target = NoPath
            /\ \E e \in {"PermissionDenied", "Unknown"} : UpdateState([r EXCEPT !.error = e])
            /\ UNCHANGED <<disk, notify>>
  /\ writeData' = Empty
  /\ UNCHANGED <<ops, opt, target, inFlight, live, wanted>>

-----------------------------------------------------------------------------
(* Pool threads: FileViewReader::run() and FileViewWriter::run() *)

Step(o, pc) == ops' = [ops EXCEPT ![o].pc = pc]
Post(o, s)  == ops' = [ops EXCEPT ![o].pc = "posted", ![o].state = s]

\* Both check shouldCancel before every step that touches the file.
Canceled(o) ==
  /\ Active(o) /\ ops[o].cancel
  /\ Post(o, ops[o].state)
  /\ UNCHANGED <<disk, opt, view, notify, stack, wanted>>

At1(o, kind, pc) == ops[o].kind = kind /\ ops[o].pc = pc /\ ~ops[o].cancel

Failed(o, errors) == \E e \in errors : Post(o, [ops[o].state EXCEPT !.error = e])

ReaderCheck(o) ==
  LET s == [ops[o].state EXCEPT !.exists = FileAt(ops[o].state.path) # NoFile]
  IN  /\ At1(o, "reader", "queued")
      /\ \/ s.exists /\ ops' = [ops EXCEPT ![o].pc = "open", ![o].state = s]
         \/ ~s.exists /\ Post(o, [s EXCEPT !.error = "FileNotFound"])
         \/ /\ s.exists /\ Faults
            /\ \E e \in {"NotAFile", "PermissionDenied"} : Post(o, [s EXCEPT !.error = e])
      /\ UNCHANGED <<disk, opt, view, notify, stack, wanted>>

\* Mutant: the file is assumed to exist still.
ReaderReadUnchecked(o) ==
  /\ At1(o, "reader", "open")
  /\ Post(o, [ops[o].state EXCEPT !.data = FileAt(ops[o].state.path)])
  /\ UNCHANGED <<disk, opt, view, notify, stack, wanted>>

ReaderRead(o) ==
  LET c == FileAt(ops[o].state.path)
  IN  /\ At1(o, "reader", "open")
      /\ \/ c # NoFile /\ Post(o, [ops[o].state EXCEPT !.data = c])
         \/ (c = NoFile \/ Faults) /\ Failed(o, {"Unknown"})
      /\ UNCHANGED <<disk, opt, view, notify, stack, wanted>>

\* state.exists is taken before the write creates the file.
WriterCheck(o) ==
  LET s == [ops[o].state EXCEPT !.exists = FileAt(ops[o].state.path) # NoFile]
  IN  /\ At1(o, "writer", "queued")
      /\ \/ ops' = [ops EXCEPT ![o].pc = "open", ![o].state = s]
         \/ Faults /\ Post(o, [s EXCEPT !.error = "PermissionDenied"])
      /\ UNCHANGED <<disk, opt, view, notify, stack, wanted>>

\* Mutant: an atomic write opens the file itself.
WriterOpenTruncates(o) ==
  /\ At1(o, "writer", "open")
  /\ Step(o, "write")
  /\ Touch(ops[o].state.path, Empty)
  /\ UNCHANGED <<opt, view, stack, wanted>>

\* Opening a QFile truncates it; a QSaveFile writes to a temporary file.
WriterOpen(o) ==
  /\ At1(o, "writer", "open")
  /\ \/ /\ ops[o].state.path # NoPath
        /\ Step(o, "write")
        /\ IF ops[o].atomic THEN UNCHANGED <<disk, notify>> ELSE Touch(ops[o].state.path, Empty)
     \/ /\ Faults \/ ops[o].state.path = NoPath
        /\ Failed(o, {"Unknown"})
        /\ UNCHANGED <<disk, notify>>
  /\ UNCHANGED <<opt, view, stack, wanted>>

Land(o) ==
  /\ Touch(ops[o].state.path, ops[o].state.data)
  /\ ops' = [ops EXCEPT ![o].pc = "posted"]

WriterWrite(o) ==
  /\ At1(o, "writer", "write")
  /\ \/ ops[o].atomic /\ Step(o, "commit") /\ UNCHANGED <<disk, notify>>
     \/ ~ops[o].atomic /\ Land(o)
     \/ Faults /\ Failed(o, {"Unknown"}) /\ UNCHANGED <<disk, notify>>
  /\ UNCHANGED <<opt, view, stack, wanted>>

\* A failed QSaveFile::commit() is logged and sets no error.
WriterCommit(o) ==
  /\ At1(o, "writer", "commit")
  /\ \/ Land(o)
     \/ Faults /\ Step(o, "posted") /\ UNCHANGED <<disk, notify>>
  /\ UNCHANGED <<opt, view, stack, wanted>>

PoolThread(o) ==
  \/ Canceled(o)
  \/ ReaderCheck(o) \/ ReaderRead(o)
  \/ WriterCheck(o) \/ WriterOpen(o) \/ WriterWrite(o) \/ WriterCommit(o)

-----------------------------------------------------------------------------
(* Events of the main loop *)

\* finished() of an operation whose done() reaches operationFinished().
OperationFinished(o) ==
  /\ stack = <<>> /\ ops[o].pc = "posted" /\ ops[o].conn /\ o = live
  /\ Apply(o, TRUE)
  /\ LET sig == CompletionSignal(ops[o].kind, ops[o].state.error)
     IN  Call(<<[at |-> "finished", sig |-> sig, op |-> o]>>)
  /\ UNCHANGED <<disk, opt, target, inFlight, live, notify, wanted>>

\* After the handlers: liveOperation is cleared, the operation deletes itself.
OperationFinishedDone ==
  /\ At("finished")
  /\ live' = NoOp
  /\ ops' = [ops EXCEPT ![Top.op] = Gone]
  /\ Return
  /\ UNCHANGED <<disk, opt, target, inFlight, prepared, st, writeData, notify, wanted>>

\* Mutant: a disconnected operation does not delete itself.
DroppedFinishedLeaks(o) ==
  /\ stack = <<>> /\ ops[o].pc = "posted" /\ ops[o].conn /\ o # live
  /\ ops' = [ops EXCEPT ![o] = Gone]
  /\ UNCHANGED <<disk, opt, view, notify, stack, wanted>>

\* finished() of an operation that was disconnected, or that is not the live
\* one any more: it only deletes itself.
DroppedFinished(o) ==
  /\ stack = <<>> /\ ops[o].pc = "posted" /\ ~(ops[o].conn /\ o = live)
  /\ ops' = [ops EXCEPT ![o] = Gone]
  /\ UNCHANGED <<disk, opt, view, notify, stack, wanted>>

\* The watcher reports a change; the shell's handler may call reload().
\* It dereferences the watcher, so it cannot run once there is none.
WatcherExists == target # NoPath /\ opt.watchChanges

FileChanged ==
  /\ stack = <<>> /\ notify /\ WatcherExists /\ OpLeft
  /\ IF ReloadOnChange
     THEN /\ target' = target
          /\ prepared' = FALSE
          /\ notify' = FALSE
          /\ stack' = IF opt.preload THEN <<F("loadAsync")>> ELSE <<>>
     ELSE notify' = FALSE /\ UNCHANGED <<target, prepared, stack>>
  /\ UNCHANGED <<disk, ops, opt, inFlight, st, writeData, live, wanted>>

ExternalWrite(p, c) ==
  /\ External /\ disk[p] # c
  /\ Touch(p, c)
  /\ UNCHANGED <<ops, opt, view, stack, wanted>>

-----------------------------------------------------------------------------
MainStep ==
  \/ SetPathContinue \/ CancelAsync \/ WaitForJob \/ WaitForJobDone \/ SyncDone
  \/ LoadAsync \/ StartLoad \/ SaveAsync \/ SaveSync \/ OperationFinishedDone
  \/ \E o \in Ops : OperationFinished(o) \/ DroppedFinished(o)
  \/ FileChanged

ShellCall ==
  \/ \E p \in Paths \cup {NoPath} : SetPath(p)
  \/ \E d \in Writes : SetData(d) \/ SetDataNoPath(d)
  \/ \E o \in Options : SetOption(o)
  \/ Reload \/ WaitForJobCall \/ ReadAsync \/ ReadWaiting \/ ReadSync

Next ==
  \/ ShellCall
  \/ MainStep
  \/ \E o \in Ops : PoolThread(o)
  \/ \E p \in Paths, c \in Data \cup {NoFile} : ExternalWrite(p, c)

Spec == Init /\ [][Next]_vars

\* Calls return to the event loop, the pool runs every started operation, and
\* the loop, whose event queue is first in first out, reaches every posted
\* finished() however busy the shell keeps it.
Fairness ==
  /\ WF_vars(MainStep)
  /\ \A o \in Ops : WF_vars(PoolThread(o))
  /\ \A o \in Ops : SF_vars(OperationFinished(o) \/ DroppedFinished(o))
FairSpec == Spec /\ Fairness

-----------------------------------------------------------------------------
(* Properties *)

\* Every variable keeps its type.
TypeOK ==
  /\ disk \in [Paths -> Content \cup {NoFile}]
  /\ ops \in [Ops -> Operation]
  /\ opt \in OptionRecord
  /\ target \in Paths \cup {NoPath} /\ inFlight \in Paths \cup {NoPath}
  /\ prepared \in BOOLEAN /\ st \in State /\ writeData \in Content
  /\ live \in Ops \cup {NoOp}
  /\ notify \in BOOLEAN
  /\ stack \in Seq(Frame)
  /\ wanted \in Content \cup {NoFile}

\* An operation whose done() still reaches the view is the live one, so that
\* operationFinished() never meets a "dropped operation".  It holds while the
\* handlers of completion signals do not call back into the view.
ConnectedIsLive ==
  \A o \in Ops : ops[o].pc # "gone" /\ ops[o].conn => o = live

\* cancelAsync(): "We don't want to start a read or write operation in the
\* middle of a write."  Next to a running write only abandoned reads run.
WriterAlone ==
  \A w, o \in Ops :
    ops[w].kind = "writer" /\ Running(w) /\ Active(o) /\ o # w
      => ops[o].kind = "reader" /\ ops[o].cancel

\* A view that counts as prepared holds the outcome of an operation on its
\* current path, never that of a path it has left (setPath() cancels or waits).
PreparedIsCurrent == prepared => st.path = target

Quiet == stack = <<>> /\ live = NoOp /\ \A o \in Ops : ops[o].pc = "gone"

\* With no other writer on the file and no failing call, a prepared view at
\* rest holds the content of its file, whatever was cancelled on the way.
ViewMatchesDisk ==
  Quiet /\ prepared /\ target # NoPath
    => st.data = IF disk[target] = NoFile THEN Empty ELSE disk[target]

\* "saved() or saveFailed() will be emitted on completion": no write is
\* deleted before its outcome has been announced.
OutcomeAnnounced ==
  [][\A o \in Ops : ops[o].kind = "writer" /\ ops[o].pc = "posted" /\ ops'[o].pc = "gone"
                     => ops[o].told]_vars





\* atomicWrites: "if the write fails for any reason, the file will not be
\* modified": whatever fails or is cancelled, a file holds a complete content
\* that somebody wrote.
AtomicOrNothing ==
  [][\A p \in Paths : disk'[p] # disk[p] => disk'[p] \in Writes \cup (IF External THEN Data \cup {NoFile} ELSE {})]_vars

\* setText(): "Sets the content of the file specified by path": at rest the
\* file holds the content of the last call.
LastSetWins ==
  Quiet /\ target # NoPath /\ wanted # NoFile => disk[target] = wanted

\* Every started operation ends, and every call returns: waitForJob() does not
\* block for ever.
OperationsEnd == \A o \in Ops : Active(o) ~> ops[o].pc = "gone"

-----------------------------------------------------------------------------
(* Instances for TLC.                                                        *)

Base == [preload |-> TRUE, blockLoading |-> FALSE, blockAllReads |-> FALSE,
         blockWrites |-> FALSE, atomicWrites |-> TRUE, watchChanges |-> FALSE]

\* The defaults.
DefaultOptions == {Base}
\* Any combination of atomic and blocking operation, with preload.
EagerOptions == {[Base EXCEPT !.blockWrites = w, !.atomicWrites = a] : w, a \in BOOLEAN}
\* A watched file, loaded at once or on demand with blocking reads.
WatchOptions == {[Base EXCEPT !.watchChanges = TRUE, !.preload = p, !.blockAllReads = ~p] : p \in BOOLEAN}

OpSymmetry == Permutations(Ops)
=============================================================================
