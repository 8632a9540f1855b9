------------------------------ MODULE Process ------------------------------
(***************************************************************************)
(* Process (src/src/io/process.cpp): a child process run for the shell.    *)
(* The shell starts, stops and replaces it at any time, also in the        *)
(* handlers of its signals; what the operating system does is reported     *)
(* later by the event loop.  QProcess is external: it is starting or       *)
(* running, and may have been asked to terminate.  Of its output streams,  *)
(* which are alike, one is modelled: the child writes chunks that end in a *)
(* marker or do not, and a parser, which the shell may exchange, splits    *)
(* them at the markers or collects them to the end.                        *)
(***************************************************************************)
EXTENDS Naturals, Sequences

CONSTANTS
  Commands,
  NoCommand,
  CanFail,    \* may a command fail to start?
  MaxOutput   \* bound on the chunks a child writes

VARIABLES
  isPostReload,
  command,        \* mCommand
  targetRunning,
  process,        \* the QProcess
  parser,         \* mStdoutParser: "none", "split" or "collect"
  output,         \* of this run: is the channel open, what of it is unread, is readyRead due,
                  \* stdoutBuffer; history: what the child wrote, what the parser gave on, and
                  \* whether it is the parser the run began with (otherwise neither is noted)
  step,           \* the signals being emitted
  announced,      \* history: `running' as the last runningChanged() showed it
  failed          \* history: a command failed to start while another start was wanted

processVars == <<isPostReload, command, targetRunning, process, parser, output, step, announced,
                 failed>>

NoProcess == [st |-> "none", terminated |-> FALSE]
Running   == process # NoProcess

\* The stream of a new QProcess: without a parser its channel is closed.
NoOutput(opened, kept) == [open |-> opened, pipe |-> <<>>, ready |-> FALSE, buffer |-> <<>>,
                           wrote |-> <<>>, heard |-> <<>>, kept |-> kept]

\* How many of these chunks a SplitParser gives on: those up to the last that ends in a marker.
Whole(chunks) == CHOOSE n \in 0..Len(chunks) :
                   /\ n = 0 \/ chunks[n][2] = "line"
                   /\ \A i \in n+1..Len(chunks) : chunks[i][2] = "part"

\* parseBytes(): a splitter gives on what is whole and keeps the rest, a collector keeps all.
ParseBytes(p, out, chunks) ==
  IF p = "split"
  THEN [out EXCEPT !.heard = IF out.kept THEN @ \o SubSeq(chunks, 1, Whole(chunks)) ELSE @,
                   !.buffer = SubSeq(chunks, Whole(chunks) + 1, Len(chunks))]
  ELSE [out EXCEPT !.buffer = chunks]

\* streamEnded(): a splitter gives on the rest, a collector what it collected; stdoutBuffer.clear().
StreamEnded(p, out) ==
  [out EXCEPT !.heard = IF ~out.kept THEN @ ELSE IF p = "split" THEN @ \o out.buffer ELSE out.buffer,
              !.buffer = <<>>]

-----------------------------------------------------------------------------
\* startProcessIfReady(), with the members set to these values.
StartProcessIfReady(post, cmd, wanted, proc) ==
  IF proc = NoProcess /\ post /\ wanted /\ cmd # NoCommand
  THEN /\ process' = [st |-> "starting", terminated |-> FALSE] /\ targetRunning' = FALSE
       /\ output' = NoOutput(parser # "none", parser # "none")
  ELSE process' = proc /\ targetRunning' = wanted /\ UNCHANGED output

Terminated(proc) == IF proc = NoProcess THEN proc ELSE [proc EXCEPT !.terminated = TRUE]

OnPostReload ==
  /\ ~isPostReload /\ step = "none"
  /\ isPostReload' = TRUE
  /\ StartProcessIfReady(TRUE, command, targetRunning, process)
  /\ UNCHANGED <<command, parser, step, announced, failed>>

SetRunning(running) ==
  /\ IF running THEN StartProcessIfReady(isPostReload, command, TRUE, process)
     ELSE targetRunning' = FALSE /\ process' = Terminated(process) /\ UNCHANGED output
  /\ UNCHANGED <<isPostReload, command, parser, step, announced, failed>>

SetCommand(cmd) ==
  /\ cmd # command
  /\ command' = cmd
  /\ StartProcessIfReady(isPostReload, cmd, targetRunning, process)
  /\ UNCHANGED <<isPostReload, parser, step, announced, failed>>

\* exec(): running = false, the command, and if it is not empty running = true.
Exec(cmd) ==
  /\ command' = cmd
  /\ StartProcessIfReady(isPostReload, cmd, cmd # NoCommand, Terminated(process))
  /\ UNCHANGED <<isPostReload, parser, step, announced, failed>>

-----------------------------------------------------------------------------
(* What the event loop reports *)

OnStarted ==
  /\ step = "none" /\ process.st = "starting"
  /\ process' = [process EXCEPT !.st = "running"]
  /\ step' = "changed" /\ announced' = TRUE
  /\ UNCHANGED <<isPostReload, command, targetRunning, parser, output, failed>>

\* onErrorOccurred(FailedToStart): nothing is started after it.
OnErrorOccurred ==
  /\ step = "none" /\ CanFail /\ process.st = "starting"
  /\ process' = NoProcess
  /\ step' = "changed" /\ announced' = FALSE
  /\ failed' = (failed \/ targetRunning)
  /\ UNCHANGED <<isPostReload, command, targetRunning, parser, output>>

\* onFinished(), with the ends of its streams and exited(): QProcess has read all before.
OnFinished ==
  /\ step = "none" /\ process.st = "running" /\ ~output.ready
  /\ process' = NoProcess
  /\ output' = StreamEnded(parser, output)
  /\ step' = "exited"
  /\ UNCHANGED <<isPostReload, command, targetRunning, parser, announced, failed>>

RunningChanged ==
  /\ step = "exited"
  /\ step' = "runningChanged" /\ announced' = Running
  /\ UNCHANGED <<isPostReload, command, targetRunning, process, parser, output, failed>>

\* Mutant: a process that has ended is not started again.
RestartNever ==
  /\ step = "runningChanged"
  /\ step' = "none"
  /\ UNCHANGED <<isPostReload, command, targetRunning, process, parser, output, announced, failed>>

\* "for `running = false; running = true`"
Restart ==
  /\ step = "runningChanged"
  /\ StartProcessIfReady(isPostReload, command, targetRunning, process)
  /\ step' = "none"
  /\ UNCHANGED <<isPostReload, command, parser, announced, failed>>

Changed ==
  /\ step = "changed"
  /\ step' = "none"
  /\ UNCHANGED <<isPostReload, command, targetRunning, process, parser, output, announced, failed>>

-----------------------------------------------------------------------------
(* The streams *)

streamKeeps == <<isPostReload, command, targetRunning, process, step, announced, failed>>

\* setStdoutParser(): exchanging a parser closes the channel for the rest of the run, and drops
\* what is unread; a parser set after the former was destroyed takes over what that had left,
\* given as what comes in and as the buffer at once: a collector has it twice (bounded by MaxOutput).
SetStdoutParser(p) ==
  LET discards == parser # "none" /\ process # NoProcess
      left == IF discards THEN [output EXCEPT !.open = FALSE, !.pipe = <<>>, !.ready = FALSE, !.buffer = <<>>]
                          ELSE output
      over == [left EXCEPT !.heard = <<>>, !.kept = FALSE]
  IN /\ p # parser
     /\ Len(left.buffer) <= MaxOutput
     /\ parser' = p
     /\ output' = IF p = "none" \/ left.buffer = <<>> THEN over
                  ELSE ParseBytes(p, over, IF p = "collect" THEN left.buffer \o left.buffer ELSE left.buffer)
     /\ UNCHANGED streamKeeps

\* onStdoutParserDestroyed(): nothing is closed.
OnStdoutParserDestroyed ==
  /\ parser # "none"
  /\ parser' = "none"
  /\ output' = [output EXCEPT !.heard = <<>>, !.kept = FALSE]
  /\ UNCHANGED streamKeeps

\* The child writes, and QProcess reads it if the channel is open.
ChildWrites(kind) ==
  /\ process.st = "running" /\ Len(output.wrote) < MaxOutput
  /\ LET chunk == <<Len(output.wrote) + 1, kind>>
     IN output' = [output EXCEPT !.wrote = Append(@, chunk),
                                 !.pipe  = IF output.open THEN Append(@, chunk) ELSE @,
                                 !.ready = output.open]
  /\ UNCHANGED <<streamKeeps, parser>>

\* onStdoutReadyRead(): without a parser the output waits for the next time.
OnStdoutReadyRead ==
  /\ step = "none" /\ output.ready
  /\ output' = IF parser = "none" THEN [output EXCEPT !.ready = FALSE]
               ELSE ParseBytes(parser, [output EXCEPT !.ready = FALSE, !.pipe = <<>>],
                               output.buffer \o output.pipe)
  /\ UNCHANGED <<streamKeeps, parser>>

-----------------------------------------------------------------------------
Init ==
  /\ isPostReload = FALSE /\ command = NoCommand /\ targetRunning = FALSE
  /\ process = NoProcess /\ step = "none" /\ announced = FALSE /\ failed = FALSE
  /\ parser = "none" /\ output = NoOutput(FALSE, FALSE)

Next ==
  \/ OnPostReload
  \/ \E running \in BOOLEAN : SetRunning(running)
  \/ \E cmd \in Commands \cup {NoCommand} : SetCommand(cmd) \/ Exec(cmd)
  \/ OnStarted \/ OnErrorOccurred \/ OnFinished
  \/ RunningChanged \/ Restart \/ Changed
  \/ \E p \in {"none", "split", "collect"} : SetStdoutParser(p)
  \/ \E kind \in {"line", "part"} : ChildWrites(kind)
  \/ OnStdoutParserDestroyed \/ OnStdoutReadyRead

Spec == Init /\ [][Next]_processVars

-----------------------------------------------------------------------------
TypeOK ==
  /\ {isPostReload, targetRunning, announced, failed, process.terminated} \subseteq BOOLEAN
  /\ command \in Commands \cup {NoCommand}
  /\ process.st \in {"none", "starting", "running"}
  /\ step \in {"none", "changed", "exited", "runningChanged"}

\* Between events a wish to run is being served or cannot be yet, and `running'
\* is what the shell was last told once the process has started, however it is
\* toggled from handlers: unless a command that was to be replaced failed to
\* start.
WishIsServed ==
  step = "none" /\ ~failed =>
    /\ targetRunning /\ isPostReload /\ command # NoCommand => Running
    /\ announced => Running
    /\ process.st = "running" => announced

\* The parser a run began with, if it is not exchanged, has given on all the child wrote when the
\* end is told, once and in its order; any other gets nothing that was not written, and nothing
\* after the exchange closed the channel.
OutputIsHeard ==
  /\ step = "exited" /\ output.kept => output.heard = output.wrote
  /\ output.kept => parser # "none" /\ (process # NoProcess => output.open)
  /\ ~output.open => output.pipe = <<>> /\ ~output.ready
=============================================================================
