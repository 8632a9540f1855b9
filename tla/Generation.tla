----------------------------- MODULE Generation -----------------------------
(***************************************************************************)
(* The life of a loaded configuration: RootWrapper::reloadGraph            *)
(* (src/src/core/rootwrapper.cpp), EngineGeneration (core/generation.cpp)  *)
(* and the objects that take part in a reload (core/reload.cpp).           *)
(*                                                                         *)
(* Everything runs on the main thread.  What makes it hard is that a       *)
(* reload runs the shell's own QML at several points, that this QML may    *)
(* ask for another reload or for the end of the program while the first    *)
(* reload is still on the stack, and that a generation told to go lives on *)
(* until the event loop gets round to its deferred deletion.  The calls on *)
(* the stack are frames; QML acts from the event loop or from the frame on *)
(* top.                                                                    *)
(***************************************************************************)
EXTENDS Integers, Sequences, FiniteSets

CONSTANTS
  MaxGens,  \* bound: configurations loaded during a behaviour
  MaxDepth, \* bound: calls nested on the stack
  MaxActs,  \* bound: what QML does during one call from the program
  Objs,     \* reloadable objects and post reload hooks
  Codes,    \* exit codes QML may pass to Qt.exit()
  Hards,    \* values QML passes to Quickshell.reload(hard)
  Reenter,  \* the points of a reload whose QML may ask for another one
  None      \* a null pointer

Gens   == 1..MaxGens
Phases == {"unused", "new", "dying", "gone"}
Points == {"create", "reload", "finished", "posted", "completed", "failed", "deleted"}
NoCode == -2

ASSUME ParameterTypes ==
  /\ {MaxGens, MaxDepth, MaxActs} \subseteq Nat
  /\ Codes \subseteq Nat
  /\ Hards \subseteq BOOLEAN
  /\ Reenter \subseteq Points
  /\ None \notin Gens

VARIABLES
  gen,    \* every EngineGeneration ever made
  made,   \* how many there were
  cur,    \* RootWrapper::generation
  doomed, \* generations whose root awaits its deferred deletion, oldest first
  objs,   \* Reloadable and PostReloadHook objects
  stack,  \* calls in progress, innermost first
  app,    \* where main() is
  status  \* what QCoreApplication::exit() was last called with

vars == <<gen, made, cur, doomed, objs, stack, app, status>>

\* phase: "new" until destroy(), "dying" until its root is deleted.
\* complete: reloadComplete.  linked: the engine's quit and exit reach the
\* generation.  wired: its destroyed() and filesChanged() reach the wrapper.
\* after: the generation whose destroyed() fires postReload().
\* term, code: shouldTerminate, exitCode.
Generations == [phase : Phases, complete : BOOLEAN, linked : BOOLEAN, wired : BOOLEAN,
                after : Gens \cup {None}, term : BOOLEAN, code : Codes \cup {0}]
Unused == [phase |-> "unused", complete |-> FALSE, linked |-> FALSE, wired |-> FALSE,
           after |-> None, term |-> FALSE, code |-> 0]

\* early: created before its generation was complete.  crowded (history): the
\* tree of another generation existed when the hook ran.
Objects == [kind : {"hook", "reloadable"}, gen : Gens \cup {None},
            st : {"unborn", "waiting", "timer", "done", "dead"},
            early : BOOLEAN, crowded : BOOLEAN]
Unborn == [kind |-> "hook", gen |-> None, st |-> "unborn", early |-> FALSE, crowded |-> FALSE]

\* One call in progress: what QML can act in, and what it goes on with.
\* left: reports of a failure still to come.
Frames == [at : Points, g : Gens \cup {None}, hard : BOOLEAN, old : Gens \cup {None},
           isReload : BOOLEAN, left : 0..1, acts : 0..MaxActs]
Frame(at, g, hard) ==
  [at |-> at, g |-> g, hard |-> hard, old |-> None, isReload |-> FALSE,
   left |-> 0, acts |-> MaxActs]
\* reloadFailed() is being emitted.
Failing(left) == [Frame("failed", None, FALSE) EXCEPT !.left = left]

Allocated(g) == gen[g].phase \in {"new", "dying"}
Alive        == {g \in Gens : gen[g].phase = "new"}
Registered   == {g \in Gens : Allocated(g)}   \* g_generations

Top      == Head(stack)
At(p)    == stack # <<>> /\ Top.at = p
Return   == stack' = Tail(stack)
Goto(f)  == stack' = <<f>> \o Tail(stack)

-----------------------------------------------------------------------------
(* What QML does *)

\* QML runs from the event loop, or while a call of the program is in progress.
QmlRuns == /\ Registered # {}
           /\ \/ stack = <<>> /\ app = "running"
              \/ stack # <<>> /\ Top.acts > 0

\* The stack after QML acted once more in the call on top.
Acted == IF stack = <<>> THEN <<>>
         ELSE <<[Top EXCEPT !.acts = @ - 1]>> \o Tail(stack)

\* reloadGraph() up to the first QML it runs: scan errors, then compile errors,
\* then beginCreate().  A failure is only announced to a current generation.
ScanFails ==
  /\ stack' = IF cur = None THEN Acted
              ELSE <<Failing(0)>> \o Acted
  /\ UNCHANGED <<gen, made, cur, doomed, objs, status>>

CompileFails ==
  /\ stack' = IF cur = None THEN Acted
              ELSE <<Failing(1)>> \o Acted
  /\ UNCHANGED <<gen, made, cur, doomed, objs, status>>

Creates(hard) ==
  /\ made < MaxGens
  /\ made' = made + 1
  /\ gen' = [gen EXCEPT ![made + 1].phase = "new"]
  /\ stack' = <<Frame("create", made + 1, hard)>> \o Acted
  /\ UNCHANGED <<cur, doomed, objs, status>>

ReloadGraph(hard) == Len(stack) < MaxDepth /\ (ScanFails \/ CompileFails \/ Creates(hard))

\* Quickshell.reload(hard), or filesChanged() of a wired generation.
QmlReload(hard) ==
  /\ QmlRuns
  /\ stack # <<>> => Top.at \in Reenter
  /\ ReloadGraph(hard)
  /\ UNCHANGED app

\* EngineGeneration::destroy(), once: the generation loses its root, and the
\* engine too when the event loop comes to delete the root.
Destroyed(gs, g) == [gs EXCEPT ![g].phase = IF @ = "new" THEN "dying" ELSE @]
Dooming(gs, g)   == IF gs[g].phase = "new" THEN Append(doomed, g) ELSE doomed

\* Qt.quit() and Qt.exit(code): no slot is connected before onReload().  quit()
\* leaves the exit code as it is.
Terminate(g, code) ==
  /\ gen[g].linked /\ Allocated(g)
  /\ gen' = Destroyed([gen EXCEPT ![g].term = TRUE, ![g].code = code], g)
  /\ doomed' = Dooming(gen, g)

QmlExit(g, code) ==
  /\ QmlRuns
  /\ Terminate(g, code)
  /\ stack' = Acted
  /\ UNCHANGED <<made, cur, objs, app, status>>

\* IpcKillCommand::exec(): the only generation quits; with several, or none,
\* the application itself is told to end.
IpcKill ==
  /\ stack = <<>> /\ app = "running"
  /\ IF Cardinality(Registered) = 1
     THEN /\ \E g \in Registered : gen' = Destroyed([gen EXCEPT ![g].term = TRUE], g)
                                   /\ doomed' = Dooming(gen, g)
          /\ UNCHANGED <<app, status>>
     ELSE app' = "killed" /\ status' = 0 /\ UNCHANGED <<gen, doomed>>
  /\ UNCHANGED <<made, cur, objs, stack>>

Crowd(g) == \E h \in Registered : h # g

\* componentComplete() of an object made by the QML of g: a hook runs at once, a
\* reloadable from a timer, when g has already finished its reload.
Create(o, kind, g) ==
  /\ QmlRuns
  /\ objs[o].st = "unborn" /\ Allocated(g)
  /\ objs' = [objs EXCEPT ![o] =
       [kind |-> kind, gen |-> g, early |-> ~gen[g].complete,
        st |-> IF ~gen[g].complete THEN "waiting" ELSE IF kind = "hook" THEN "done" ELSE "timer",
        crowded |-> kind = "hook" /\ gen[g].complete /\ Crowd(g)]]
  /\ stack' = Acted
  /\ UNCHANGED <<gen, made, cur, doomed, app, status>>

\* The zero timer of a late Reloadable.
TimerFires(o) ==
  /\ stack = <<>> /\ app = "running"
  /\ objs[o].st = "timer"
  /\ objs' = [objs EXCEPT ![o].st = "done"]
  /\ UNCHANGED <<gen, made, cur, doomed, stack, app, status>>

-----------------------------------------------------------------------------
(* reloadGraph() and onReload(), from one point where QML runs to the next *)

\* QObject::disconnect(generation, nullptr, this, nullptr)
LetGo(gs, old) == IF old = None THEN gs ELSE [gs EXCEPT ![old].wired = FALSE]
\* QQmlEngine::quit and exit are connected.
Linked(gs, g) == [gs EXCEPT ![g].linked = TRUE]

\* completeCreate() has returned: the wrapper lets go of the generation it has,
\* and onReload() connects the engine and reloads the tree, which takes in some
\* of the reloadables; the others wait for reloadFinished().
EnterReload ==
  /\ At("create")
  /\ LET g == Top.g
         old == IF Top.hard THEN None ELSE cur
     IN /\ gen' = Linked(LetGo(gen, cur), g)
        /\ \E tree \in SUBSET {o \in Objs : objs[o].kind = "reloadable"
                                             /\ objs[o].st = "waiting" /\ objs[o].gen = g} :
             objs' = [o \in Objs |-> IF o \in tree THEN [objs[o] EXCEPT !.st = "done"] ELSE objs[o]]
        /\ Goto([Frame("reload", g, Top.hard) EXCEPT !.old = old, !.isReload = cur # None])
  /\ UNCHANGED <<made, cur, doomed, app, status>>

\* Mutant: reloadFinished() is not emitted.
FinishQuietly ==
  /\ At("reload")
  /\ gen' = [gen EXCEPT ![Top.g].complete = TRUE]
  /\ Goto([Top EXCEPT !.at = "finished", !.acts = MaxActs])
  /\ UNCHANGED <<made, cur, doomed, objs, app, status>>

\* reloadComplete is set and reloadFinished() reaches the remaining reloadables.
FinishReload ==
  /\ At("reload")
  /\ gen' = [gen EXCEPT ![Top.g].complete = TRUE]
  /\ objs' = [o \in Objs |->
       IF objs[o].gen = Top.g /\ objs[o].kind = "reloadable" /\ objs[o].st = "waiting"
       THEN [objs[o] EXCEPT !.st = "done"] ELSE objs[o]]
  /\ Goto([Top EXCEPT !.at = "finished", !.acts = MaxActs])
  /\ UNCHANGED <<made, cur, doomed, app, status>>

\* postReload() of the generations in gs, as the hooks see it: a generation
\* that is being destroyed has no root and skips it.
Posted(gs, alive) ==
  [o \in Objs |->
     IF objs[o].gen \in gs \cap Alive /\ objs[o].kind = "hook" /\ objs[o].st = "waiting"
     THEN [objs[o] EXCEPT !.st = "done", !.crowded = alive \ {objs[o].gen} # {}]
     ELSE objs[o]]

\* The wrapper adopts g: generation = g, and connects itself to it.
\* Mutant: only to the configuration loaded first.
AdoptedFirst(gs, g) == IF made = 1 THEN [gs EXCEPT ![g].wired = TRUE] ELSE gs
Adopted(gs, g) == [gs EXCEPT ![g].wired = TRUE]

Completed(f) == IF f.isReload THEN Goto([f EXCEPT !.at = "completed", !.acts = MaxActs])
                ELSE Return

\* A soft reload: the old generation goes, and fires postReload() when it has.
\* Mutant: postReload() does not wait for that.
SoftReloadedAtOnce ==
  /\ At("finished") /\ Top.old # None
  /\ gen' = Adopted(Destroyed([gen EXCEPT ![Top.g].after = Top.old], Top.old), Top.g)
  /\ doomed' = Dooming(gen, Top.old)
  /\ cur' = Top.g
  /\ objs' = Posted({Top.g}, Registered)
  /\ Completed(Top)
  /\ UNCHANGED <<made, app, status>>

\* Mutant: the old generation is left running.
SoftReloadedKeeping ==
  /\ At("finished") /\ Top.old # None
  /\ gen' = Adopted([gen EXCEPT ![Top.g].after = Top.old], Top.g)
  /\ cur' = Top.g
  /\ Completed(Top)
  /\ UNCHANGED <<made, doomed, objs, app, status>>

SoftReloaded ==
  /\ At("finished") /\ Top.old # None
  /\ gen' = Adopted(Destroyed([gen EXCEPT ![Top.g].after = Top.old], Top.old), Top.g)
  /\ doomed' = Dooming(gen, Top.old)
  /\ cur' = Top.g
  /\ Completed(Top)
  /\ UNCHANGED <<made, objs, app, status>>

\* With nothing to take over, postReload() runs within onReload().
HardPosted ==
  /\ At("finished") /\ Top.old = None
  /\ objs' = Posted({Top.g}, Registered)
  /\ Goto([Top EXCEPT !.at = "posted", !.acts = MaxActs])
  /\ UNCHANGED <<gen, made, cur, doomed, app, status>>

\* Back in reloadGraph(): a hard reload destroys whatever generation the wrapper
\* has by now.
HardReloaded ==
  /\ At("posted")
  /\ IF Top.hard /\ cur # None
     THEN gen' = Adopted(Destroyed(gen, cur), Top.g)
          /\ doomed' = Dooming(gen, cur)
     ELSE gen' = Adopted(gen, Top.g) /\ UNCHANGED doomed
  /\ cur' = Top.g
  /\ Completed(Top)
  /\ UNCHANGED <<made, objs, app, status>>

\* Mutant: it is emitted on and on.
FailedOnAndOn ==
  /\ At("failed")
  /\ IF cur = None THEN Return
     ELSE Goto([Top EXCEPT !.left = @ - 1, !.acts = MaxActs])
  /\ UNCHANGED <<gen, made, cur, doomed, objs, app, status>>

\* reloadFailed() is emitted again, by whichever generation is current then.
FailedAgain ==
  /\ At("failed") /\ Top.left > 0
  /\ IF cur = None THEN Return
     ELSE Goto([Top EXCEPT !.left = @ - 1, !.acts = MaxActs])
  /\ UNCHANGED <<gen, made, cur, doomed, objs, app, status>>

Returns ==
  /\ At("completed") \/ (At("failed") /\ Top.left = 0)
  /\ Return
  /\ UNCHANGED <<gen, made, cur, doomed, objs, app, status>>

-----------------------------------------------------------------------------
(* The event loop *)

\* The deferred deletion of the oldest doomed root: the engine and the objects
\* of the generation go, then the generation itself.  destroyed() tells the
\* wrapper, which forgets the generation it has, and the generations that wait.
DeleteRoot ==
  /\ stack = <<>> /\ app \in {"running", "exiting", "killed"} /\ doomed # <<>>
  /\ LET g == Head(doomed)
         posted == Posted({h \in Gens : gen[h].after = g}, Registered \ {g})
     IN /\ gen' = [gen EXCEPT ![g].phase = "gone"]
        /\ cur' = IF gen[g].wired THEN None ELSE cur
        /\ objs' = [o \in Objs |-> IF objs[o].gen = g THEN [objs[o] EXCEPT !.st = "dead"]
                                   ELSE posted[o]]
        /\ stack' = <<Frame("deleted", g, FALSE)>>
  /\ doomed' = Tail(doomed)
  /\ UNCHANGED <<made, app, status>>

\* Mutant: the program ends only for the generation the wrapper was connected to.
DeletedWired ==
  /\ At("deleted")
  /\ IF gen[Top.g].term /\ gen[Top.g].wired
     THEN app' = "exiting" /\ status' = gen[Top.g].code
     ELSE UNCHANGED <<app, status>>
  /\ Return
  /\ UNCHANGED <<gen, made, cur, doomed, objs>>

\* The last thing destroy() does, after `delete this'.
Deleted ==
  /\ At("deleted")
  /\ IF gen[Top.g].term THEN app' = "exiting" /\ status' = gen[Top.g].code
     ELSE UNCHANGED <<app, status>>
  /\ Return
  /\ UNCHANGED <<gen, made, cur, doomed, objs>>

-----------------------------------------------------------------------------
(* main() *)

Init ==
  /\ gen = [g \in Gens |-> Unused]
  /\ made = 0 /\ cur = None /\ doomed = <<>> /\ stack = <<>>
  /\ objs = [o \in Objs |-> Unborn]
  /\ app = "starting" /\ status = NoCode

\* RootWrapper's constructor.
Construct ==
  /\ app = "starting"
  /\ app' = "loading"
  /\ ReloadGraph(TRUE)

Constructed ==
  /\ app = "loading" /\ stack = <<>>
  /\ IF cur = None THEN app' = "ended" /\ status' = -1
     ELSE app' = "running" /\ UNCHANGED status
  /\ UNCHANGED <<gen, made, cur, doomed, objs, stack>>

\* exec() returns and ~RootWrapper shuts the current generation down, unless it
\* is being destroyed already.
Shutdown ==
  /\ app \in {"exiting", "killed"} /\ stack = <<>>
  /\ app' = "ended"
  /\ IF cur # None /\ gen[cur].phase = "new"
     THEN gen' = [gen EXCEPT ![cur].phase = "gone"] ELSE UNCHANGED gen
  /\ UNCHANGED <<made, cur, doomed, objs, stack, status>>

Continue == EnterReload \/ FinishReload \/ SoftReloaded \/ HardPosted \/ HardReloaded
            \/ FailedAgain \/ Returns \/ Deleted
Qml == \/ \E hard \in Hards : QmlReload(hard)
       \/ \E g \in Gens : \E code \in Codes \cup {gen[g].code} : QmlExit(g, code)
       \/ \E o \in Objs, kind \in {"hook", "reloadable"}, g \in Gens : Create(o, kind, g)

Next == \/ Construct \/ Constructed \/ Shutdown
        \/ Continue \/ Qml \/ IpcKill \/ DeleteRoot
        \/ \E o \in Objs : TimerFires(o)

Spec == Init /\ [][Next]_vars

\* The program runs on, and its event loop serves deferred deletions and timers
\* however busy the shell keeps it.
FairSpec ==
  /\ Spec
  /\ WF_vars(Construct) /\ WF_vars(Constructed) /\ WF_vars(Shutdown) /\ WF_vars(Continue)
  /\ SF_vars(DeleteRoot)
  /\ \A o \in Objs : SF_vars(TimerFires(o))

-----------------------------------------------------------------------------
(* Properties *)

TypeOK ==
  /\ gen \in [Gens -> Generations] /\ made \in 0..MaxGens
  /\ cur \in Gens \cup {None} /\ doomed \in Seq(Gens)
  /\ objs \in [Objs -> Objects]
  /\ stack \in Seq(Frames)
  /\ app \in {"starting", "loading", "running", "exiting", "killed", "ended"}
  /\ status \in Codes \cup {NoCode, -1, 0}

\* The wrapper never keeps a generation that has been deleted: whoever deletes
\* the current generation is heard, because the wrapper is connected to it
\* whenever the event loop can run.
CurIsAllocated == app # "ended" /\ cur # None => Allocated(cur)

AtRest == stack = <<>> /\ doomed = <<>>

\* When everything has settled exactly one configuration runs and the wrapper
\* knows it, however reloads failed, followed each other or were nested; at the
\* end none is left behind.
OneConfiguration ==
  /\ AtRest /\ app = "running" => cur # None /\ Alive = {cur}
  /\ app = "ended" => Alive = {}

\* A hook made while its configuration loaded, by a soft reload, runs when no
\* other configuration's tree is left.  (Once the end of the program was asked
\* for, the order of the deferred deletions no longer promises it.)
SoftHooksRunAlone ==
  (\A g \in Gens : ~gen[g].term) =>
  \A o \in Objs : /\ objs[o].kind = "hook" /\ objs[o].early
                  /\ objs[o].gen # None /\ gen[objs[o].gen].after # None
                  => ~objs[o].crowded

\* Every object that waits for its reload, or for the reload's end, gets it,
\* unless its generation or the program ends first.
EveryObjectIsServed ==
  \A o \in Objs : objs[o].st \in {"waiting", "timer"}
                    ~> objs[o].st \in {"done", "dead"} \/ app = "ended"

\* Qt.quit() and Qt.exit(code) end the program, with a code some generation was
\* told, even when a reload replaces that generation meanwhile.  Only a kill
\* request may come first.
ExitHonoured ==
  \A g \in Gens : gen[g].term /\ app # "ended"
    ~> \/ app = "exiting" /\ status \in {gen[h].code : h \in {h \in Gens : gen[h].term}}
       \/ app = "killed"
=============================================================================
