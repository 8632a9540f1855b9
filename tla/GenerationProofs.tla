-------------------------- MODULE GenerationProofs --------------------------
(***************************************************************************)
(* Theorems about Generation, for any number of configurations, any        *)
(* nesting of calls, any objects and exit codes.                           *)
(***************************************************************************)
EXTENDS Generation, SequenceTheorems, TLAPS

InLoad(f)   == f.at \in {"create", "reload", "finished", "posted"}
Detached(f) == f.at \in {"reload", "finished", "posted"}

\* A reload has taken the current generation away from the wrapper.
Reloading == \E i \in DOMAIN stack : Detached(stack[i])

\* Every frame names the generation it works on.
FrameOK(gs, f) ==
  /\ InLoad(f) => f.g \in Gens /\ gs[f.g].phase \in {"new", "dying"}
  /\ f.at = "deleted" => f.g \in Gens
FramesOK == \A i \in DOMAIN stack : FrameOK(gen, stack[i])

\* No call is in progress before the first load and after the last.
Quiet == app \in {"starting", "ended"} => stack = <<>>

\* The wrapper hears of the deletion of its generation unless a reload is about
\* to give it another.
CurIsWired == cur # None /\ ~gen[cur].wired => Reloading

PInv == FramesOK /\ Quiet /\ CurIsWired /\ CurIsAllocated

-----------------------------------------------------------------------------
(* For reloads that do not nest within the detached part of another.       *)

\* The generations being loaded, and those whose deletion is in progress.
Loading(g)  == \E i \in DOMAIN stack : InLoad(stack[i]) /\ stack[i].g = g
Deleting(g) == \E i \in DOMAIN stack : stack[i].at = "deleted" /\ stack[i].g = g

\* Only the innermost call is detached, and it knows the generation it replaces.
DetachedOnTop == \A i \in DOMAIN stack : Detached(stack[i]) =>
  /\ i = 1
  /\ stack[i].old = IF stack[i].hard THEN None ELSE cur
  /\ stack[i].at = "posted" => stack[i].old = None

\* Each load makes a generation of its own, which the wrapper does not have yet.
LoadsDiffer == \A i \in DOMAIN stack : InLoad(stack[i]) =>
  /\ stack[i].g # cur
  /\ \A j \in DOMAIN stack : InLoad(stack[j]) /\ stack[i].g = stack[j].g => i = j

\* The generations still to be made.
FreshUnused == \A g \in Gens : g > made => gen[g] = Unused

\* The generations that run are the wrapper's and those being loaded.
AliveIsKnown == \A g \in Gens : gen[g].phase = "new" => g = cur \/ Loading(g)

\* The wrapper is connected to its own generation only, and to none while a
\* reload is about to replace it.
WiredIsCur == \A g \in Gens : gen[g].wired => gen[g].phase = "gone" \/ (g = cur /\ ~Reloading)

\* Exactly the dying generations wait for their deletion, each once.
DoomedDie ==
  /\ \A i \in DOMAIN doomed : gen[doomed[i]].phase = "dying"
  /\ \A i, j \in DOMAIN doomed : doomed[i] = doomed[j] => i = j
  /\ \A g \in Gens : gen[g].phase = "dying" => \E i \in DOMAIN doomed : doomed[i] = g

\* A generation in use dies only of its own wish.
DyingWished == \A g \in Gens :
  gen[g].phase = "dying" /\ (g = cur \/ Loading(g)) => gen[g].term

\* The wrapper is without a generation only while the one it had ends the program.
LossEnds == app = "running" /\ cur = None => \E g \in Gens : Deleting(g) /\ gen[g].term

EndIsEmpty == app = "ended" => \A g \in Gens : gen[g].phase # "new"

SInv == /\ DetachedOnTop /\ LoadsDiffer /\ FreshUnused /\ AliveIsKnown /\ WiredIsCur
        /\ DoomedDie /\ DyingWished /\ LossEnds /\ EndIsEmpty

-----------------------------------------------------------------------------
(* The stack                                                               *)

LEMMA PushShape ==
  ASSUME NEW s \in Seq(Frames), NEW f \in Frames
  PROVE  /\ <<f>> \o s \in Seq(Frames)
         /\ Len(<<f>> \o s) = Len(s) + 1
         /\ (<<f>> \o s)[1] = f
         /\ \A i \in 2..(Len(s) + 1) : (<<f>> \o s)[i] = s[i - 1]
<1>1. <<f>> \in Seq(Frames) /\ Len(<<f>>) = 1
  OBVIOUS
<1> QED BY <1>1, ConcatProperties

LEMMA TailShape ==
  ASSUME NEW s \in Seq(Frames), s # <<>>
  PROVE  /\ Tail(s) \in Seq(Frames) /\ Head(s) \in Frames /\ Head(s) = s[1]
         /\ Len(s) \in Nat /\ Len(s) >= 1 /\ Len(Tail(s)) = Len(s) - 1
         /\ \A i \in 1..(Len(s) - 1) : Tail(s)[i] = s[i + 1]
<1>1. Len(s) \in Nat \ {0}
  BY EmptySeq
<1> QED BY <1>1, HeadTailProperties

LEMMA GotoShape ==
  ASSUME NEW s \in Seq(Frames), s # <<>>, NEW f \in Frames
  PROVE  /\ <<f>> \o Tail(s) \in Seq(Frames)
         /\ Len(<<f>> \o Tail(s)) = Len(s)
         /\ (<<f>> \o Tail(s))[1] = f
         /\ \A i \in 2..Len(s) : (<<f>> \o Tail(s))[i] = s[i]
<1>1. Tail(s) \in Seq(Frames) /\ Len(s) \in Nat /\ Len(Tail(s)) = Len(s) - 1
  BY TailShape
<1>2. \A i \in 2..Len(s) : (<<f>> \o Tail(s))[i] = Tail(s)[i - 1]
  BY <1>1, PushShape
<1>3. \A i \in 2..Len(s) : Tail(s)[i - 1] = s[i]
  BY <1>1, TailShape
<1> QED BY <1>1, <1>2, <1>3, PushShape

\* What a call keeps when QML acts in it.
Same(f, h) == /\ f.at = h.at /\ f.g = h.g /\ f.hard = h.hard /\ f.old = h.old
              /\ f.left = h.left

LEMMA ActedShape ==
  ASSUME stack \in Seq(Frames), stack = <<>> \/ Top.acts > 0
  PROVE  /\ Acted \in Seq(Frames) /\ Len(Acted) = Len(stack)
         /\ \A i \in 1..Len(stack) : Same(Acted[i], stack[i])
<1>1. CASE stack = <<>>
  BY <1>1 DEF Acted
<1>2. CASE stack # <<>>
  <2> DEFINE f == [Top EXCEPT !.acts = @ - 1]
  <2>1. Top \in Frames /\ Top = stack[1]
    BY <1>2, TailShape DEF Top
  <2>2. f \in Frames /\ Same(f, Top)
    <3>1. Top.acts \in 0..MaxActs /\ Top.acts > 0 /\ MaxActs \in Nat
      BY <1>2, <2>1, ParameterTypes DEF Frames, ParameterTypes
    <3>2. Top.acts - 1 \in 0..MaxActs
      BY <3>1
    <3> QED BY <2>1, <3>2 DEF Frames, Same
  <2>3. Acted = <<f>> \o Tail(stack)
    BY <1>2 DEF Acted
  <2> HIDE DEF f
  <2>4. Acted \in Seq(Frames) /\ Len(Acted) = Len(stack) /\ Acted[1] = f
        /\ \A i \in 2..Len(stack) : Acted[i] = stack[i]
    BY <1>2, <2>2, <2>3, GotoShape
  <2>5. \A h \in Frames : Same(h, h)
    BY DEF Same
  <2>6. \A i \in 1..Len(stack) : i = 1 \/ i \in 2..Len(stack)
    OBVIOUS
  <2>7. \A i \in 2..Len(stack) : stack[i] \in Frames
    OBVIOUS
  <2> QED BY <2>1, <2>2, <2>4, <2>5, <2>6, <2>7
<1> QED BY <1>1, <1>2

\* The three ways in which the stack changes, in terms of its elements.
LEMMA PushActed ==
  ASSUME stack \in Seq(Frames), stack = <<>> \/ Top.acts > 0,
         NEW f \in Frames, stack' = <<f>> \o Acted
  PROVE  /\ stack' \in Seq(Frames) /\ stack' # <<>>
         /\ DOMAIN stack = 1..Len(stack) /\ DOMAIN stack' = 1..(Len(stack) + 1)
         /\ Len(stack) \in Nat /\ stack'[1] = f
         /\ \A i \in 2..(Len(stack) + 1) : Same(stack'[i], stack[i - 1])
<1>1. Acted \in Seq(Frames) /\ Len(Acted) = Len(stack) /\ Len(stack) \in Nat
      /\ \A i \in 1..Len(stack) : Same(Acted[i], stack[i])
  BY ActedShape
<1>2. stack' \in Seq(Frames) /\ Len(stack') = Len(stack) + 1 /\ stack'[1] = f
      /\ \A i \in 2..(Len(stack) + 1) : stack'[i] = Acted[i - 1]
  BY <1>1, PushShape
<1>3. stack' # <<>>
  BY <1>1, <1>2, EmptySeq
<1>4. ASSUME NEW i \in 2..(Len(stack) + 1) PROVE Same(stack'[i], stack[i - 1])
  <2>1. i - 1 \in 1..Len(stack)
    BY <1>1
  <2> QED BY <1>1, <1>2, <2>1
<1>5. DOMAIN stack = 1..Len(stack) /\ DOMAIN stack' = 1..Len(stack')
  BY <1>2
<1> QED BY <1>1, <1>2, <1>3, <1>4, <1>5

LEMMA OnlyActed ==
  ASSUME stack \in Seq(Frames), stack = <<>> \/ Top.acts > 0, stack' = Acted
  PROVE  /\ stack' \in Seq(Frames) /\ (stack = <<>> => stack' = <<>>)
         /\ DOMAIN stack = 1..Len(stack) /\ DOMAIN stack' = DOMAIN stack
         /\ Len(stack) \in Nat
         /\ \A i \in DOMAIN stack : Same(stack'[i], stack[i])
<1>1. Acted \in Seq(Frames) /\ Len(Acted) = Len(stack) /\ Len(stack) \in Nat
      /\ \A i \in 1..Len(stack) : Same(Acted[i], stack[i])
  BY ActedShape
<1>2. DOMAIN stack = 1..Len(stack) /\ DOMAIN Acted = 1..Len(Acted)
  BY <1>1
<1>3. stack = <<>> => Acted = <<>>
  BY DEF Acted
<1> QED BY <1>1, <1>2, <1>3

LEMMA GotoTop ==
  ASSUME stack \in Seq(Frames), stack # <<>>, NEW f \in Frames, Goto(f)
  PROVE  /\ stack' \in Seq(Frames) /\ stack' # <<>>
         /\ DOMAIN stack = 1..Len(stack) /\ DOMAIN stack' = DOMAIN stack
         /\ Len(stack) \in Nat /\ Len(stack) >= 1 /\ Top \in Frames /\ Top = stack[1]
         /\ stack'[1] = f
         /\ \A i \in 2..Len(stack) : stack'[i] = stack[i]
<1>1. Top \in Frames /\ Top = stack[1] /\ Len(stack) \in Nat /\ Len(stack) >= 1
  BY TailShape DEF Top
<1>2. stack' \in Seq(Frames) /\ Len(stack') = Len(stack) /\ stack'[1] = f
      /\ \A i \in 2..Len(stack) : stack'[i] = stack[i]
  BY GotoShape DEF Goto
<1>3. stack' # <<>>
  BY <1>1, <1>2, EmptySeq
<1> QED BY <1>1, <1>2, <1>3

LEMMA ReturnTop ==
  ASSUME stack \in Seq(Frames), stack # <<>>, Return
  PROVE  /\ stack' \in Seq(Frames)
         /\ DOMAIN stack = 1..Len(stack) /\ DOMAIN stack' = 1..(Len(stack) - 1)
         /\ Len(stack) \in Nat /\ Len(stack) >= 1 /\ Top \in Frames /\ Top = stack[1]
         /\ \A i \in 1..(Len(stack) - 1) : stack'[i] = stack[i + 1]
BY TailShape DEF Return, Top

\* What the three changes mean for the frames and for Reloading, whatever
\* happens to the generations meanwhile as long as none of them is deleted.
Lives == \A g \in Gens : Allocated(g) => Allocated(g)'

LEMMA SameFrameOK ==
  ASSUME NEW f, NEW h, FrameOK(gen, h), Same(f, h), Lives
  PROVE  FrameOK(gen', f) /\ (Detached(f) <=> Detached(h))
<1>1. f.at = h.at /\ f.g = h.g /\ f.left = h.left
  BY DEF Same
<1>2. InLoad(f) => f.g \in Gens /\ Allocated(f.g)
  BY <1>1 DEF FrameOK, InLoad, Allocated
<1>3. InLoad(f) => f.g \in Gens /\ gen'[f.g].phase \in {"new", "dying"}
  BY <1>2 DEF Lives, Allocated
<1> QED BY <1>1, <1>3 DEF FrameOK, Detached

LEMMA SameItself == \A f : Same(f, f)
BY DEF Same

LEMMA PushP ==
  ASSUME stack \in Seq(Frames), stack = <<>> \/ Top.acts > 0, FramesOK, Lives,
         NEW f \in Frames, FrameOK(gen', f), stack' = <<f>> \o Acted
  PROVE  /\ stack' \in Seq(Frames) /\ stack' # <<>> /\ FramesOK'
         /\ Reloading => Reloading'
<1>1. /\ stack' \in Seq(Frames) /\ stack' # <<>>
      /\ DOMAIN stack = 1..Len(stack) /\ DOMAIN stack' = 1..(Len(stack) + 1)
      /\ Len(stack) \in Nat /\ stack'[1] = f
      /\ \A i \in 2..(Len(stack) + 1) : Same(stack'[i], stack[i - 1])
  BY PushActed
<1>2. ASSUME NEW i \in DOMAIN stack' PROVE FrameOK(gen', stack'[i])
  <2>1. i = 1 \/ (i \in 2..(Len(stack) + 1) /\ i - 1 \in DOMAIN stack)
    BY <1>1
  <2> QED BY <1>1, <2>1, SameFrameOK DEF FramesOK
<1>3. ASSUME Reloading PROVE Reloading'
  <2>1. PICK i \in DOMAIN stack : Detached(stack[i])
    BY <1>3 DEF Reloading
  <2>2. i + 1 \in 2..(Len(stack) + 1) /\ i + 1 \in DOMAIN stack' /\ (i + 1) - 1 = i
    BY <1>1
  <2>3. Same(stack'[i + 1], stack[i])
    BY <1>1, <2>2
  <2>4. Detached(stack'[i + 1])
    BY <2>1, <2>3 DEF Same, Detached
  <2> QED BY <2>2, <2>4 DEF Reloading
<1> QED BY <1>1, <1>2, <1>3 DEF FramesOK

LEMMA ActedP ==
  ASSUME stack \in Seq(Frames), stack = <<>> \/ Top.acts > 0, FramesOK, Lives,
         stack' = Acted
  PROVE  /\ stack' \in Seq(Frames) /\ (stack = <<>> => stack' = <<>>) /\ FramesOK'
         /\ Reloading => Reloading'
<1>1. /\ stack' \in Seq(Frames) /\ (stack = <<>> => stack' = <<>>)
      /\ DOMAIN stack' = DOMAIN stack
      /\ \A i \in DOMAIN stack : Same(stack'[i], stack[i])
  BY OnlyActed
<1>2. \A i \in DOMAIN stack' : FrameOK(gen', stack'[i])
  BY <1>1, SameFrameOK DEF FramesOK
<1>3. Reloading => Reloading'
  BY <1>1 DEF Reloading, Detached, Same
<1> QED BY <1>1, <1>2, <1>3 DEF FramesOK

LEMMA GotoP ==
  ASSUME stack \in Seq(Frames), stack # <<>>, FramesOK, Lives,
         NEW f \in Frames, FrameOK(gen', f), Goto(f)
  PROVE  /\ stack' \in Seq(Frames) /\ stack' # <<>> /\ FramesOK'
         /\ Detached(f) => Reloading'
         /\ Reloading /\ ~Detached(Top) => Reloading'
<1>1. /\ stack' \in Seq(Frames) /\ stack' # <<>>
      /\ DOMAIN stack = 1..Len(stack) /\ DOMAIN stack' = DOMAIN stack
      /\ Len(stack) \in Nat /\ Len(stack) >= 1 /\ Top = stack[1] /\ stack'[1] = f
      /\ \A i \in 2..Len(stack) : stack'[i] = stack[i]
  BY GotoTop
<1>2. ASSUME NEW i \in DOMAIN stack' PROVE FrameOK(gen', stack'[i])
  <2>1. i = 1 \/ i \in 2..Len(stack)
    BY <1>1
  <2> QED BY <1>1, <2>1, SameFrameOK, SameItself DEF FramesOK
<1>3. Detached(f) => Reloading'
  BY <1>1 DEF Reloading
<1>4. Reloading /\ ~Detached(Top) => Reloading'
  BY <1>1 DEF Reloading, Detached
<1> QED BY <1>1, <1>2, <1>3, <1>4 DEF FramesOK

LEMMA ReturnP ==
  ASSUME stack \in Seq(Frames), stack # <<>>, FramesOK, Lives, Return
  PROVE  /\ stack' \in Seq(Frames) /\ FramesOK'
         /\ Reloading /\ ~Detached(Top) => Reloading'
<1>1. /\ stack' \in Seq(Frames)
      /\ DOMAIN stack = 1..Len(stack) /\ DOMAIN stack' = 1..(Len(stack) - 1)
      /\ Len(stack) \in Nat /\ Len(stack) >= 1 /\ Top = stack[1]
      /\ \A i \in 1..(Len(stack) - 1) : stack'[i] = stack[i + 1]
  BY ReturnTop
<1>2. ASSUME NEW i \in DOMAIN stack' PROVE FrameOK(gen', stack'[i])
  <2>1. i + 1 \in DOMAIN stack
    BY <1>1
  <2> QED BY <1>1, <2>1, SameFrameOK, SameItself DEF FramesOK
<1>3. ASSUME Reloading, ~Detached(Top) PROVE Reloading'
  <2>1. PICK i \in DOMAIN stack : Detached(stack[i])
    BY <1>3 DEF Reloading
  <2>2. i # 1
    BY <1>1, <1>3, <2>1
  <2>3. i - 1 \in DOMAIN stack' /\ (i - 1) + 1 = i
    BY <1>1, <2>2
  <2> QED BY <1>1, <2>1, <2>3 DEF Reloading
<1> QED BY <1>1, <1>2, <1>3 DEF FramesOK

-----------------------------------------------------------------------------
(* Types, and the invariant that needs no assumption about nested reloads   *)

LEMMA FrameType ==
  ASSUME NEW at \in Points, NEW g \in Gens \cup {None}, NEW hard \in BOOLEAN
  PROVE  /\ Frame(at, g, hard) \in Frames
         /\ Frame(at, g, hard).at = at /\ Frame(at, g, hard).g = g
         /\ Frame(at, g, hard).hard = hard /\ Frame(at, g, hard).old = None
         /\ Frame(at, g, hard).left = 0
<1>1. MaxActs \in 0..MaxActs
  BY ParameterTypes DEF ParameterTypes
<1> QED BY <1>1 DEF Frame, Frames

LEMMA FailingType ==
  ASSUME NEW left \in {0, 1}
  PROVE  Failing(left) \in Frames /\ Failing(left).at = "failed"
<1>1. MaxActs \in 0..MaxActs
  BY ParameterTypes DEF ParameterTypes
<1>2. "failed" \in Points /\ None \in Gens \cup {None} /\ FALSE \in BOOLEAN
  BY DEF Points
<1>3. DEFINE f == Frame("failed", None, FALSE)
<1>4. f \in Frames /\ f.at = "failed"
  BY <1>2, FrameType
<1> HIDE DEF f
<1>5. left \in 0..1
  OBVIOUS
<1>6. [f EXCEPT !.left = left] \in Frames /\ [f EXCEPT !.left = left].at = "failed"
  BY <1>4, <1>5 DEF Frames
<1> QED BY <1>6 DEF Failing, f

\* A failing reload changes the stack only.
LEMMA FailureP ==
  ASSUME TypeOK, PInv, stack = <<>> \/ Top.acts > 0,
         NEW f \in Frames, f.at = "failed",
         stack' = IF cur = None THEN Acted ELSE <<f>> \o Acted,
         UNCHANGED <<gen, made, cur, doomed, objs, status>>,
         app # "ended", app' \in {"loading", "running", "exiting", "killed"}
  PROVE  TypeOK' /\ PInv'
<1>1. Lives /\ FramesOK /\ stack \in Seq(Frames)
  BY DEF Lives, Allocated, PInv, TypeOK
<1>2. FrameOK(gen', f)
  BY DEF FrameOK, InLoad
<1>3. stack' \in Seq(Frames) /\ FramesOK' /\ (Reloading => Reloading')
  <2>1. CASE cur = None
    BY <1>1, <2>1, ActedP
  <2>2. CASE cur # None
    BY <1>1, <1>2, <2>2, PushP
  <2> QED BY <2>1, <2>2
<1>4. TypeOK'
  BY <1>3 DEF TypeOK
<1>5. CurIsWired' /\ CurIsAllocated' /\ Quiet'
  BY <1>3 DEF PInv, CurIsWired, CurIsAllocated, Quiet, Allocated
<1> QED BY <1>3, <1>4, <1>5 DEF PInv

LEMMA CreatesP ==
  ASSUME TypeOK, PInv, stack = <<>> \/ Top.acts > 0, NEW hard \in BOOLEAN, Creates(hard),
         app # "ended", app' \in {"loading", "running", "exiting", "killed"}
  PROVE  TypeOK' /\ PInv'
<1> DEFINE f == Frame("create", made + 1, hard)
<1>0. made \in Nat /\ made + 1 \in Gens /\ made' = made + 1 /\ made' \in 0..MaxGens
  BY ParameterTypes DEF Creates, TypeOK, Gens, ParameterTypes
<1>1. f \in Frames /\ f.at = "create" /\ f.g = made + 1 /\ f.left = 0
  BY <1>0, FrameType DEF Points
<1>2. stack' = <<f>> \o Acted /\ stack \in Seq(Frames) /\ FramesOK
  BY DEF Creates, TypeOK, PInv
<1> HIDE DEF f
<1>3. [gen[made + 1] EXCEPT !.phase = "new"] \in Generations
  BY <1>0 DEF TypeOK, Generations, Phases
<1>4. /\ gen' \in [Gens -> Generations]
      /\ gen'[made + 1] = [gen[made + 1] EXCEPT !.phase = "new"]
      /\ \A g \in Gens : g # made + 1 => gen'[g] = gen[g]
  BY <1>0, <1>3 DEF Creates, TypeOK
<1>5. gen'[made + 1].phase = "new" /\ gen'[made + 1].wired = gen[made + 1].wired
  BY <1>0, <1>4 DEF TypeOK, Generations
<1>6. Lives
  BY <1>4, <1>5 DEF Lives, Allocated
<1>7. FrameOK(gen', f)
  BY <1>0, <1>1, <1>5 DEF FrameOK
<1>8. stack' \in Seq(Frames) /\ stack' # <<>> /\ FramesOK' /\ (Reloading => Reloading')
  BY <1>1, <1>2, <1>6, <1>7, PushP
<1>9. CurIsWired' /\ CurIsAllocated'
  BY <1>4, <1>5, <1>6, <1>8 DEF PInv, CurIsWired, CurIsAllocated, Creates, TypeOK, Lives
<1>11. TypeOK'
  BY <1>0, <1>4, <1>8 DEF TypeOK, Creates
<1> QED BY <1>8, <1>9, <1>11 DEF PInv, Quiet

LEMMA ReloadGraphP ==
  ASSUME TypeOK, PInv, stack = <<>> \/ Top.acts > 0, NEW hard \in BOOLEAN, ReloadGraph(hard),
         app # "ended", app' \in {"loading", "running", "exiting", "killed"}
  PROVE  TypeOK' /\ PInv'
<1>1. CASE ScanFails
  BY <1>1, FailingType, FailureP DEF ScanFails
<1>2. CASE CompileFails
  BY <1>2, FailingType, FailureP DEF CompileFails
<1>3. CASE Creates(hard)
  BY <1>3, CreatesP
<1> QED BY <1>1, <1>2, <1>3 DEF ReloadGraph

LEMMA QmlReloadP ==
  ASSUME TypeOK, PInv, NEW hard \in BOOLEAN, QmlReload(hard)
  PROVE  TypeOK' /\ PInv'
<1>1. app \in {"loading", "running", "exiting", "killed"}
  BY DEF QmlReload, QmlRuns, PInv, Quiet, TypeOK
<1> QED BY <1>1, ReloadGraphP DEF QmlReload, QmlRuns

\* What happens to the generations, field by field.
LEMMA TerminateGens ==
  ASSUME TypeOK, NEW g \in Gens, NEW code \in Codes \cup {0},
         gen' = Destroyed([gen EXCEPT ![g].term = TRUE, ![g].code = code], g),
         doomed' = Dooming(gen, g)
  PROVE  /\ gen' \in [Gens -> Generations] /\ doomed' \in Seq(Gens)
         /\ Lives
         /\ \A h \in Gens : /\ gen'[h].wired = gen[h].wired
                            /\ gen'[h].phase = IF h = g /\ gen[h].phase = "new"
                                               THEN "dying" ELSE gen[h].phase
                            /\ gen'[h].term = (h = g \/ gen[h].term)
                            /\ h # g => gen'[h] = gen[h]
<1> DEFINE r == [gen[g] EXCEPT !.term = TRUE, !.code = code,
                               !.phase = IF @ = "new" THEN "dying" ELSE @]
<1>1. r \in Generations
  BY DEF TypeOK, Generations, Phases
<1>2. r.wired = gen[g].wired /\ r.term = TRUE
      /\ r.phase = IF gen[g].phase = "new" THEN "dying" ELSE gen[g].phase
  BY DEF TypeOK, Generations
<1>3. gen' = [gen EXCEPT ![g] = r]
  BY DEF Destroyed, TypeOK, Generations
<1> HIDE DEF r
<1>4. gen' \in [Gens -> Generations] /\ gen'[g] = r /\ \A h \in Gens : h # g => gen'[h] = gen[h]
  BY <1>1, <1>3 DEF TypeOK
<1>5. doomed' \in Seq(Gens)
  BY DEF Dooming, TypeOK
<1>6. \A h \in Gens : gen[h].term \in BOOLEAN
  BY DEF TypeOK, Generations
<1>7. ASSUME NEW h \in Gens
      PROVE  /\ gen'[h].wired = gen[h].wired
             /\ gen'[h].phase = IF h = g /\ gen[h].phase = "new" THEN "dying" ELSE gen[h].phase
             /\ gen'[h].term = (h = g \/ gen[h].term)
  <2>1. CASE h = g
    BY <1>2, <1>4, <2>1
  <2>2. CASE h # g
    <3>1. gen'[h] = gen[h]
      BY <1>4, <2>2
    <3>2. gen[h].term = TRUE \/ gen[h].term = FALSE
      BY <1>6
    <3>3. gen'[h].term = (h = g \/ gen[h].term)
      BY <2>2, <3>1, <3>2
    <3> QED BY <2>2, <3>1, <3>3
  <2> QED BY <2>1, <2>2
<1> QED BY <1>4, <1>5, <1>7 DEF Lives, Allocated

LEMMA DestroyedGens ==
  ASSUME NEW gs \in [Gens -> Generations], NEW g \in Gens
  PROVE  /\ Destroyed(gs, g) \in [Gens -> Generations]
         /\ \A h \in Gens :
              /\ Destroyed(gs, g)[h].wired = gs[h].wired
              /\ Destroyed(gs, g)[h].term = gs[h].term
              /\ Destroyed(gs, g)[h].phase = IF h = g /\ gs[h].phase = "new"
                                             THEN "dying" ELSE gs[h].phase
              /\ h # g \/ gs[h].phase # "new" => Destroyed(gs, g)[h] = gs[h]
<1>1. [gs[g] EXCEPT !.phase = IF @ = "new" THEN "dying" ELSE @] \in Generations
  BY DEF Generations, Phases
<1> QED BY <1>1 DEF Destroyed, Generations

LEMMA AdoptedGens ==
  ASSUME NEW gs \in [Gens -> Generations], NEW g \in Gens
  PROVE  /\ Adopted(gs, g) \in [Gens -> Generations]
         /\ \A h \in Gens :
              /\ Adopted(gs, g)[h].wired = (h = g \/ gs[h].wired)
              /\ Adopted(gs, g)[h].term = gs[h].term
              /\ Adopted(gs, g)[h].phase = gs[h].phase
              /\ h # g => Adopted(gs, g)[h] = gs[h]
<1>1. [gs[g] EXCEPT !.wired = TRUE] \in Generations
  BY DEF Generations
<1> QED BY <1>1 DEF Adopted, Generations

LEMMA AfterGens ==
  ASSUME NEW gs \in [Gens -> Generations], NEW g \in Gens, NEW old \in Gens
  PROVE  /\ [gs EXCEPT ![g].after = old] \in [Gens -> Generations]
         /\ \A h \in Gens :
              /\ [gs EXCEPT ![g].after = old][h].wired = gs[h].wired
              /\ [gs EXCEPT ![g].after = old][h].term = gs[h].term
              /\ [gs EXCEPT ![g].after = old][h].phase = gs[h].phase
              /\ h # g => [gs EXCEPT ![g].after = old][h] = gs[h]
<1>1. [gs[g] EXCEPT !.after = old] \in Generations
  BY DEF Generations
<1> QED BY <1>1 DEF Generations

LEMMA EnterGens ==
  ASSUME NEW gs \in [Gens -> Generations], NEW g \in Gens, NEW old \in Gens \cup {None}
  PROVE  /\ Linked(LetGo(gs, old), g) \in [Gens -> Generations]
         /\ \A h \in Gens :
              /\ Linked(LetGo(gs, old), g)[h].wired => h # old /\ gs[h].wired
              /\ h # old /\ gs[h].wired => Linked(LetGo(gs, old), g)[h].wired
              /\ Linked(LetGo(gs, old), g)[h].term = gs[h].term
              /\ Linked(LetGo(gs, old), g)[h].phase = gs[h].phase
              /\ h # g /\ h # old => Linked(LetGo(gs, old), g)[h] = gs[h]
<1> DEFINE gm == LetGo(gs, old)
<1>1. /\ gm \in [Gens -> Generations]
      /\ \A h \in Gens : /\ gm[h].wired => h # old /\ gs[h].wired
                         /\ h # old /\ gs[h].wired => gm[h].wired
                         /\ gm[h].term = gs[h].term /\ gm[h].phase = gs[h].phase
                         /\ h # old => gm[h] = gs[h]
  <2>1. CASE old = None
    BY <2>1, ParameterTypes DEF LetGo, ParameterTypes
  <2>2. CASE old \in Gens
    <3>1. [gs[old] EXCEPT !.wired = FALSE] \in Generations
      BY <2>2 DEF Generations
    <3>2. gm = [gs EXCEPT ![old].wired = FALSE]
      BY <2>2, ParameterTypes DEF LetGo, ParameterTypes
    <3> QED BY <2>2, <3>1, <3>2 DEF Generations
  <2> QED BY <2>1, <2>2
<1> HIDE DEF gm
<1>2. [gm[g] EXCEPT !.linked = TRUE] \in Generations
  <2>1. gm[g] \in Generations
    BY <1>1
  <2> QED BY <2>1 DEF Generations
<1>3. Linked(gm, g) = [gm EXCEPT ![g].linked = TRUE]
  BY DEF Linked
<1>4. /\ Linked(gm, g) \in [Gens -> Generations]
      /\ \A h \in Gens : /\ Linked(gm, g)[h].wired = gm[h].wired
                         /\ Linked(gm, g)[h].term = gm[h].term
                         /\ Linked(gm, g)[h].phase = gm[h].phase
                         /\ h # g => Linked(gm, g)[h] = gm[h]
  BY <1>1, <1>2, <1>3 DEF Generations
<1> QED BY <1>1, <1>4 DEF gm

LEMMA QmlExitP ==
  ASSUME TypeOK, PInv, NEW g \in Gens, NEW code \in Codes \cup {gen[g].code}, QmlExit(g, code)
  PROVE  TypeOK' /\ PInv'
<1>0. code \in Codes \cup {0}
  BY DEF TypeOK, Generations
<1>1. /\ gen' \in [Gens -> Generations] /\ doomed' \in Seq(Gens) /\ Lives
      /\ \A h \in Gens : gen'[h].wired = gen[h].wired /\ (h # g => gen'[h] = gen[h])
  BY <1>0, TerminateGens DEF QmlExit, Terminate
<1>2. stack' \in Seq(Frames) /\ (stack = <<>> => stack' = <<>>) /\ FramesOK'
      /\ (Reloading => Reloading')
  BY <1>1, ActedP DEF QmlExit, QmlRuns, TypeOK, PInv
<1>5. CurIsWired' /\ CurIsAllocated' /\ Quiet'
  BY <1>1, <1>2 DEF PInv, CurIsWired, CurIsAllocated, Quiet, QmlExit, TypeOK, Lives
<1> QED BY <1>1, <1>2, <1>5 DEF TypeOK, PInv, QmlExit

LEMMA CreateP ==
  ASSUME TypeOK, PInv, NEW o \in Objs, NEW kind \in {"hook", "reloadable"}, NEW g \in Gens,
         Create(o, kind, g)
  PROVE  TypeOK' /\ PInv'
<1> DEFINE r == [kind |-> kind, gen |-> g, early |-> ~gen[g].complete,
       st |-> IF ~gen[g].complete THEN "waiting" ELSE IF kind = "hook" THEN "done" ELSE "timer",
       crowded |-> kind = "hook" /\ gen[g].complete /\ Crowd(g)]
<1>1. r \in Objects
  BY DEF Objects
<1>2. objs' = [objs EXCEPT ![o] = r]
  BY DEF Create
<1> HIDE DEF r
<1>3. objs' \in [Objs -> Objects]
  BY <1>1, <1>2 DEF TypeOK
<1>4. Lives /\ FramesOK /\ stack \in Seq(Frames)
  BY DEF Create, Lives, Allocated, PInv, TypeOK
<1>5. stack' \in Seq(Frames) /\ (stack = <<>> => stack' = <<>>) /\ FramesOK'
      /\ (Reloading => Reloading')
  BY <1>4, ActedP DEF Create, QmlRuns
<1>6. CurIsWired' /\ CurIsAllocated' /\ Quiet'
  BY <1>5 DEF PInv, CurIsWired, CurIsAllocated, Quiet, Allocated, Create
<1> QED BY <1>3, <1>5, <1>6 DEF TypeOK, PInv, Create

LEMMA TimerFiresP ==
  ASSUME TypeOK, PInv, NEW o \in Objs, TimerFires(o)
  PROVE  TypeOK' /\ PInv'
<1>1. [objs[o] EXCEPT !.st = "done"] \in Objects
  BY DEF TypeOK, Objects
<1>2. objs' \in [Objs -> Objects]
  BY <1>1 DEF TypeOK, TimerFires
<1> QED BY <1>2 DEF TypeOK, TimerFires, PInv, FramesOK, Quiet, CurIsWired, Reloading,
                    CurIsAllocated, Allocated

LEMMA IpcKillP ==
  ASSUME TypeOK, PInv, IpcKill
  PROVE  TypeOK' /\ PInv'
<1>1. CASE Cardinality(Registered) = 1
  <2>1. PICK g \in Registered : gen' = Destroyed([gen EXCEPT ![g].term = TRUE], g)
                                 /\ doomed' = Dooming(gen, g)
    BY <1>1 DEF IpcKill
  <2>2. g \in Gens /\ gen[g].code \in Codes \cup {0} /\ gen[g].phase # "unused"
    BY <2>1 DEF Registered, Allocated, TypeOK, Generations
  <2>3. [gen EXCEPT ![g].term = TRUE] = [gen EXCEPT ![g].term = TRUE, ![g].code = gen[g].code]
    BY <2>2 DEF TypeOK, Generations
  <2>4. /\ gen' \in [Gens -> Generations] /\ doomed' \in Seq(Gens) /\ Lives
        /\ \A h \in Gens : gen'[h].wired = gen[h].wired /\ (h # g => gen'[h] = gen[h])
    BY <2>1, <2>2, <2>3, TerminateGens
  <2>5. UNCHANGED <<made, cur, objs, stack, app, status>>
    BY <1>1 DEF IpcKill
  <2>6. stack = <<>> /\ DOMAIN stack = {}
    BY DEF IpcKill
  <2>7. FramesOK' /\ (Reloading => Reloading')
    BY <2>5, <2>6 DEF FramesOK, Reloading
  <2>9. CurIsWired' /\ CurIsAllocated' /\ Quiet'
    BY <2>4, <2>5, <2>7 DEF PInv, CurIsWired, CurIsAllocated, Quiet, TypeOK, Lives
  <2> QED BY <2>4, <2>5, <2>7, <2>9 DEF TypeOK, PInv
<1>2. CASE Cardinality(Registered) # 1
  <2>1. UNCHANGED <<gen, doomed, made, cur, objs, stack>> /\ app = "running"
        /\ app' = "killed" /\ status' = 0
    BY <1>2 DEF IpcKill
  <2>2. TypeOK'
    BY <2>1 DEF TypeOK
  <2> QED BY <2>1, <2>2 DEF PInv, FramesOK, Quiet, CurIsWired, Reloading, CurIsAllocated,
                            Allocated
<1> QED BY <1>1, <1>2

\* The frame on top, and the frames a reload goes on with.
LEMMA TopOK ==
  ASSUME TypeOK, PInv, NEW p, At(p)
  PROVE  /\ stack \in Seq(Frames) /\ stack # <<>> /\ Top \in Frames /\ Top.at = p
         /\ Top = stack[1] /\ 1 \in DOMAIN stack /\ FrameOK(gen, Top) /\ FramesOK
         /\ app \notin {"starting", "ended"}
<1>1. stack \in Seq(Frames) /\ stack # <<>> /\ Top.at = p
  BY DEF At, TypeOK
<1>2. Top \in Frames /\ Top = stack[1] /\ 1 \in DOMAIN stack
  BY <1>1, TailShape DEF Top
<1> QED BY <1>1, <1>2 DEF PInv, FramesOK, Quiet

LEMMA EnterReloadP ==
  ASSUME TypeOK, PInv, EnterReload
  PROVE  TypeOK' /\ PInv'
<1>1. stack \in Seq(Frames) /\ stack # <<>> /\ Top \in Frames /\ Top.at = "create"
      /\ FrameOK(gen, Top) /\ FramesOK /\ app \notin {"starting", "ended"}
  BY TopOK DEF EnterReload
<1> DEFINE g == Top.g
           old == IF Top.hard THEN None ELSE cur
           f == [Frame("reload", g, Top.hard) EXCEPT !.old = old, !.isReload = (cur # None)]
<1>2. g \in Gens /\ gen[g].phase \in {"new", "dying"} /\ Top.hard \in BOOLEAN
  BY <1>1 DEF FrameOK, InLoad, Frames
<1>3. f \in Frames /\ f.at = "reload" /\ f.g = g /\ f.left = 0
  <2>1. Frame("reload", g, Top.hard) \in Frames /\ Frame("reload", g, Top.hard).at = "reload"
        /\ Frame("reload", g, Top.hard).g = g /\ Frame("reload", g, Top.hard).left = 0
    BY <1>2, FrameType DEF Points
  <2>2. old \in Gens \cup {None}
    BY DEF TypeOK
  <2> QED BY <2>1, <2>2 DEF Frames
<1>4. gen' = Linked(LetGo(gen, cur), g) /\ Goto(f)
  BY DEF EnterReload
<1> HIDE DEF f
<1>5. /\ gen' \in [Gens -> Generations]
      /\ \A h \in Gens : /\ gen'[h].phase = gen[h].phase
                         /\ gen'[h].wired => h # cur /\ gen[h].wired
                         /\ h # cur /\ gen[h].wired => gen'[h].wired
                         /\ h # g /\ h # cur => gen'[h] = gen[h]
  <2>1. gen \in [Gens -> Generations] /\ cur \in Gens \cup {None}
    BY DEF TypeOK
  <2>2. gen' = Linked(LetGo(gen, cur), Top.g)
    BY <1>4
  <2>3. /\ gen' \in [Gens -> Generations]
        /\ \A h \in Gens : /\ gen'[h].wired => h # cur /\ gen[h].wired
                           /\ h # cur /\ gen[h].wired => gen'[h].wired
                           /\ gen'[h].phase = gen[h].phase
                           /\ h # Top.g /\ h # cur => gen'[h] = gen[h]
    BY <1>2, <2>1, <2>2, EnterGens
  <2> QED BY <2>3
<1>7. Lives
  BY <1>5 DEF Lives, Allocated
<1>8. FrameOK(gen', f)
  BY <1>2, <1>3, <1>5 DEF FrameOK
<1>9. stack' \in Seq(Frames) /\ stack' # <<>> /\ FramesOK' /\ Reloading'
  BY <1>1, <1>3, <1>4, <1>7, <1>8, GotoP DEF Detached
<1>10. objs' \in [Objs -> Objects]
  <2>1. PICK tree \in SUBSET Objs :
          objs' = [o \in Objs |-> IF o \in tree THEN [objs[o] EXCEPT !.st = "done"] ELSE objs[o]]
    BY DEF EnterReload
  <2>2. \A o \in Objs : [objs[o] EXCEPT !.st = "done"] \in Objects /\ objs[o] \in Objects
    BY DEF TypeOK, Objects
  <2> QED BY <2>1, <2>2
<1>12. CurIsWired' /\ CurIsAllocated' /\ Quiet'
  BY <1>1, <1>7, <1>9 DEF PInv, CurIsWired, CurIsAllocated, Quiet, EnterReload, Lives, TypeOK
<1> QED BY <1>5, <1>9, <1>10, <1>12 DEF TypeOK, PInv, EnterReload

LEMMA FinishReloadP ==
  ASSUME TypeOK, PInv, FinishReload
  PROVE  TypeOK' /\ PInv'
<1>1. stack \in Seq(Frames) /\ stack # <<>> /\ Top \in Frames /\ Top.at = "reload"
      /\ FrameOK(gen, Top) /\ FramesOK /\ app \notin {"starting", "ended"}
  BY TopOK DEF FinishReload
<1> DEFINE g == Top.g
           f == [Top EXCEPT !.at = "finished", !.acts = MaxActs]
<1>2. g \in Gens /\ gen[g].phase \in {"new", "dying"}
  BY <1>1 DEF FrameOK, InLoad
<1>3. f \in Frames /\ f.at = "finished" /\ f.g = g /\ f.left = Top.left
  <2>1. MaxActs \in 0..MaxActs
    BY ParameterTypes DEF ParameterTypes
  <2> QED BY <1>1, <2>1 DEF Frames, Points
<1>4. gen' = [gen EXCEPT ![g].complete = TRUE] /\ Goto(f)
  BY DEF FinishReload
<1> HIDE DEF f
<1>5. /\ gen' \in [Gens -> Generations]
      /\ \A h \in Gens : /\ gen'[h].phase = gen[h].phase /\ gen'[h].wired = gen[h].wired
                         /\ h # g => gen'[h] = gen[h]
  <2>1. [gen[g] EXCEPT !.complete = TRUE] \in Generations
    <3>1. gen[g] \in Generations
      BY <1>2 DEF TypeOK
    <3> QED BY <3>1 DEF Generations
  <2> QED BY <1>2, <1>4, <2>1 DEF TypeOK, Generations
<1>6. Lives
  BY <1>5 DEF Lives, Allocated
<1>7. FrameOK(gen', f)
  BY <1>1, <1>2, <1>3, <1>5 DEF FrameOK
<1>8. stack' \in Seq(Frames) /\ stack' # <<>> /\ FramesOK' /\ Reloading'
  BY <1>1, <1>3, <1>4, <1>6, <1>7, GotoP DEF Detached
<1>9. objs' \in [Objs -> Objects]
  <2>1. \A o \in Objs : [objs[o] EXCEPT !.st = "done"] \in Objects /\ objs[o] \in Objects
    BY DEF TypeOK, Objects
  <2> QED BY <2>1 DEF FinishReload
<1>11. CurIsWired' /\ CurIsAllocated' /\ Quiet'
  BY <1>1, <1>6, <1>8 DEF PInv, CurIsWired, CurIsAllocated, Quiet, FinishReload, Lives, TypeOK
<1> QED BY <1>5, <1>8, <1>9, <1>11 DEF TypeOK, PInv, FinishReload

\* postReload() changes some objects, to objects.
LEMMA PostedType ==
  ASSUME TypeOK, NEW gs, NEW alive
  PROVE  Posted(gs, alive) \in [Objs -> Objects]
<1> DEFINE r(o) == [objs[o] EXCEPT !.st = "done", !.crowded = alive \ {objs[o].gen} # {}]
<1>1. ASSUME NEW o \in Objs PROVE objs[o] \in Objects /\ r(o) \in Objects
  <2>1. objs[o] \in Objects
    BY DEF TypeOK
  <2> QED BY <2>1 DEF Objects
<1>2. Posted(gs, alive) = [o \in Objs |->
        IF objs[o].gen \in gs \cap Alive /\ objs[o].kind = "hook" /\ objs[o].st = "waiting"
        THEN r(o) ELSE objs[o]]
  BY DEF Posted
<1> HIDE DEF r
<1> QED BY <1>1, <1>2

LEMMA HardPostedP ==
  ASSUME TypeOK, PInv, HardPosted
  PROVE  TypeOK' /\ PInv'
<1>1. stack \in Seq(Frames) /\ stack # <<>> /\ Top \in Frames /\ Top.at = "finished"
      /\ FrameOK(gen, Top) /\ FramesOK /\ app \notin {"starting", "ended"}
  BY TopOK DEF HardPosted
<1> DEFINE f == [Top EXCEPT !.at = "posted", !.acts = MaxActs]
<1>2. f \in Frames /\ f.at = "posted" /\ f.g = Top.g /\ f.left = Top.left
  <2>1. MaxActs \in 0..MaxActs
    BY ParameterTypes DEF ParameterTypes
  <2> QED BY <1>1, <2>1 DEF Frames, Points
<1>3. Goto(f) /\ UNCHANGED <<gen, made, cur, doomed, app, status>>
  BY DEF HardPosted
<1> HIDE DEF f
<1>4. Lives /\ FrameOK(gen', f)
  BY <1>1, <1>2, <1>3 DEF Lives, Allocated, FrameOK, InLoad
<1>5. stack' \in Seq(Frames) /\ stack' # <<>> /\ FramesOK' /\ Reloading'
  BY <1>1, <1>2, <1>3, <1>4, GotoP DEF Detached
<1>6. objs' \in [Objs -> Objects]
  BY PostedType DEF HardPosted
<1>7. CurIsWired' /\ CurIsAllocated' /\ Quiet'
  BY <1>1, <1>3, <1>5 DEF PInv, CurIsWired, CurIsAllocated, Quiet, Allocated
<1> QED BY <1>3, <1>5, <1>6, <1>7 DEF TypeOK, PInv

\* What a reload ends with: the generation it loaded becomes current.
LEMMA AdoptP ==
  ASSUME TypeOK, PInv, NEW p, At(p), InLoad(Top), NEW gs \in [Gens -> Generations],
         \A h \in Gens : gs[h].phase \in {"new", "dying"} <=> Allocated(h),
         gen' = Adopted(gs, Top.g), cur' = Top.g, Completed(Top),
         doomed' \in Seq(Gens), UNCHANGED <<made, objs, app, status>>
  PROVE  TypeOK' /\ PInv'
<1>1. stack \in Seq(Frames) /\ stack # <<>> /\ Top \in Frames
      /\ FrameOK(gen, Top) /\ FramesOK /\ app \notin {"starting", "ended"}
  BY TopOK
<1> DEFINE g == Top.g
           f == [Top EXCEPT !.at = "completed", !.acts = MaxActs]
<1>2. g \in Gens /\ gen[g].phase \in {"new", "dying"}
  BY <1>1 DEF FrameOK, InLoad
<1>3. f \in Frames /\ f.at = "completed" /\ f.left = Top.left
  <2>1. MaxActs \in 0..MaxActs
    BY ParameterTypes DEF ParameterTypes
  <2> QED BY <1>1, <2>1 DEF Frames, Points
<1>4. Goto(f) \/ Return
  BY DEF Completed
<1> HIDE DEF f
<1>5. /\ gen' \in [Gens -> Generations]
      /\ \A h \in Gens : /\ gen'[h].wired = (h = g \/ gs[h].wired)
                         /\ gen'[h].phase = gs[h].phase
                         /\ h # g => gen'[h] = gs[h]
  BY <1>2, AdoptedGens
<1>6. Lives
  <2>1. \A h \in Gens : gs[h].phase \in {"new", "dying"} <=> Allocated(h)
    OBVIOUS
  <2>2. \A h \in Gens : Allocated(h)' <=> gen'[h].phase \in {"new", "dying"}
    BY DEF Allocated
  <2> QED BY <1>5, <2>1, <2>2 DEF Lives
<1>7. FrameOK(gen', f)
  BY <1>1, <1>3 DEF FrameOK, InLoad
<1>8. stack' \in Seq(Frames) /\ FramesOK'
  BY <1>1, <1>3, <1>4, <1>6, <1>7, GotoP, ReturnP
<1>9. gen'[cur'].wired /\ gen'[cur'].phase \in {"new", "dying"}
  <2>1. Allocated(g)
    BY <1>2 DEF Allocated
  <2> QED BY <1>2, <1>5, <1>6, <2>1 DEF Lives, Allocated
<1>11. CurIsWired' /\ CurIsAllocated' /\ Quiet'
  BY <1>1, <1>9 DEF CurIsWired, CurIsAllocated, Quiet, Allocated
<1>12. TypeOK'
  BY <1>2, <1>5, <1>8 DEF TypeOK
<1> QED BY <1>8, <1>11, <1>12 DEF PInv

LEMMA SoftReloadedP ==
  ASSUME TypeOK, PInv, SoftReloaded
  PROVE  TypeOK' /\ PInv'
<1> DEFINE g == Top.g
           ga == [gen EXCEPT ![g].after = Top.old]
           gs == Destroyed(ga, Top.old)
<1>1. At("finished") /\ Top \in Frames /\ Top.at = "finished" /\ FrameOK(gen, Top)
  BY TopOK DEF SoftReloaded
<1>2. InLoad(Top) /\ g \in Gens /\ gen[g].phase \in {"new", "dying"} /\ Top.old \in Gens
  BY <1>1 DEF SoftReloaded, InLoad, FrameOK, Frames
<1>3. gen \in [Gens -> Generations]
  BY DEF TypeOK
<1>4. /\ ga \in [Gens -> Generations]
      /\ \A h \in Gens : ga[h].phase = gen[h].phase /\ (h # g => ga[h] = gen[h])
  BY <1>2, <1>3, AfterGens
<1> HIDE DEF ga
<1>5. /\ gs \in [Gens -> Generations]
      /\ \A h \in Gens : /\ gs[h].phase = IF h = Top.old /\ ga[h].phase = "new"
                                          THEN "dying" ELSE ga[h].phase
                         /\ ga[h].phase # "new" => gs[h] = ga[h]
  BY <1>2, <1>4, DestroyedGens
<1>6. gen' = Adopted(gs, g) /\ cur' = g /\ Completed(Top) /\ UNCHANGED <<made, objs, app, status>>
  BY DEF SoftReloaded, ga
<1> HIDE DEF gs
<1>7. \A h \in Gens : gs[h].phase \in {"new", "dying"} <=> Allocated(h)
  BY <1>4, <1>5 DEF Allocated
<1>9. doomed' \in Seq(Gens)
  BY <1>2 DEF SoftReloaded, Dooming, TypeOK
<1> QED BY <1>1, <1>2, <1>5, <1>6, <1>7, <1>9, AdoptP

LEMMA HardReloadedP ==
  ASSUME TypeOK, PInv, HardReloaded
  PROVE  TypeOK' /\ PInv'
<1> DEFINE g == Top.g
           gs == IF Top.hard /\ cur # None THEN Destroyed(gen, cur) ELSE gen
<1>1. At("posted") /\ Top \in Frames /\ Top.at = "posted" /\ FrameOK(gen, Top)
  BY TopOK DEF HardReloaded
<1>2. InLoad(Top) /\ g \in Gens /\ gen[g].phase \in {"new", "dying"}
  BY <1>1 DEF HardReloaded, InLoad, FrameOK, Frames
<1>3. gen \in [Gens -> Generations] /\ cur \in Gens \cup {None}
  BY DEF TypeOK
<1>5. /\ gs \in [Gens -> Generations]
      /\ \A h \in Gens : /\ \/ gs[h].phase = gen[h].phase
                            \/ gen[h].phase = "new" /\ gs[h].phase = "dying"
                         /\ gen[h].phase # "new" => gs[h] = gen[h]
  <2>1. CASE Top.hard /\ cur # None
    BY <1>3, <2>1, DestroyedGens
  <2>2. CASE ~(Top.hard /\ cur # None)
    BY <1>3, <2>2
  <2> QED BY <2>1, <2>2
<1>6. gen' = Adopted(gs, g) /\ cur' = g /\ Completed(Top) /\ UNCHANGED <<made, objs, app, status>>
  BY DEF HardReloaded
<1> HIDE DEF gs
<1>7. \A h \in Gens : gs[h].phase \in {"new", "dying"} <=> Allocated(h)
  BY <1>5 DEF Allocated
<1>9. doomed' \in Seq(Gens)
  BY <1>3 DEF HardReloaded, Dooming, TypeOK
<1> QED BY <1>1, <1>2, <1>5, <1>6, <1>7, <1>9, AdoptP

\* The actions that only change the stack, and perhaps end the program.
LEMMA ReturningP ==
  ASSUME TypeOK, PInv, NEW p, At(p), p \in {"completed", "failed", "deleted"}, Return,
         UNCHANGED <<gen, made, cur, doomed, objs>>,
         UNCHANGED <<app, status>> \/ (app' = "exiting" /\ status' \in Codes \cup {0})
  PROVE  TypeOK' /\ PInv'
<1>1. stack \in Seq(Frames) /\ stack # <<>> /\ Top.at = p /\ FramesOK
      /\ app \notin {"starting", "ended"}
  BY TopOK
<1>2. Lives
  BY DEF Lives, Allocated
<1>3. stack' \in Seq(Frames) /\ FramesOK' /\ (Reloading => Reloading')
  BY <1>1, <1>2, ReturnP DEF Detached
<1>4. TypeOK'
  BY <1>3 DEF TypeOK
<1>5. CurIsWired' /\ CurIsAllocated' /\ Quiet'
  BY <1>1, <1>3 DEF PInv, CurIsWired, CurIsAllocated, Quiet, Allocated
<1> QED BY <1>3, <1>4, <1>5 DEF PInv

LEMMA ReturnsP ==
  ASSUME TypeOK, PInv, Returns
  PROVE  TypeOK' /\ PInv'
BY ReturningP DEF Returns

LEMMA DeletedP ==
  ASSUME TypeOK, PInv, Deleted
  PROVE  TypeOK' /\ PInv'
<1>1. At("deleted") /\ Top.g \in Gens
  BY TopOK DEF Deleted, FrameOK
<1>2. gen[Top.g].code \in Codes \cup {0}
  BY <1>1 DEF TypeOK, Generations
<1> QED BY <1>1, <1>2, ReturningP DEF Deleted

LEMMA FailedAgainP ==
  ASSUME TypeOK, PInv, FailedAgain
  PROVE  TypeOK' /\ PInv'
<1>1. stack \in Seq(Frames) /\ stack # <<>> /\ Top \in Frames /\ Top.at = "failed"
      /\ At("failed") /\ FrameOK(gen, Top) /\ FramesOK /\ app \notin {"starting", "ended"}
  BY TopOK DEF FailedAgain
<1>2. CASE cur = None
  BY <1>1, <1>2, ReturningP DEF FailedAgain
<1>3. CASE cur # None
  <2> DEFINE f == [Top EXCEPT !.left = @ - 1, !.acts = MaxActs]
  <2>1. f \in Frames /\ f.at = "failed"
    <3>1. MaxActs \in 0..MaxActs
      BY ParameterTypes DEF ParameterTypes
    <3>2. Top.left \in 0..1 /\ Top.left > 0
      BY <1>1 DEF FailedAgain, Frames, FrameOK
    <3>3. Top.left - 1 \in 0..1
      BY <3>2
    <3> QED BY <1>1, <3>1, <3>3 DEF Frames
  <2>2. Goto(f) /\ UNCHANGED <<gen, made, cur, doomed, objs, app, status>>
    BY <1>3 DEF FailedAgain
  <2> HIDE DEF f
  <2>3. Lives /\ FrameOK(gen', f) /\ ~Detached(Top)
    BY <1>1, <2>1, <2>2 DEF Lives, Allocated, FrameOK, InLoad, Detached
  <2>4. stack' \in Seq(Frames) /\ stack' # <<>> /\ FramesOK' /\ (Reloading => Reloading')
    BY <1>1, <2>1, <2>2, <2>3, GotoP
  <2>5. TypeOK'
    BY <2>2, <2>4 DEF TypeOK
  <2>6. CurIsWired' /\ CurIsAllocated' /\ Quiet'
    BY <1>1, <2>2, <2>4 DEF PInv, CurIsWired, CurIsAllocated, Quiet, Allocated
  <2> QED BY <2>4, <2>5, <2>6 DEF PInv
<1> QED BY <1>2, <1>3

LEMMA DeleteRootP ==
  ASSUME TypeOK, PInv, DeleteRoot
  PROVE  TypeOK' /\ PInv'
<1> DEFINE g == Head(doomed)
           f == Frame("deleted", g, FALSE)
<1>1. doomed \in Seq(Gens) /\ doomed # <<>> /\ stack = <<>> /\ app # "ended"
  BY DEF DeleteRoot, TypeOK
<1>2. g \in Gens /\ Tail(doomed) \in Seq(Gens)
  BY <1>1, HeadTailProperties
<1>3. f \in Frames /\ f.at = "deleted" /\ f.g = g /\ f.left = 0
  BY <1>2, FrameType DEF Points
<1>4. /\ gen' = [gen EXCEPT ![g].phase = "gone"] /\ cur' = IF gen[g].wired THEN None ELSE cur
      /\ stack' = <<f>> /\ doomed' = Tail(doomed) /\ UNCHANGED <<made, app, status>>
  BY DEF DeleteRoot
<1>5. objs' \in [Objs -> Objects]
  <2> DEFINE posted == Posted({h \in Gens : gen[h].after = g}, Registered \ {g})
  <2>1. posted \in [Objs -> Objects]
    BY PostedType
  <2>2. \A o \in Objs : [objs[o] EXCEPT !.st = "dead"] \in Objects
    BY DEF TypeOK, Objects
  <2>3. objs' = [o \in Objs |-> IF objs[o].gen = g THEN [objs[o] EXCEPT !.st = "dead"]
                                ELSE posted[o]]
    BY DEF DeleteRoot
  <2> HIDE DEF posted
  <2> QED BY <2>1, <2>2, <2>3
<1> HIDE DEF f, g
<1>6. /\ gen' \in [Gens -> Generations]
      /\ \A h \in Gens : gen'[h].wired = gen[h].wired /\ (h # g => gen'[h] = gen[h])
  <2>1. [gen[g] EXCEPT !.phase = "gone"] \in Generations
    <3>1. gen[g] \in Generations
      BY <1>2 DEF TypeOK
    <3> QED BY <3>1 DEF Generations, Phases
  <2> QED BY <1>2, <1>4, <2>1 DEF TypeOK, Generations
<1>7. stack' \in Seq(Frames) /\ stack' # <<>> /\ DOMAIN stack' = {1} /\ stack'[1] = f
  BY <1>3, <1>4
<1>8. FramesOK'
  BY <1>2, <1>3, <1>7 DEF FramesOK, FrameOK, InLoad
<1>9. ~Reloading
  BY <1>1 DEF Reloading
<1>10. cur # None => gen[cur].wired /\ Allocated(cur) /\ cur \in Gens
  BY <1>1, <1>9 DEF PInv, CurIsWired, CurIsAllocated, TypeOK
<1>11. cur' # None => cur' = cur /\ cur # g
  BY <1>4, <1>10
<1>12. CurIsWired' /\ CurIsAllocated'
  BY <1>6, <1>10, <1>11 DEF CurIsWired, CurIsAllocated, Allocated
<1>13. TypeOK'
  <2>1. cur' \in Gens \cup {None}
    BY <1>4 DEF TypeOK
  <2> QED BY <1>2, <1>4, <1>5, <1>6, <1>7, <2>1 DEF TypeOK, g
<1>14. Quiet'
  BY <1>4 DEF Quiet, DeleteRoot
<1> QED BY <1>8, <1>12, <1>13, <1>14 DEF PInv

LEMMA ConstructP ==
  ASSUME TypeOK, PInv, Construct
  PROVE  TypeOK' /\ PInv'
<1>1. stack = <<>> /\ app # "ended" /\ app' = "loading"
  BY DEF PInv, Quiet, Construct
<1> QED BY <1>1, ReloadGraphP DEF Construct

LEMMA ConstructedP ==
  ASSUME TypeOK, PInv, Constructed
  PROVE  TypeOK' /\ PInv'
<1>1. UNCHANGED <<gen, made, cur, doomed, objs, stack>> /\ app' \in {"ended", "running"}
      /\ stack = <<>> /\ app # "ended" /\ (status' = -1 \/ status' = status)
  BY DEF Constructed
<1>2. TypeOK'
  BY <1>1 DEF TypeOK
<1> QED BY <1>1, <1>2 DEF PInv, FramesOK, Quiet, CurIsWired, Reloading, CurIsAllocated, Allocated

LEMMA ShutdownP ==
  ASSUME TypeOK, PInv, Shutdown
  PROVE  TypeOK' /\ PInv'
<1>1. stack = <<>> /\ app # "ended" /\ app' = "ended" /\ DOMAIN stack = {}
      /\ UNCHANGED <<made, cur, doomed, objs, stack, status>>
  BY DEF Shutdown
<1>2. gen' \in [Gens -> Generations] /\ \A h \in Gens : gen'[h].wired = gen[h].wired
  <2>1. CASE cur # None /\ gen[cur].phase = "new"
    <3>1. cur \in Gens /\ gen' = [gen EXCEPT ![cur].phase = "gone"]
      BY <2>1 DEF Shutdown, TypeOK
    <3>2. [gen[cur] EXCEPT !.phase = "gone"] \in Generations
      BY <3>1 DEF TypeOK, Generations, Phases
    <3> QED BY <3>1, <3>2 DEF TypeOK, Generations
  <2>2. CASE ~(cur # None /\ gen[cur].phase = "new")
    BY <2>2 DEF Shutdown, TypeOK
  <2> QED BY <2>1, <2>2
<1>3. TypeOK'
  BY <1>1, <1>2 DEF TypeOK
<1>4. FramesOK' /\ Quiet' /\ CurIsAllocated'
  BY <1>1 DEF FramesOK, Quiet, CurIsAllocated
<1>5. CurIsWired'
  <2>1. cur # None => gen[cur].wired /\ cur \in Gens
    BY <1>1 DEF PInv, CurIsWired, Reloading, TypeOK
  <2> QED BY <1>1, <1>2, <2>1 DEF CurIsWired
<1> QED BY <1>3, <1>4, <1>5 DEF PInv

LEMMA PInvHolds == Spec => [](TypeOK /\ PInv)
<1>1. Init => TypeOK /\ PInv
  <2> SUFFICES ASSUME Init PROVE TypeOK /\ PInv
    OBVIOUS
  <2>1. Unused \in Generations /\ Unborn \in Objects
    BY DEF Unused, Unborn, Generations, Objects, Phases
  <2>2. stack \in Seq(Frames) /\ doomed \in Seq(Gens) /\ DOMAIN stack = {}
    BY DEF Init
  <2>3. made \in 0..MaxGens /\ status \in Codes \cup {NoCode, -1, 0}
    BY ParameterTypes DEF Init, ParameterTypes
  <2>4. TypeOK
    BY <2>1, <2>2, <2>3 DEF Init, TypeOK
  <2> QED BY <2>2, <2>4 DEF Init, PInv, FramesOK, Quiet, CurIsWired, CurIsAllocated
<1>2. TypeOK /\ PInv /\ [Next]_vars => TypeOK' /\ PInv'
  <2> SUFFICES ASSUME TypeOK, PInv, [Next]_vars PROVE TypeOK' /\ PInv'
    OBVIOUS
  <2>1. CASE Construct \/ Constructed \/ Shutdown
    BY <2>1, ConstructP, ConstructedP, ShutdownP
  <2>2. CASE Continue
    BY <2>2, EnterReloadP, FinishReloadP, SoftReloadedP, HardPostedP, HardReloadedP,
       FailedAgainP, ReturnsP, DeletedP DEF Continue
  <2>3. CASE Qml
    <3>1. ASSUME NEW hard \in Hards, QmlReload(hard) PROVE TypeOK' /\ PInv'
      <4>1. hard \in BOOLEAN
        BY ParameterTypes DEF ParameterTypes
      <4> QED BY <3>1, <4>1, QmlReloadP
    <3> QED BY <2>3, <3>1, QmlExitP, CreateP DEF Qml
  <2>4. CASE IpcKill \/ DeleteRoot \/ \E o \in Objs : TimerFires(o)
    BY <2>4, IpcKillP, DeleteRootP, TimerFiresP
  <2>5. CASE UNCHANGED vars
    BY <2>5 DEF vars, TypeOK, PInv, FramesOK, Quiet, CurIsWired, Reloading, CurIsAllocated, Allocated
  <2> QED BY <2>1, <2>2, <2>3, <2>4, <2>5 DEF Next
<1> QED BY <1>1, <1>2, PTL DEF Spec

\* Every variable keeps its type.
THEOREM TypeCorrect == Spec => []TypeOK
<1>1. TypeOK /\ PInv => TypeOK
  OBVIOUS
<1> QED BY <1>1, PInvHolds, PTL

\* The wrapper never keeps a generation that has been deleted, however its
\* reloads nest: every reload that disconnects the wrapper from its generation
\* gives it another before the event loop can delete anything.
THEOREM NeverDangles == Spec => []CurIsAllocated
<1>1. TypeOK /\ PInv => CurIsAllocated
  BY DEF PInv
<1> QED BY <1>1, PInvHolds, PTL

-----------------------------------------------------------------------------
(* The second invariant: what each change of the stack means for it         *)

\* A detached call on top, or none at all.
LEMMA DetachedTop ==
  ASSUME DetachedOnTop, stack \in Seq(Frames), Reloading
  PROVE  stack # <<>> /\ Detached(Top)
<1>1. PICK i \in DOMAIN stack : Detached(stack[i])
  BY DEF Reloading
<1>2. i = 1
  BY <1>1 DEF DetachedOnTop
<1>3. stack # <<>>
  BY <1>1
<1> QED BY <1>1, <1>2, <1>3, TailShape DEF Top

LEMMA ActedS ==
  ASSUME stack \in Seq(Frames), stack = <<>> \/ Top.acts > 0, stack' = Acted,
         DetachedOnTop, LoadsDiffer, cur' = cur
  PROVE  /\ DetachedOnTop' /\ LoadsDiffer' /\ (Reloading' <=> Reloading)
         /\ \A g \in Gens : (Loading(g)' <=> Loading(g)) /\ (Deleting(g)' <=> Deleting(g))
<1>1. DOMAIN stack' = DOMAIN stack /\ \A i \in DOMAIN stack : Same(stack'[i], stack[i])
  BY OnlyActed
<1>2. \A i \in DOMAIN stack :
        /\ InLoad(stack'[i]) <=> InLoad(stack[i])
        /\ Detached(stack'[i]) <=> Detached(stack[i])
        /\ stack'[i].g = stack[i].g /\ stack'[i].at = stack[i].at
        /\ stack'[i].old = stack[i].old /\ stack'[i].hard = stack[i].hard
  BY <1>1 DEF Same, InLoad, Detached
<1>3. DetachedOnTop'
  BY <1>1, <1>2 DEF DetachedOnTop
<1>4. LoadsDiffer'
  BY <1>1, <1>2 DEF LoadsDiffer
<1>5. Reloading' <=> Reloading
  BY <1>1, <1>2 DEF Reloading
<1>6. ASSUME NEW g \in Gens PROVE (Loading(g)' <=> Loading(g)) /\ (Deleting(g)' <=> Deleting(g))
  BY <1>1, <1>2 DEF Loading, Deleting
<1> QED BY <1>3, <1>4, <1>5, <1>6

\* A new call that is not detached, on top of calls none of which is.
LEMMA PushS ==
  ASSUME stack \in Seq(Frames), stack = <<>> \/ Top.acts > 0, ~Reloading,
         NEW f \in Frames, stack' = <<f>> \o Acted, ~Detached(f), InLoad(f) => f.g # cur /\ ~Loading(f.g),
         LoadsDiffer, cur' = cur
  PROVE  /\ DetachedOnTop' /\ LoadsDiffer' /\ ~Reloading'
         /\ \A g \in Gens : /\ Loading(g)' <=> Loading(g) \/ (InLoad(f) /\ f.g = g)
                            /\ Deleting(g)' <=> Deleting(g) \/ (f.at = "deleted" /\ f.g = g)
<1>1. /\ DOMAIN stack = 1..Len(stack) /\ DOMAIN stack' = 1..(Len(stack) + 1)
      /\ Len(stack) \in Nat /\ stack'[1] = f
      /\ \A i \in 2..(Len(stack) + 1) : Same(stack'[i], stack[i - 1])
  BY PushActed
<1>2. ASSUME NEW i \in DOMAIN stack', i # 1
      PROVE  /\ i - 1 \in DOMAIN stack
             /\ InLoad(stack'[i]) <=> InLoad(stack[i - 1])
             /\ Detached(stack'[i]) <=> Detached(stack[i - 1])
             /\ stack'[i].g = stack[i - 1].g /\ stack'[i].at = stack[i - 1].at
  <2>1. i \in 2..(Len(stack) + 1)
    BY <1>1, <1>2
  <2>2. i - 1 \in DOMAIN stack
    BY <1>1, <2>1
  <2> QED BY <1>1, <2>1, <2>2 DEF Same, InLoad, Detached
<1>3. \A i \in DOMAIN stack : i + 1 \in DOMAIN stack' /\ i + 1 # 1 /\ (i + 1) - 1 = i
  BY <1>1
<1>4. \A i \in DOMAIN stack' : ~Detached(stack'[i])
  BY <1>1, <1>2 DEF Reloading
<1>5. DetachedOnTop' /\ ~Reloading'
  BY <1>4 DEF DetachedOnTop, Reloading
<1>6. ASSUME NEW i \in DOMAIN stack', InLoad(stack'[i]) PROVE stack'[i].g # cur
  BY <1>1, <1>2, <1>6 DEF LoadsDiffer
<1>7. ASSUME NEW i \in DOMAIN stack', NEW j \in DOMAIN stack',
             InLoad(stack'[i]), InLoad(stack'[j]), stack'[i].g = stack'[j].g
      PROVE  i = j
  <2>1. CASE i = 1 /\ j # 1
    <3>1. InLoad(f) /\ Loading(f.g)
      BY <1>1, <1>2, <1>7, <2>1 DEF Loading
    <3> QED BY <3>1
  <2>2. CASE i # 1 /\ j = 1
    <3>1. InLoad(f) /\ Loading(f.g)
      BY <1>1, <1>2, <1>7, <2>2 DEF Loading
    <3> QED BY <3>1
  <2>3. CASE i # 1 /\ j # 1
    <3>1. i - 1 = j - 1
      BY <1>2, <1>7, <2>3 DEF LoadsDiffer
    <3> QED BY <1>1, <3>1
  <2> QED BY <2>1, <2>2, <2>3
<1>8. LoadsDiffer'
  BY <1>6, <1>7 DEF LoadsDiffer
<1>9. ASSUME NEW g \in Gens
      PROVE  /\ Loading(g)' <=> Loading(g) \/ (InLoad(f) /\ f.g = g)
             /\ Deleting(g)' <=> Deleting(g) \/ (f.at = "deleted" /\ f.g = g)
  <2>1. Loading(g)' => Loading(g) \/ (InLoad(f) /\ f.g = g)
    BY <1>1, <1>2 DEF Loading
  <2>2. Loading(g) => Loading(g)'
    BY <1>2, <1>3 DEF Loading
  <2>3. InLoad(f) /\ f.g = g => Loading(g)'
    BY <1>1 DEF Loading
  <2>4. Deleting(g)' => Deleting(g) \/ (f.at = "deleted" /\ f.g = g)
    BY <1>1, <1>2 DEF Deleting
  <2>5. Deleting(g) => Deleting(g)'
    <3> SUFFICES ASSUME Deleting(g) PROVE Deleting(g)'
      OBVIOUS
    <3>1. PICK i \in DOMAIN stack : stack[i].at = "deleted" /\ stack[i].g = g
      BY DEF Deleting
    <3>2. i + 1 \in DOMAIN stack' /\ i + 1 # 1 /\ (i + 1) - 1 = i
      BY <1>3
    <3>3. stack'[i + 1].at = "deleted" /\ stack'[i + 1].g = g
      BY <1>2, <3>1, <3>2
    <3> QED BY <3>2, <3>3 DEF Deleting
  <2>6. f.at = "deleted" /\ f.g = g => Deleting(g)'
    BY <1>1 DEF Deleting
  <2> QED BY <2>1, <2>2, <2>3, <2>4, <2>5, <2>6
<1> QED BY <1>5, <1>8, <1>9

\* A load goes on, detached, in the same call.
LEMMA GoOnS ==
  ASSUME stack \in Seq(Frames), stack # <<>>, DetachedOnTop, LoadsDiffer,
         NEW f \in Frames, Goto(f), InLoad(Top), InLoad(f), f.g = Top.g, Detached(f),
         ~Reloading \/ Detached(Top), cur' = cur,
         f.old = (IF f.hard THEN None ELSE cur), f.at = "posted" => f.old = None
  PROVE  /\ DetachedOnTop' /\ LoadsDiffer' /\ Reloading'
         /\ \A g \in Gens : (Loading(g)' <=> Loading(g)) /\ (Deleting(g)' <=> Deleting(g))
<1>1. /\ DOMAIN stack = 1..Len(stack) /\ DOMAIN stack' = DOMAIN stack
      /\ Len(stack) \in Nat /\ Len(stack) >= 1 /\ Top = stack[1] /\ stack'[1] = f
      /\ \A i \in 2..Len(stack) : stack'[i] = stack[i]
  BY GotoTop
<1>2. 1 \in DOMAIN stack /\ \A i \in DOMAIN stack : i # 1 => stack'[i] = stack[i]
  BY <1>1
<1>3. \A i \in DOMAIN stack : i # 1 => ~Detached(stack[i])
  BY DEF DetachedOnTop
<1>4. DetachedOnTop' /\ Reloading'
  BY <1>1, <1>2, <1>3 DEF DetachedOnTop, Reloading
<1>5. \A i \in DOMAIN stack : (InLoad(stack'[i]) <=> InLoad(stack[i])) /\ stack'[i].g = stack[i].g
  BY <1>1, <1>2
<1>6. LoadsDiffer'
  BY <1>1, <1>5 DEF LoadsDiffer
<1>7. Top.at # "deleted" /\ f.at # "deleted"
  BY DEF InLoad
<1>8. \A i \in DOMAIN stack : stack'[i].at = "deleted" <=> stack[i].at = "deleted"
  BY <1>1, <1>2, <1>7
<1>9. ASSUME NEW g \in Gens PROVE (Loading(g)' <=> Loading(g)) /\ (Deleting(g)' <=> Deleting(g))
  BY <1>1, <1>5, <1>8 DEF Loading, Deleting
<1> QED BY <1>4, <1>6, <1>9

\* The call on top returns, or goes on as one that loads nothing; a load that
\* ends so gives the wrapper its generation.
LEMMA LeaveS ==
  ASSUME stack \in Seq(Frames), stack # <<>>, DetachedOnTop, LoadsDiffer,
         NEW f \in Frames, ~InLoad(f), Goto(f) \/ Return,
         cur' = IF InLoad(Top) THEN Top.g ELSE cur
  PROVE  /\ DetachedOnTop' /\ LoadsDiffer' /\ ~Reloading'
         /\ \A g \in Gens : /\ Loading(g)' <=> Loading(g) /\ ~(InLoad(Top) /\ g = Top.g)
                            /\ Deleting(g) => Deleting(g)' \/ (Top.at = "deleted" /\ Top.g = g)
<1>1. Top = stack[1] /\ Len(stack) \in Nat /\ Len(stack) >= 1 /\ DOMAIN stack = 1..Len(stack)
  BY TailShape DEF Top
<1>2. \A i \in DOMAIN stack : i # 1 => ~Detached(stack[i])
  BY DEF DetachedOnTop
<1>3. ASSUME Goto(f)
      PROVE  /\ \A i \in DOMAIN stack' : (i # 1 /\ i \in DOMAIN stack /\ stack'[i] = stack[i])
                                         \/ (i = 1 /\ stack'[i] = f)
             /\ \A i \in DOMAIN stack : i # 1 => i \in DOMAIN stack' /\ stack'[i] = stack[i]
  BY <1>3, GotoTop
<1>4. ASSUME Return
      PROVE  /\ \A i \in DOMAIN stack' : i + 1 # 1 /\ i + 1 \in DOMAIN stack /\ stack'[i] = stack[i + 1]
             /\ \A i \in DOMAIN stack : i # 1 => i - 1 \in DOMAIN stack' /\ stack'[i - 1] = stack[i]
  <2>1. /\ DOMAIN stack' = 1..(Len(stack) - 1)
        /\ \A i \in 1..(Len(stack) - 1) : stack'[i] = stack[i + 1]
    BY <1>4, ReturnTop
  <2>2. ASSUME NEW i \in DOMAIN stack, i # 1
        PROVE  i - 1 \in DOMAIN stack' /\ stack'[i - 1] = stack[i]
    <3>1. i - 1 \in 1..(Len(stack) - 1) /\ (i - 1) + 1 = i
      BY <1>1, <2>2
    <3> QED BY <2>1, <3>1
  <2>3. \A i \in DOMAIN stack' : i + 1 # 1 /\ i + 1 \in DOMAIN stack
    BY <1>1, <2>1
  <2> QED BY <2>1, <2>2, <2>3
<1>5. ~Detached(f)
  BY DEF InLoad, Detached
<1>6. \A i \in DOMAIN stack' : ~Detached(stack'[i])
  BY <1>2, <1>3, <1>4, <1>5
<1>7. DetachedOnTop' /\ ~Reloading'
  BY <1>6 DEF DetachedOnTop, Reloading
<1>8. ASSUME NEW i \in DOMAIN stack', InLoad(stack'[i])
      PROVE  stack'[i].g # cur'
  <2>1. PICK k \in DOMAIN stack : k # 1 /\ stack'[i] = stack[k]
    BY <1>3, <1>4, <1>8
  <2>2. 1 \in DOMAIN stack
    BY <1>1
  <2>3. stack[k].g # cur /\ (InLoad(stack[1]) => stack[k].g # stack[1].g)
    BY <1>8, <2>1, <2>2 DEF LoadsDiffer
  <2> QED BY <1>1, <2>1, <2>3
<1>9. ASSUME NEW i \in DOMAIN stack', NEW j \in DOMAIN stack',
             InLoad(stack'[i]), InLoad(stack'[j]), stack'[i].g = stack'[j].g
      PROVE  i = j
  <2>1. CASE Goto(f)
    <3>1. i # 1 /\ j # 1 /\ i \in DOMAIN stack /\ j \in DOMAIN stack
          /\ stack'[i] = stack[i] /\ stack'[j] = stack[j]
      BY <1>3, <1>9, <2>1
    <3> QED BY <1>9, <3>1 DEF LoadsDiffer
  <2>2. CASE Return
    <3>1. i + 1 \in DOMAIN stack /\ j + 1 \in DOMAIN stack
          /\ stack'[i] = stack[i + 1] /\ stack'[j] = stack[j + 1]
      BY <1>4, <2>2
    <3>2. i + 1 = j + 1
      BY <1>9, <3>1 DEF LoadsDiffer
    <3>3. DOMAIN stack' = 1..(Len(stack) - 1)
      BY <2>2, ReturnTop
    <3> QED BY <1>1, <3>2, <3>3
  <2> QED BY <2>1, <2>2
<1>10. LoadsDiffer'
  BY <1>8, <1>9 DEF LoadsDiffer
<1>11. ASSUME NEW g \in Gens, Loading(g)' PROVE Loading(g) /\ ~(InLoad(Top) /\ g = Top.g)
  <2>1. PICK i \in DOMAIN stack' : InLoad(stack'[i]) /\ stack'[i].g = g
    BY <1>11 DEF Loading
  <2>2. PICK k \in DOMAIN stack : k # 1 /\ stack'[i] = stack[k]
    BY <1>3, <1>4, <2>1
  <2>3. InLoad(stack[k]) /\ stack[k].g = g /\ 1 \in DOMAIN stack
    BY <1>1, <2>1, <2>2
  <2>4. InLoad(stack[1]) => stack[1].g # g
    BY <2>2, <2>3 DEF LoadsDiffer
  <2> QED BY <1>1, <2>3, <2>4 DEF Loading
<1>12. ASSUME NEW g \in Gens, Loading(g), ~(InLoad(Top) /\ g = Top.g) PROVE Loading(g)'
  <2>1. PICK k \in DOMAIN stack : InLoad(stack[k]) /\ stack[k].g = g
    BY <1>12 DEF Loading
  <2>2. k # 1
    BY <1>1, <1>12, <2>1
  <2>3. PICK i \in DOMAIN stack' : stack'[i] = stack[k]
    BY <1>3, <1>4, <2>2
  <2> QED BY <2>1, <2>3 DEF Loading
<1>13. ASSUME NEW g \in Gens, Deleting(g), ~(Top.at = "deleted" /\ Top.g = g) PROVE Deleting(g)'
  <2>1. PICK k \in DOMAIN stack : stack[k].at = "deleted" /\ stack[k].g = g
    BY <1>13 DEF Deleting
  <2>2. k # 1
    BY <1>1, <1>13, <2>1
  <2>3. PICK i \in DOMAIN stack' : stack'[i] = stack[k]
    BY <1>3, <1>4, <2>2
  <2> QED BY <2>1, <2>3 DEF Deleting
<1> QED BY <1>7, <1>10, <1>11, <1>12, <1>13

-----------------------------------------------------------------------------
(* The second invariant: the generations                                    *)

\* An action that leaves the wrapper its generation, loads no other, and lets
\* generations grow older only at their own wish.
LEMMA KeepS ==
  ASSUME SInv, cur' = cur, made' = made, DetachedOnTop', LoadsDiffer', DoomedDie',
         LossEnds', EndIsEmpty',
         \A g \in Gens : Loading(g)' <=> Loading(g),
         Reloading' => Reloading \/ \A g \in Gens : gen'[g].wired => g # cur,
         \A h \in Gens : /\ gen'[h].phase = "new" => gen[h].phase = "new"
                         /\ gen[h].phase = "gone" => gen'[h].phase = "gone"
                         /\ gen'[h].phase = "dying" => gen[h].phase = "dying" \/ gen'[h].term
                         /\ gen[h].term => gen'[h].term
                         /\ gen'[h].wired => gen[h].wired
                         /\ h > made => gen'[h] = gen[h]
  PROVE  SInv'
<1>1. FreshUnused'
  BY DEF SInv, FreshUnused
<1>2. AliveIsKnown'
  BY DEF SInv, AliveIsKnown
<1>3. WiredIsCur'
  BY DEF SInv, WiredIsCur
<1>4. DyingWished'
  BY DEF SInv, DyingWished
<1> QED BY <1>1, <1>2, <1>3, <1>4 DEF SInv

LEMMA LossS ==
  ASSUME LossEnds, cur' = cur, app' = "running" => app = "running",
         \A g \in Gens : (Deleting(g) => Deleting(g)') /\ (gen[g].term => gen'[g].term)
  PROVE  LossEnds'
BY DEF LossEnds

\* The queue of the doomed generations.
LEMMA SameDoomed ==
  ASSUME DoomedDie, doomed' = doomed, doomed \in Seq(Gens),
         \A h \in Gens : gen'[h].phase = "dying" <=> gen[h].phase = "dying"
  PROVE  DoomedDie'
<1>1. \A i \in DOMAIN doomed : doomed[i] \in Gens
  OBVIOUS
<1> QED BY <1>1 DEF DoomedDie

LEMMA DoomS ==
  ASSUME DoomedDie, doomed \in Seq(Gens), NEW x \in Gens, doomed' = Dooming(gen, x),
         \A h \in Gens : gen'[h].phase = IF h = x /\ gen[h].phase = "new"
                                         THEN "dying" ELSE gen[h].phase
  PROVE  DoomedDie'
<1>1. CASE gen[x].phase # "new"
  <2>1. doomed' = doomed
    BY <1>1 DEF Dooming
  <2> QED BY <1>1, <2>1, SameDoomed
<1>2. CASE gen[x].phase = "new"
  <2>1. doomed' = Append(doomed, x)
    BY <1>2 DEF Dooming
  <2> DEFINE n == Len(doomed)
  <2>2. /\ n \in Nat /\ DOMAIN doomed = 1..n /\ DOMAIN doomed' = 1..(n + 1)
        /\ doomed'[n + 1] = x /\ \A i \in 1..n : doomed'[i] = doomed[i] /\ doomed[i] \in Gens
    BY <2>1
  <2> HIDE DEF n
  <2>3. \A i \in 1..n : gen[doomed[i]].phase = "dying" /\ doomed[i] # x
    BY <1>2, <2>2 DEF DoomedDie
  <2>4. \A i \in DOMAIN doomed' : i \in 1..n \/ i = n + 1
    BY <2>2
  <2>5. \A i \in DOMAIN doomed' : gen'[doomed'[i]].phase = "dying"
    BY <1>2, <2>2, <2>3, <2>4
  <2>6. \A i, j \in DOMAIN doomed' : doomed'[i] = doomed'[j] => i = j
    BY <2>2, <2>3, <2>4 DEF DoomedDie
  <2>7. ASSUME NEW g \in Gens, gen'[g].phase = "dying"
        PROVE  \E i \in DOMAIN doomed' : doomed'[i] = g
    <3>1. CASE g = x
      BY <2>2, <3>1
    <3>2. CASE g # x
      <4>1. PICK i \in DOMAIN doomed : doomed[i] = g
        BY <2>7, <3>2 DEF DoomedDie
      <4>2. i \in DOMAIN doomed' /\ doomed'[i] = g
        BY <2>2, <4>1
      <4> QED BY <4>2
    <3> QED BY <3>1, <3>2
  <2> QED BY <2>5, <2>6, <2>7 DEF DoomedDie
<1> QED BY <1>1, <1>2

\* A generation in use has been made.
LEMMA UsedMade ==
  ASSUME TypeOK, FreshUnused, NEW g \in Gens, gen[g].phase # "unused"
  PROVE  ~(g > made)
BY DEF FreshUnused, Unused

-----------------------------------------------------------------------------
(* The second invariant: the actions                                        *)

\* No reload starts while the wrapper is detached.
ReentersSafely == Reenter \cap {"reload", "finished", "posted"} = {}

LEMMA NotReloading ==
  ASSUME TypeOK, SInv, ReentersSafely, stack # <<>> => Top.at \in Reenter
  PROVE  ~Reloading
<1>1. SUFFICES ASSUME Reloading PROVE FALSE
  OBVIOUS
<1>2. stack # <<>> /\ Detached(Top)
  BY <1>1, DetachedTop DEF SInv, TypeOK
<1> QED BY <1>2 DEF ReentersSafely, Detached

LEMMA FailureS ==
  ASSUME TypeOK, SInv, ~Reloading, stack = <<>> \/ Top.acts > 0,
         NEW f \in Frames, f.at = "failed",
         stack' = IF cur = None THEN Acted ELSE <<f>> \o Acted,
         UNCHANGED <<gen, made, cur, doomed>>,
         app' # "ended", app' = "running" => app = "running"
  PROVE  SInv'
<1>1. stack \in Seq(Frames) /\ ~InLoad(f) /\ ~Detached(f)
  BY DEF TypeOK, InLoad, Detached
<1>2. /\ DetachedOnTop' /\ LoadsDiffer' /\ ~Reloading'
      /\ \A g \in Gens : (Loading(g)' <=> Loading(g)) /\ (Deleting(g) => Deleting(g)')
  <2>1. CASE cur = None
    BY <1>1, <2>1, ActedS DEF SInv
  <2>2. CASE cur # None
    BY <1>1, <2>2, PushS DEF SInv
  <2> QED BY <2>1, <2>2
<1>3. LossEnds' /\ EndIsEmpty'
  BY <1>2, LossS DEF SInv, EndIsEmpty
<1>4. DoomedDie'
  BY SameDoomed DEF SInv, TypeOK
<1> QED BY <1>2, <1>3, <1>4, KeepS

LEMMA CreatesS ==
  ASSUME TypeOK, PInv, SInv, ~Reloading, stack = <<>> \/ Top.acts > 0,
         NEW hard \in BOOLEAN, Creates(hard), app # "ended",
         app' # "ended", app' = "running" => app = "running"
  PROVE  SInv'
<1> DEFINE n == made + 1
           f == Frame("create", n, hard)
<1>1. made \in Nat /\ n \in Gens /\ made' = n /\ n > made
  BY ParameterTypes DEF Creates, TypeOK, Gens, ParameterTypes
<1>2. f \in Frames /\ f.at = "create" /\ f.g = n
  BY <1>1, FrameType DEF Points
<1>3. stack' = <<f>> \o Acted /\ stack \in Seq(Frames) /\ cur' = cur /\ doomed' = doomed
      /\ gen' = [gen EXCEPT ![n].phase = "new"]
  BY DEF Creates, TypeOK
<1> HIDE DEF f
<1> HIDE DEF n
<1>4. ~gen[n].wired /\ gen[n].phase = "unused"
  <2>1. gen[n] = Unused
    BY <1>1 DEF SInv, FreshUnused
  <2>2. ~Unused.wired /\ Unused.phase = "unused"
    BY DEF Unused
  <2> QED BY <2>1, <2>2
<1>5. /\ gen'[n].phase = "new" /\ ~gen'[n].wired
      /\ \A h \in Gens : (h # n => gen'[h] = gen[h]) /\ gen'[h].term = gen[h].term
  BY <1>1, <1>3, <1>4 DEF TypeOK, Generations
<1>6. n # cur
  BY <1>1, <1>4, ParameterTypes DEF PInv, CurIsAllocated, Allocated, ParameterTypes
<1>7. ~Loading(n)
  BY <1>4 DEF Loading, PInv, FramesOK, FrameOK
<1>8. InLoad(f) /\ ~Detached(f)
  BY <1>2 DEF InLoad, Detached
<1>9. /\ DetachedOnTop' /\ LoadsDiffer' /\ ~Reloading'
      /\ \A g \in Gens : /\ Loading(g)' <=> Loading(g) \/ g = n
                         /\ Deleting(g) => Deleting(g)'
  BY <1>2, <1>3, <1>6, <1>7, <1>8, PushS DEF SInv
<1>10. FreshUnused'
  <2>1. \A h \in Gens : h > n => h > made /\ h # n
    BY <1>1 DEF Gens, n
  <2> QED BY <1>1, <1>5, <2>1 DEF SInv, FreshUnused
<1>11. AliveIsKnown'
  BY <1>3, <1>5, <1>9 DEF SInv, AliveIsKnown
<1>12. WiredIsCur'
  BY <1>3, <1>5, <1>9 DEF SInv, WiredIsCur
<1>13. DoomedDie'
  <2>1. \A h \in Gens : gen'[h].phase = "dying" <=> gen[h].phase = "dying"
    BY <1>4, <1>5
  <2> QED BY <1>3, <2>1, SameDoomed DEF SInv, TypeOK
<1>14. DyingWished'
  BY <1>3, <1>5, <1>9 DEF SInv, DyingWished
<1>15. LossEnds'
  BY <1>3, <1>5, <1>9, LossS DEF SInv
<1>16. EndIsEmpty'
  BY DEF EndIsEmpty
<1> QED BY <1>9, <1>10, <1>11, <1>12, <1>13, <1>14, <1>15, <1>16 DEF SInv

LEMMA ReloadGraphS ==
  ASSUME TypeOK, PInv, SInv, ~Reloading, stack = <<>> \/ Top.acts > 0,
         NEW hard \in BOOLEAN, ReloadGraph(hard), app # "ended",
         app' # "ended", app' = "running" => app = "running"
  PROVE  SInv'
<1>1. CASE ScanFails
  BY <1>1, FailingType, FailureS DEF ScanFails
<1>2. CASE CompileFails
  BY <1>2, FailingType, FailureS DEF CompileFails
<1>3. CASE Creates(hard)
  BY <1>3, CreatesS
<1> QED BY <1>1, <1>2, <1>3 DEF ReloadGraph

LEMMA QmlReloadS ==
  ASSUME TypeOK, PInv, SInv, ReentersSafely, NEW hard \in BOOLEAN, QmlReload(hard)
  PROVE  SInv'
<1>1. app # "ended" /\ app' = app /\ (stack = <<>> \/ Top.acts > 0) /\ ReloadGraph(hard)
  BY DEF QmlReload, QmlRuns, PInv, Quiet
<1>2. ~Reloading
  BY NotReloading DEF QmlReload
<1> QED BY <1>1, <1>2, ReloadGraphS

LEMMA QmlExitS ==
  ASSUME TypeOK, PInv, SInv, NEW g \in Gens, NEW code \in Codes \cup {gen[g].code},
         QmlExit(g, code)
  PROVE  SInv'
<1>0. code \in Codes \cup {0}
  BY DEF TypeOK, Generations
<1>1. \A h \in Gens : /\ gen'[h].wired = gen[h].wired
                      /\ gen'[h].phase = IF h = g /\ gen[h].phase = "new"
                                         THEN "dying" ELSE gen[h].phase
                      /\ gen'[h].term = (h = g \/ gen[h].term)
                      /\ h # g => gen'[h] = gen[h]
  BY <1>0, TerminateGens DEF QmlExit, Terminate
<1>2. /\ stack' = Acted /\ (stack = <<>> \/ Top.acts > 0) /\ stack \in Seq(Frames)
      /\ UNCHANGED <<made, cur, app>> /\ doomed' = Dooming(gen, g) /\ app # "ended"
      /\ gen[g].phase # "unused"
  BY DEF QmlExit, QmlRuns, Terminate, Allocated, TypeOK, PInv, Quiet
<1>3. /\ DetachedOnTop' /\ LoadsDiffer' /\ (Reloading' <=> Reloading)
      /\ \A h \in Gens : (Loading(h)' <=> Loading(h)) /\ (Deleting(h)' <=> Deleting(h))
  BY <1>2, ActedS DEF SInv
<1>4. DoomedDie'
  BY <1>1, <1>2, DoomS DEF SInv, TypeOK
<1>5. LossEnds' /\ EndIsEmpty'
  BY <1>1, <1>2, <1>3, LossS DEF SInv, EndIsEmpty
<1>6. \A h \in Gens : h > made => h # g
  BY <1>2, UsedMade DEF SInv
<1> QED BY <1>1, <1>2, <1>3, <1>4, <1>5, <1>6, KeepS

LEMMA CreateS ==
  ASSUME TypeOK, PInv, SInv, NEW o \in Objs, NEW kind, NEW g \in Gens, Create(o, kind, g)
  PROVE  SInv'
<1>1. /\ stack' = Acted /\ (stack = <<>> \/ Top.acts > 0) /\ stack \in Seq(Frames)
      /\ UNCHANGED <<gen, made, cur, doomed, app>> /\ app # "ended"
  BY DEF Create, QmlRuns, TypeOK, PInv, Quiet
<1>2. /\ DetachedOnTop' /\ LoadsDiffer' /\ (Reloading' <=> Reloading)
      /\ \A h \in Gens : (Loading(h)' <=> Loading(h)) /\ (Deleting(h)' <=> Deleting(h))
  BY <1>1, ActedS DEF SInv
<1>3. DoomedDie'
  BY <1>1, SameDoomed DEF SInv, TypeOK
<1>4. LossEnds' /\ EndIsEmpty'
  BY <1>1, <1>2, LossS DEF SInv, EndIsEmpty
<1> QED BY <1>1, <1>2, <1>3, <1>4, KeepS

\* The stack and the generations stay as they are.
LEMMA StillS ==
  ASSUME SInv, UNCHANGED <<gen, made, cur, doomed, stack>>,
         app' = app \/ app' \in {"loading", "exiting", "killed"}
  PROVE  SInv'
<1>1. DetachedOnTop' /\ LoadsDiffer' /\ FreshUnused' /\ AliveIsKnown'
  BY DEF SInv, DetachedOnTop, LoadsDiffer, FreshUnused, AliveIsKnown, Loading
<1>2. WiredIsCur' /\ DoomedDie' /\ DyingWished'
  BY DEF SInv, WiredIsCur, DoomedDie, DyingWished, Loading, Reloading
<1>3. LossEnds' /\ EndIsEmpty'
  BY DEF SInv, LossEnds, EndIsEmpty, Deleting
<1> QED BY <1>1, <1>2, <1>3 DEF SInv

LEMMA TimerFiresS ==
  ASSUME SInv, NEW o \in Objs, TimerFires(o)
  PROVE  SInv'
BY StillS DEF TimerFires

LEMMA IpcKillS ==
  ASSUME TypeOK, SInv, IpcKill
  PROVE  SInv'
<1>1. CASE Cardinality(Registered) = 1
  <2>1. PICK g \in Registered : gen' = Destroyed([gen EXCEPT ![g].term = TRUE], g)
                                 /\ doomed' = Dooming(gen, g)
    BY <1>1 DEF IpcKill
  <2>2. g \in Gens /\ gen[g].code \in Codes \cup {0} /\ gen[g].phase # "unused"
    BY <2>1 DEF Registered, Allocated, TypeOK, Generations
  <2>3. [gen EXCEPT ![g].term = TRUE] = [gen EXCEPT ![g].term = TRUE, ![g].code = gen[g].code]
    BY <2>2 DEF TypeOK, Generations
  <2>4. \A h \in Gens : /\ gen'[h].wired = gen[h].wired
                        /\ gen'[h].phase = IF h = g /\ gen[h].phase = "new"
                                           THEN "dying" ELSE gen[h].phase
                        /\ gen'[h].term = (h = g \/ gen[h].term)
                        /\ h # g => gen'[h] = gen[h]
    BY <2>1, <2>2, <2>3, TerminateGens
  <2>5. UNCHANGED <<made, cur, stack, app>> /\ app # "ended"
    BY <1>1 DEF IpcKill
  <2>6. /\ DetachedOnTop' /\ LoadsDiffer' /\ (Reloading' <=> Reloading)
        /\ \A h \in Gens : (Loading(h)' <=> Loading(h)) /\ (Deleting(h)' <=> Deleting(h))
    BY <2>5 DEF SInv, DetachedOnTop, LoadsDiffer, Reloading, Loading, Deleting
  <2>7. DoomedDie'
    BY <2>1, <2>2, <2>4, DoomS DEF SInv, TypeOK
  <2>8. LossEnds' /\ EndIsEmpty'
    BY <2>4, <2>5, <2>6, LossS DEF SInv, EndIsEmpty
  <2>9. \A h \in Gens : h > made => h # g
    BY <2>2, UsedMade DEF SInv
  <2> QED BY <2>4, <2>5, <2>6, <2>7, <2>8, <2>9, KeepS
<1>2. CASE Cardinality(Registered) # 1
  BY <1>2, StillS DEF IpcKill
<1> QED BY <1>1, <1>2

LEMMA EnterReloadS ==
  ASSUME TypeOK, PInv, SInv, EnterReload
  PROVE  SInv'
<1> DEFINE g == Top.g
           old == IF Top.hard THEN None ELSE cur
           f == [Frame("reload", g, Top.hard) EXCEPT !.old = old, !.isReload = (cur # None)]
<1>1. /\ stack \in Seq(Frames) /\ stack # <<>> /\ Top \in Frames /\ Top.at = "create"
      /\ FrameOK(gen, Top) /\ app # "ended"
  BY TopOK DEF EnterReload
<1>2. g \in Gens /\ gen[g].phase \in {"new", "dying"} /\ Top.hard \in BOOLEAN
  BY <1>1 DEF FrameOK, InLoad, Frames
<1>3. f \in Frames /\ f.at = "reload" /\ f.g = g /\ f.hard = Top.hard /\ f.old = old
  <2>1. Frame("reload", g, Top.hard) \in Frames /\ Frame("reload", g, Top.hard).at = "reload"
        /\ Frame("reload", g, Top.hard).g = g /\ Frame("reload", g, Top.hard).hard = Top.hard
    BY <1>2, FrameType DEF Points
  <2>2. old \in Gens \cup {None}
    BY DEF TypeOK
  <2> QED BY <2>1, <2>2 DEF Frames
<1>4. gen' = Linked(LetGo(gen, cur), g) /\ Goto(f) /\ UNCHANGED <<made, cur, doomed, app>>
  BY DEF EnterReload
<1> HIDE DEF f
<1>5. \A h \in Gens : /\ gen'[h].phase = gen[h].phase /\ gen'[h].term = gen[h].term
                      /\ gen'[h].wired => h # cur /\ gen[h].wired
                      /\ h # g /\ h # cur => gen'[h] = gen[h]
  <2>1. gen \in [Gens -> Generations] /\ cur \in Gens \cup {None}
    BY DEF TypeOK
  <2> QED BY <1>2, <1>4, <2>1, EnterGens
<1>6. ~Reloading
  BY <1>1, DetachedTop DEF SInv, Detached
<1>7. InLoad(Top) /\ InLoad(f) /\ Detached(f) /\ f.at # "posted"
  BY <1>1, <1>3 DEF InLoad, Detached
<1>8. f.old = (IF f.hard THEN None ELSE cur) /\ f.g = Top.g
  BY <1>3
<1>9. /\ DetachedOnTop' /\ LoadsDiffer'
      /\ \A h \in Gens : (Loading(h)' <=> Loading(h)) /\ (Deleting(h)' <=> Deleting(h))
  BY <1>1, <1>3, <1>4, <1>6, <1>7, <1>8, GoOnS DEF SInv
<1>10. DoomedDie'
  BY <1>4, <1>5, SameDoomed DEF SInv, TypeOK
<1>11. LossEnds' /\ EndIsEmpty'
  BY <1>1, <1>4, <1>5, <1>9, LossS DEF SInv, EndIsEmpty
<1>12. \A h \in Gens : h > made => h # g /\ h # cur
  <2>1. cur # None => cur \in Gens /\ gen[cur].phase # "unused"
    BY <1>1 DEF PInv, CurIsAllocated, Allocated, TypeOK
  <2>2. \A h \in Gens : h # None
    BY ParameterTypes DEF ParameterTypes
  <2> QED BY <1>2, <2>1, <2>2, UsedMade DEF SInv
<1>13. SInv'
  BY <1>4, <1>5, <1>9, <1>10, <1>11, <1>12, KeepS
<1> QED BY <1>13

LEMMA FinishReloadS ==
  ASSUME TypeOK, PInv, SInv, FinishReload
  PROVE  SInv'
<1> DEFINE g == Top.g
           f == [Top EXCEPT !.at = "finished", !.acts = MaxActs]
<1>1. /\ stack \in Seq(Frames) /\ stack # <<>> /\ Top \in Frames /\ Top.at = "reload"
      /\ FrameOK(gen, Top) /\ app # "ended" /\ Top = stack[1] /\ 1 \in DOMAIN stack
  BY TopOK DEF FinishReload
<1>2. g \in Gens /\ gen[g].phase \in {"new", "dying"}
  BY <1>1 DEF FrameOK, InLoad
<1>3. f \in Frames /\ f.at = "finished" /\ f.g = g /\ f.hard = Top.hard /\ f.old = Top.old
  <2>1. MaxActs \in 0..MaxActs
    BY ParameterTypes DEF ParameterTypes
  <2> QED BY <1>1, <2>1 DEF Frames, Points
<1>4. gen' = [gen EXCEPT ![g].complete = TRUE] /\ Goto(f) /\ UNCHANGED <<made, cur, doomed, app>>
  BY DEF FinishReload
<1> HIDE DEF f
<1>5. \A h \in Gens : /\ gen'[h].phase = gen[h].phase /\ gen'[h].term = gen[h].term
                      /\ gen'[h].wired = gen[h].wired
                      /\ h # g => gen'[h] = gen[h]
  BY <1>2, <1>4 DEF TypeOK, Generations
<1>6. InLoad(Top) /\ Detached(Top) /\ InLoad(f) /\ Detached(f) /\ f.at # "posted"
  BY <1>1, <1>3 DEF InLoad, Detached
<1>7. f.old = (IF f.hard THEN None ELSE cur) /\ Reloading
  BY <1>1, <1>3, <1>6 DEF SInv, DetachedOnTop, Reloading
<1>8. /\ DetachedOnTop' /\ LoadsDiffer'
      /\ \A h \in Gens : (Loading(h)' <=> Loading(h)) /\ (Deleting(h)' <=> Deleting(h))
  BY <1>1, <1>3, <1>4, <1>6, <1>7, GoOnS DEF SInv
<1>9. DoomedDie'
  BY <1>4, <1>5, SameDoomed DEF SInv, TypeOK
<1>10. LossEnds' /\ EndIsEmpty'
  BY <1>1, <1>4, <1>5, <1>8, LossS DEF SInv, EndIsEmpty
<1>11. \A h \in Gens : h > made => h # g
  BY <1>2, UsedMade DEF SInv
<1> QED BY <1>4, <1>5, <1>7, <1>8, <1>9, <1>10, <1>11, KeepS

LEMMA HardPostedS ==
  ASSUME TypeOK, PInv, SInv, HardPosted
  PROVE  SInv'
<1> DEFINE f == [Top EXCEPT !.at = "posted", !.acts = MaxActs]
<1>1. /\ stack \in Seq(Frames) /\ stack # <<>> /\ Top \in Frames /\ Top.at = "finished"
      /\ app # "ended" /\ Top = stack[1] /\ 1 \in DOMAIN stack
  BY TopOK DEF HardPosted
<1>2. f \in Frames /\ f.at = "posted" /\ f.g = Top.g /\ f.hard = Top.hard /\ f.old = Top.old
  <2>1. MaxActs \in 0..MaxActs
    BY ParameterTypes DEF ParameterTypes
  <2> QED BY <1>1, <2>1 DEF Frames, Points
<1>3. Goto(f) /\ UNCHANGED <<gen, made, cur, doomed, app>> /\ Top.old = None
  BY DEF HardPosted
<1> HIDE DEF f
<1>4. InLoad(Top) /\ Detached(Top) /\ InLoad(f) /\ Detached(f)
  BY <1>1, <1>2 DEF InLoad, Detached
<1>5. f.old = (IF f.hard THEN None ELSE cur) /\ Reloading
  BY <1>1, <1>2, <1>4 DEF SInv, DetachedOnTop, Reloading
<1>6. /\ DetachedOnTop' /\ LoadsDiffer'
      /\ \A h \in Gens : (Loading(h)' <=> Loading(h)) /\ (Deleting(h)' <=> Deleting(h))
  BY <1>1, <1>2, <1>3, <1>4, <1>5, GoOnS DEF SInv
<1>7. DoomedDie'
  BY <1>3, SameDoomed DEF SInv, TypeOK
<1>8. LossEnds' /\ EndIsEmpty'
  BY <1>1, <1>3, <1>6, LossS DEF SInv, EndIsEmpty
<1> QED BY <1>3, <1>5, <1>6, <1>7, <1>8, KeepS

\* A reload ends: the generation the wrapper had goes, the new one comes.
LEMMA AdoptS ==
  ASSUME TypeOK, PInv, SInv, NEW p, At(p), p \in {"finished", "posted"},
         NEW gs \in [Gens -> Generations],
         \A h \in Gens : /\ gs[h].wired = gen[h].wired /\ gs[h].term = gen[h].term
                         /\ gs[h].phase = IF h = cur /\ gen[h].phase = "new"
                                          THEN "dying" ELSE gen[h].phase
                         /\ h # cur /\ h # Top.g => gs[h] = gen[h],
         doomed' = IF cur # None THEN Dooming(gen, cur) ELSE doomed,
         gen' = Adopted(gs, Top.g), cur' = Top.g, Completed(Top), UNCHANGED <<made, app>>
  PROVE  SInv'
<1> DEFINE g == Top.g
           f == [Top EXCEPT !.at = "completed", !.acts = MaxActs]
<1>1. /\ stack \in Seq(Frames) /\ stack # <<>> /\ Top \in Frames /\ Top.at = p
      /\ FrameOK(gen, Top) /\ app # "ended" /\ Top = stack[1] /\ 1 \in DOMAIN stack
  BY TopOK
<1>2. InLoad(Top) /\ Detached(Top) /\ g \in Gens /\ gen[g].phase \in {"new", "dying"}
  BY <1>1 DEF InLoad, Detached, FrameOK
<1>3. f \in Frames /\ ~InLoad(f)
  <2>1. MaxActs \in 0..MaxActs
    BY ParameterTypes DEF ParameterTypes
  <2> QED BY <1>1, <2>1 DEF Frames, Points, InLoad
<1>4. Goto(f) \/ Return
  BY DEF Completed
<1> HIDE DEF f
<1>5. /\ DetachedOnTop' /\ LoadsDiffer' /\ ~Reloading'
      /\ \A h \in Gens : Loading(h)' <=> Loading(h) /\ h # g
  BY <1>1, <1>2, <1>3, <1>4, LeaveS DEF SInv
<1>6. \A h \in Gens : /\ gen'[h].wired = (h = g \/ gs[h].wired)
                      /\ gen'[h].term = gs[h].term /\ gen'[h].phase = gs[h].phase
                      /\ h # g => gen'[h] = gs[h]
  BY <1>2, AdoptedGens
<1>7. Reloading /\ g # cur /\ \A h \in Gens : Loading(h) => h # cur
  BY <1>1, <1>2 DEF Reloading, SInv, LoadsDiffer, Loading
<1>8. Loading(g)
  BY <1>1, <1>2 DEF Loading
<1>9. FreshUnused'
  <2>1. cur # None => cur \in Gens /\ gen[cur].phase # "unused"
    BY <1>1 DEF PInv, CurIsAllocated, Allocated, TypeOK
  <2>2. \A h \in Gens : h > made => h # g /\ h # cur
    BY <1>2, <2>1, UsedMade, ParameterTypes DEF SInv, ParameterTypes
  <2> QED BY <1>6, <2>2 DEF SInv, FreshUnused
<1>10. AliveIsKnown'
  BY <1>5, <1>6 DEF SInv, AliveIsKnown
<1>11. WiredIsCur'
  <2> SUFFICES ASSUME NEW h \in Gens, gen'[h].wired
               PROVE  gen'[h].phase = "gone" \/ (h = cur' /\ ~Reloading')
    BY DEF WiredIsCur
  <2>1. CASE h = g
    BY <1>5, <2>1
  <2>2. CASE h # g
    <3>1. gen[h].wired
      BY <1>6, <2>2
    <3>2. gen[h].phase = "gone"
      BY <1>7, <3>1 DEF SInv, WiredIsCur
    <3> QED BY <1>6, <3>2
  <2> QED BY <2>1, <2>2
<1>12. DoomedDie'
  <2>1. \A h \in Gens : gen'[h].phase = IF h = cur /\ gen[h].phase = "new"
                                        THEN "dying" ELSE gen[h].phase
    BY <1>6
  <2>2. CASE cur # None
    <3>1. cur \in Gens
      BY <2>2 DEF TypeOK
    <3> QED BY <2>1, <2>2, <3>1, DoomS DEF SInv, TypeOK
  <2>3. CASE cur = None
    <3>1. \A h \in Gens : gen'[h].phase = gen[h].phase
      BY <2>1, <2>3, ParameterTypes DEF ParameterTypes
    <3> QED BY <2>3, <3>1, SameDoomed DEF SInv, TypeOK
  <2> QED BY <2>2, <2>3
<1>13. DyingWished'
  <2> SUFFICES ASSUME NEW h \in Gens, gen'[h].phase = "dying", h = cur' \/ Loading(h)'
               PROVE  gen'[h].term
    BY DEF DyingWished
  <2>1. Loading(h) /\ h # cur
    BY <1>5, <1>7, <1>8
  <2>2. gen[h].phase = "dying"
    BY <1>6, <2>1
  <2>3. gen[h].term
    BY <2>1, <2>2 DEF SInv, DyingWished
  <2> QED BY <1>6, <2>3
<1>14. LossEnds' /\ EndIsEmpty'
  BY <1>1, <1>2, ParameterTypes DEF LossEnds, EndIsEmpty, ParameterTypes
<1> QED BY <1>5, <1>9, <1>10, <1>11, <1>12, <1>13, <1>14 DEF SInv

LEMMA SoftReloadedS ==
  ASSUME TypeOK, PInv, SInv, SoftReloaded
  PROVE  SInv'
<1> DEFINE g == Top.g
           ga == [gen EXCEPT ![g].after = Top.old]
           gs == Destroyed(ga, Top.old)
<1>1. /\ At("finished") /\ Top \in Frames /\ Top.at = "finished" /\ FrameOK(gen, Top)
      /\ Top = stack[1] /\ 1 \in DOMAIN stack
  BY TopOK DEF SoftReloaded
<1>2. g \in Gens /\ Top.old # None
  BY <1>1 DEF SoftReloaded, InLoad, FrameOK
<1>3. Top.old = cur /\ cur \in Gens
  BY <1>1, <1>2 DEF SInv, DetachedOnTop, Detached, TypeOK
<1>4. /\ ga \in [Gens -> Generations]
      /\ \A h \in Gens : /\ ga[h].phase = gen[h].phase /\ ga[h].wired = gen[h].wired
                         /\ ga[h].term = gen[h].term /\ (h # g => ga[h] = gen[h])
  BY <1>2, <1>3, AfterGens DEF TypeOK
<1> HIDE DEF ga
<1>5. /\ gs \in [Gens -> Generations]
      /\ \A h \in Gens : /\ gs[h].wired = ga[h].wired /\ gs[h].term = ga[h].term
                         /\ gs[h].phase = IF h = cur /\ ga[h].phase = "new"
                                          THEN "dying" ELSE ga[h].phase
                         /\ h # cur => gs[h] = ga[h]
  BY <1>3, <1>4, DestroyedGens
<1>6. /\ gen' = Adopted(gs, g) /\ cur' = g /\ Completed(Top) /\ UNCHANGED <<made, app>>
      /\ doomed' = Dooming(gen, cur)
  BY <1>3 DEF SoftReloaded, ga
<1> HIDE DEF gs
<1> QED BY <1>1, <1>2, <1>3, <1>4, <1>5, <1>6, AdoptS

LEMMA HardReloadedS ==
  ASSUME TypeOK, PInv, SInv, HardReloaded
  PROVE  SInv'
<1> DEFINE gs == IF cur # None THEN Destroyed(gen, cur) ELSE gen
<1>1. At("posted") /\ Top.at = "posted" /\ Top = stack[1] /\ 1 \in DOMAIN stack
  BY TopOK DEF HardReloaded
<1>2. Top.hard \/ cur = None
  BY <1>1 DEF SInv, DetachedOnTop, Detached
<1>3. gen \in [Gens -> Generations] /\ cur \in Gens \cup {None}
  BY DEF TypeOK
<1>4. /\ gs \in [Gens -> Generations]
      /\ \A h \in Gens : /\ gs[h].wired = gen[h].wired /\ gs[h].term = gen[h].term
                         /\ gs[h].phase = IF h = cur /\ gen[h].phase = "new"
                                          THEN "dying" ELSE gen[h].phase
                         /\ h # cur => gs[h] = gen[h]
  <2>1. CASE cur # None
    BY <1>3, <2>1, DestroyedGens
  <2>2. CASE cur = None
    BY <1>3, <2>2, ParameterTypes DEF ParameterTypes
  <2> QED BY <2>1, <2>2
<1>5. /\ gen' = Adopted(gs, Top.g) /\ cur' = Top.g /\ Completed(Top) /\ UNCHANGED <<made, app>>
      /\ doomed' = IF cur # None THEN Dooming(gen, cur) ELSE doomed
  BY <1>2 DEF HardReloaded
<1> HIDE DEF gs
<1> QED BY <1>1, <1>4, <1>5, AdoptS

\* A call that loads nothing returns, or goes on as another such.
LEMMA LeavingS ==
  ASSUME TypeOK, PInv, SInv, NEW p, At(p), p \in {"completed", "failed", "deleted"},
         NEW f \in Frames, ~InLoad(f), Goto(f) \/ Return,
         UNCHANGED <<gen, made, cur, doomed>>,
         p = "deleted" /\ gen[Top.g].term => app' = "exiting",
         app' = app \/ app' = "exiting"
  PROVE  SInv'
<1>1. stack \in Seq(Frames) /\ stack # <<>> /\ Top \in Frames /\ Top.at = p /\ app # "ended"
  BY TopOK
<1>2. ~InLoad(Top)
  BY <1>1 DEF InLoad
<1>3. /\ DetachedOnTop' /\ LoadsDiffer' /\ ~Reloading'
      /\ \A g \in Gens : /\ Loading(g)' <=> Loading(g)
                         /\ Deleting(g) => Deleting(g)' \/ (Top.at = "deleted" /\ Top.g = g)
  BY <1>1, <1>2, LeaveS DEF SInv
<1>4. LossEnds'
  BY <1>1, <1>3 DEF SInv, LossEnds
<1>5. DoomedDie' /\ EndIsEmpty'
  BY <1>1, SameDoomed DEF SInv, TypeOK, EndIsEmpty
<1> QED BY <1>3, <1>4, <1>5, KeepS

LEMMA ReturningS ==
  ASSUME TypeOK, PInv, SInv, NEW p, At(p), p \in {"completed", "failed", "deleted"}, Return,
         UNCHANGED <<gen, made, cur, doomed>>,
         p = "deleted" /\ gen[Top.g].term => app' = "exiting",
         app' = app \/ app' = "exiting"
  PROVE  SInv'
<1>1. Top \in Frames /\ Top.at = p
  BY TopOK
<1>2. ~InLoad(Top)
  BY <1>1 DEF InLoad
<1> QED BY <1>1, <1>2, LeavingS

LEMMA ReturnsS ==
  ASSUME TypeOK, PInv, SInv, Returns
  PROVE  SInv'
BY ReturningS DEF Returns

LEMMA DeletedS ==
  ASSUME TypeOK, PInv, SInv, Deleted
  PROVE  SInv'
<1>1. /\ At("deleted") /\ Return /\ UNCHANGED <<gen, made, cur, doomed>>
      /\ gen[Top.g].term => app' = "exiting"
      /\ app' = app \/ app' = "exiting"
  BY DEF Deleted
<1> QED BY <1>1, ReturningS

LEMMA FailedAgainS ==
  ASSUME TypeOK, PInv, SInv, FailedAgain
  PROVE  SInv'
<1>1. /\ stack \in Seq(Frames) /\ Top \in Frames /\ Top.at = "failed" /\ At("failed")
      /\ FrameOK(gen, Top)
  BY TopOK DEF FailedAgain
<1>2. CASE cur = None
  BY <1>1, <1>2, ReturningS DEF FailedAgain
<1>3. CASE cur # None
  <2> DEFINE f == [Top EXCEPT !.left = @ - 1, !.acts = MaxActs]
  <2>1. f \in Frames /\ ~InLoad(f)
    <3>1. MaxActs \in 0..MaxActs
      BY ParameterTypes DEF ParameterTypes
    <3>2. Top.left \in 0..1 /\ Top.left > 0
      BY <1>1 DEF FailedAgain, Frames, FrameOK
    <3>3. Top.left - 1 \in 0..1
      BY <3>2
    <3> QED BY <1>1, <3>1, <3>3 DEF Frames, InLoad
  <2>2. Goto(f) /\ UNCHANGED <<gen, made, cur, doomed, app>>
    BY <1>3 DEF FailedAgain
  <2> HIDE DEF f
  <2> QED BY <1>1, <2>1, <2>2, LeavingS
<1> QED BY <1>2, <1>3

LEMMA DeleteRootS ==
  ASSUME TypeOK, PInv, SInv, DeleteRoot
  PROVE  SInv'
<1> DEFINE n == Len(doomed)
<1>1. doomed \in Seq(Gens) /\ doomed # <<>> /\ stack = <<>> /\ app # "ended" /\ DOMAIN stack = {}
  BY DEF DeleteRoot, TypeOK
<1>2. n \in Nat /\ n >= 1 /\ DOMAIN doomed = 1..n
  <2>1. n \in Nat \ {0}
    BY <1>1, EmptySeq
  <2> QED BY <1>1, <2>1
<1>0. PICK g \in Gens : g = Head(doomed)
  BY <1>1, HeadTailProperties
<1> DEFINE f == Frame("deleted", g, FALSE)
<1>3. /\ g = doomed[1] /\ Tail(doomed) \in Seq(Gens)
      /\ DOMAIN Tail(doomed) = 1..(n - 1)
      /\ \A i \in 1..(n - 1) : Tail(doomed)[i] = doomed[i + 1]
  BY <1>0, <1>1, <1>2, HeadTailProperties
<1>4. f \in Frames /\ f.at = "deleted" /\ f.g = g
  BY <1>3, FrameType DEF Points
<1>5. /\ gen' = [gen EXCEPT ![g].phase = "gone"] /\ cur' = IF gen[g].wired THEN None ELSE cur
      /\ stack' = <<f>> /\ doomed' = Tail(doomed) /\ UNCHANGED <<made, app>>
  BY <1>0 DEF DeleteRoot
<1> HIDE DEF f, n
<1>6. gen[g].phase = "dying"
  BY <1>2, <1>3 DEF SInv, DoomedDie
<1>7. /\ gen'[g].phase = "gone" /\ gen'[g].term = gen[g].term
      /\ \A h \in Gens : h # g => gen'[h] = gen[h]
  BY <1>3, <1>5 DEF TypeOK, Generations
<1>8. DOMAIN stack' = {1} /\ stack'[1] = f /\ ~InLoad(f) /\ ~Detached(f)
  BY <1>4, <1>5 DEF InLoad, Detached
<1>9. DetachedOnTop' /\ LoadsDiffer' /\ ~Reloading' /\ Deleting(g)'
      /\ \A h \in Gens : ~Loading(h)' /\ ~Loading(h) /\ ~Deleting(h)
  <2>1. DetachedOnTop' /\ LoadsDiffer' /\ ~Reloading'
    BY <1>8 DEF DetachedOnTop, LoadsDiffer, Reloading
  <2>2. Deleting(g)'
    BY <1>4, <1>8 DEF Deleting
  <2>3. \A h \in Gens : ~Loading(h)' /\ ~Loading(h) /\ ~Deleting(h)
    BY <1>1, <1>8 DEF Loading, Deleting
  <2> QED BY <2>1, <2>2, <2>3
<1>10. gen[g].wired => g = cur
  BY <1>3, <1>6 DEF SInv, WiredIsCur
<1>11. FreshUnused'
  <2>1. \A h \in Gens : h > made => h # g
    BY <1>3, <1>6, UsedMade DEF SInv
  <2> QED BY <1>5, <1>7, <2>1 DEF SInv, FreshUnused
<1>12. AliveIsKnown'
  BY <1>5, <1>7, <1>9, <1>10 DEF SInv, AliveIsKnown
<1>13. WiredIsCur'
  BY <1>5, <1>7, <1>9, <1>10 DEF SInv, WiredIsCur
<1>14. DoomedDie'
  <2>1. ASSUME NEW i \in DOMAIN doomed'
        PROVE  i + 1 \in DOMAIN doomed /\ doomed'[i] = doomed[i + 1] /\ doomed[i + 1] # g
               /\ doomed[i + 1] \in Gens
    <3>1. i \in 1..(n - 1)
      BY <1>3, <1>5
    <3>2. i + 1 \in DOMAIN doomed /\ i + 1 # 1 /\ 1 \in DOMAIN doomed
      BY <1>2, <3>1
    <3> QED BY <1>1, <1>3, <1>5, <3>1, <3>2 DEF SInv, DoomedDie
  <2>2. \A i \in DOMAIN doomed' : gen'[doomed'[i]].phase = "dying"
    BY <1>7, <2>1 DEF SInv, DoomedDie
  <2>3. ASSUME NEW i \in DOMAIN doomed', NEW j \in DOMAIN doomed', doomed'[i] = doomed'[j]
        PROVE  i = j
    <3>1. i + 1 = j + 1
      BY <2>1, <2>3 DEF SInv, DoomedDie
    <3> QED BY <1>3, <1>5, <3>1
  <2>4. ASSUME NEW h \in Gens, gen'[h].phase = "dying" PROVE \E i \in DOMAIN doomed' : doomed'[i] = h
    <3>1. h # g /\ gen[h].phase = "dying"
      BY <1>7, <2>4
    <3>2. PICK k \in DOMAIN doomed : doomed[k] = h
      BY <3>1 DEF SInv, DoomedDie
    <3>3. k # 1
      BY <1>3, <3>1, <3>2
    <3>4. k - 1 \in 1..(n - 1) /\ (k - 1) + 1 = k
      BY <1>2, <3>3
    <3>5. k - 1 \in DOMAIN doomed' /\ doomed'[k - 1] = h
      BY <1>3, <1>5, <3>2, <3>4
    <3> QED BY <3>5
  <2> QED BY <2>2, <2>3, <2>4 DEF DoomedDie
<1>15. DyingWished'
  BY <1>5, <1>7, <1>9, ParameterTypes DEF SInv, DyingWished, ParameterTypes
<1>16. LossEnds'
  <2> SUFFICES ASSUME app' = "running", cur' = None PROVE Deleting(g)' /\ gen'[g].term
    BY <1>3 DEF LossEnds
  <2>1. gen[g].wired
    BY <1>5, <1>9 DEF SInv, LossEnds
  <2>2. gen[g].term
    BY <1>3, <1>6, <1>10, <2>1 DEF SInv, DyingWished
  <2> QED BY <1>7, <1>9, <2>2
<1>17. EndIsEmpty'
  BY <1>1, <1>5 DEF EndIsEmpty
<1> QED BY <1>9, <1>11, <1>12, <1>13, <1>14, <1>15, <1>16, <1>17 DEF SInv

LEMMA ConstructS ==
  ASSUME TypeOK, PInv, SInv, Construct
  PROVE  SInv'
<1>1. stack = <<>> /\ app # "ended" /\ app' = "loading" /\ ~Reloading
  BY DEF PInv, Quiet, Construct, Reloading
<1> QED BY <1>1, ReloadGraphS DEF Construct

LEMMA ConstructedS ==
  ASSUME TypeOK, PInv, SInv, Constructed
  PROVE  SInv'
<1>1. /\ UNCHANGED <<gen, made, cur, doomed, stack>> /\ stack = <<>> /\ DOMAIN stack = {}
      /\ IF cur = None THEN app' = "ended" ELSE app' = "running"
  BY DEF Constructed
<1>2. DetachedOnTop' /\ LoadsDiffer' /\ FreshUnused' /\ AliveIsKnown'
  BY <1>1 DEF SInv, DetachedOnTop, LoadsDiffer, FreshUnused, AliveIsKnown, Loading
<1>3. WiredIsCur' /\ DoomedDie' /\ DyingWished' /\ LossEnds'
  BY <1>1 DEF SInv, WiredIsCur, DoomedDie, DyingWished, Loading, Reloading, LossEnds
<1>4. EndIsEmpty'
  BY <1>1, ParameterTypes DEF SInv, EndIsEmpty, AliveIsKnown, Loading, ParameterTypes
<1> QED BY <1>2, <1>3, <1>4 DEF SInv

LEMMA ShutdownS ==
  ASSUME TypeOK, PInv, SInv, Shutdown
  PROVE  SInv'
<1>1. /\ stack = <<>> /\ DOMAIN stack = {} /\ app # "ended" /\ app' = "ended"
      /\ UNCHANGED <<made, cur, doomed, stack>>
  BY DEF Shutdown
<1>2. \A h \in Gens : gen[h].phase = "new" => h = cur
  BY <1>1 DEF SInv, AliveIsKnown, Loading
<1>3. \A h \in Gens : h # None
  BY ParameterTypes DEF ParameterTypes
<1>4. \A h \in Gens : /\ gen'[h].wired = gen[h].wired /\ gen'[h].term = gen[h].term
                      /\ gen'[h].phase = IF gen[h].phase = "new" THEN "gone" ELSE gen[h].phase
                      /\ gen[h].phase # "new" => gen'[h] = gen[h]
  BY <1>2, <1>3 DEF Shutdown, TypeOK, Generations
<1>5. DetachedOnTop' /\ LoadsDiffer' /\ ~Reloading' /\ ~Reloading
      /\ \A h \in Gens : ~Loading(h)' /\ ~Loading(h)
  BY <1>1 DEF DetachedOnTop, LoadsDiffer, Reloading, Loading
<1>6. FreshUnused'
  BY <1>1, <1>4, UsedMade DEF SInv, FreshUnused
<1>7. AliveIsKnown' /\ EndIsEmpty' /\ WiredIsCur' /\ DyingWished' /\ LossEnds'
  BY <1>1, <1>4, <1>5 DEF SInv, AliveIsKnown, EndIsEmpty, WiredIsCur, DyingWished, LossEnds
<1>8. DoomedDie'
  BY <1>1, <1>4, SameDoomed DEF SInv, TypeOK
<1> QED BY <1>5, <1>6, <1>7, <1>8 DEF SInv

-----------------------------------------------------------------------------
(* One configuration at rest                                                *)

LEMMA SInvHolds ==
  ASSUME ReentersSafely
  PROVE  Spec => [](TypeOK /\ PInv /\ SInv)
<1>1. Init => SInv
  <2> SUFFICES ASSUME Init PROVE SInv
    OBVIOUS
  <2>1. DOMAIN stack = {} /\ DOMAIN doomed = {} /\ cur = None /\ app = "starting"
    BY DEF Init
  <2>2. \A g \in Gens : gen[g] = Unused /\ gen[g].phase = "unused" /\ ~gen[g].wired
    BY DEF Init, Unused
  <2>3. DetachedOnTop /\ LoadsDiffer /\ FreshUnused /\ AliveIsKnown /\ WiredIsCur
    BY <2>1, <2>2 DEF DetachedOnTop, LoadsDiffer, FreshUnused, AliveIsKnown, WiredIsCur
  <2>4. DoomedDie /\ DyingWished /\ LossEnds /\ EndIsEmpty
    BY <2>1, <2>2 DEF DoomedDie, DyingWished, LossEnds, EndIsEmpty
  <2> QED BY <2>3, <2>4 DEF SInv
<1>2. TypeOK /\ PInv /\ SInv /\ [Next]_vars => SInv'
  <2> SUFFICES ASSUME TypeOK, PInv, SInv, [Next]_vars PROVE SInv'
    OBVIOUS
  <2>1. CASE Construct \/ Constructed \/ Shutdown
    BY <2>1, ConstructS, ConstructedS, ShutdownS
  <2>2. CASE Continue
    BY <2>2, EnterReloadS, FinishReloadS, SoftReloadedS, HardPostedS, HardReloadedS,
       FailedAgainS, ReturnsS, DeletedS DEF Continue
  <2>3. CASE Qml
    <3>1. ASSUME NEW hard \in Hards, QmlReload(hard) PROVE SInv'
      <4>1. hard \in BOOLEAN
        BY ParameterTypes DEF ParameterTypes
      <4> QED BY <3>1, <4>1, QmlReloadS
    <3> QED BY <2>3, <3>1, QmlExitS, CreateS DEF Qml
  <2>4. CASE IpcKill \/ DeleteRoot \/ \E o \in Objs : TimerFires(o)
    BY <2>4, IpcKillS, DeleteRootS, TimerFiresS
  <2>5. CASE UNCHANGED vars
    BY <2>5, StillS DEF vars
  <2> QED BY <2>1, <2>2, <2>3, <2>4, <2>5 DEF Next
<1> QED BY <1>1, <1>2, PInvHolds, PTL DEF Spec

\* When everything has settled exactly one configuration runs and the wrapper
\* knows it, and none is left at the end: for any number of reloads, soft and
\* hard, nested or not, failing or not, as long as none is asked for while the
\* wrapper is detached from the generation it replaces.
THEOREM OneAtRest ==
  ASSUME ReentersSafely
  PROVE  Spec => []OneConfiguration
<1>1. TypeOK /\ PInv /\ SInv => OneConfiguration
  <2> SUFFICES ASSUME TypeOK, PInv, SInv PROVE OneConfiguration
    OBVIOUS
  <2>1. ASSUME AtRest, app = "running" PROVE cur # None /\ Alive = {cur}
    <3>1. DOMAIN stack = {} /\ DOMAIN doomed = {}
      BY <2>1 DEF AtRest
    <3>2. cur # None
      BY <2>1, <3>1 DEF SInv, LossEnds, Deleting
    <3>3. cur \in Gens /\ gen[cur].phase = "new"
      BY <2>1, <3>1, <3>2 DEF TypeOK, PInv, CurIsAllocated, Allocated, SInv, DoomedDie
    <3>4. \A g \in Gens : gen[g].phase = "new" => g = cur
      BY <3>1 DEF SInv, AliveIsKnown, Loading
    <3> QED BY <3>2, <3>3, <3>4 DEF Alive
  <2>2. ASSUME app = "ended" PROVE Alive = {}
    BY <2>2 DEF SInv, EndIsEmpty, Alive
  <2> QED BY <2>1, <2>2 DEF OneConfiguration
<1> QED BY <1>1, SInvHolds, PTL

-----------------------------------------------------------------------------
(* Hooks of a soft reload run alone                                          *)

NoTerm == \A g \in Gens : ~gen[g].term

\* A load that has not run its hooks.
Starts(f)   == f.at \in {"create", "reload", "finished"}
Starting(g) == \E i \in DOMAIN stack : Starts(stack[i]) /\ stack[i].g = g

\* Only generations that exist have objects.
ObjectsMade == \A o \in Objs : objs[o].gen # None => gen[objs[o].gen].phase # "unused"

\* A generation waits for none while it is being loaded.
LoadsWaitForNone == \A g \in Gens : Loading(g) => gen[g].after = None

\* The generation that the current one waits for is the last to go.
LastDoomed ==
  NoTerm /\ cur # None /\ gen[cur].after # None /\ gen[gen[cur].after].phase = "dying" =>
    doomed # <<>> /\ doomed[Len(doomed)] = gen[cur].after

\* A hook that did not run alone is of a generation that waited for none.
CrowdedIsHard ==
  NoTerm => \A o \in Objs :
    objs[o].kind = "hook" /\ objs[o].early /\ objs[o].crowded /\ objs[o].gen # None =>
      gen[objs[o].gen].after = None /\ ~Starting(objs[o].gen)

HInv == ObjectsMade /\ LoadsWaitForNone /\ LastDoomed /\ CrowdedIsHard

\* A hook made while its configuration loaded did not run alone.
Crowded(o) == objs[o].kind = "hook" /\ objs[o].early /\ objs[o].crowded /\ objs[o].gen # None

\* What an action may do without bringing a hook of a soft reload company.
LEMMA KeepH ==
  ASSUME TypeOK, HInv, LastDoomed',
         \A g \in Gens : /\ gen[g].term => gen'[g].term
                         /\ gen[g].phase # "unused" => gen'[g].phase # "unused"
                         /\ gen'[g].after = gen[g].after \/ (Starting(g) /\ ~Loading(g)')
                         /\ Loading(g)' => Loading(g) \/ gen'[g].after = None
                         /\ Starting(g)' => Starting(g) \/ gen[g].phase = "unused",
         objs' \in [Objs -> Objects],
         \A o \in Objs : objs'[o].gen = objs[o].gen \/ gen'[objs'[o].gen].phase # "unused",
         \A o \in Objs : \A h \in Gens : Crowded(o)' /\ objs'[o].gen = h =>
           \/ Crowded(o) /\ objs[o].gen = h
           \/ NoTerm' => gen'[h].after = None /\ ~Starting(h)'
  PROVE  HInv'
<1>1. \A o \in Objs : objs[o].gen \in Gens \cup {None} /\ objs'[o].gen \in Gens \cup {None}
  BY DEF TypeOK, Objects
<1>2. ObjectsMade'
  BY <1>1 DEF HInv, ObjectsMade
<1>3. LoadsWaitForNone'
  BY DEF HInv, LoadsWaitForNone
<1>4. NoTerm' => NoTerm
  BY DEF NoTerm
<1>5. ASSUME NoTerm', NEW o \in Objs, NEW h \in Gens, Crowded(o)', objs'[o].gen = h
      PROVE  gen'[h].after = None /\ ~Starting(h)'
  <2>1. CASE Crowded(o) /\ objs[o].gen = h
    <3>1. gen[h].phase # "unused"
      BY <2>1 DEF HInv, ObjectsMade, Crowded
    <3>2. gen[h].after = None /\ ~Starting(h)
      BY <1>4, <1>5, <2>1 DEF HInv, CrowdedIsHard, Crowded, Starting
    <3> QED BY <3>1, <3>2
  <2> QED BY <1>5, <2>1
<1>6. CrowdedIsHard'
  <2> SUFFICES ASSUME NoTerm', NEW o \in Objs, Crowded(o)', NEW h \in Gens, objs'[o].gen = h
               PROVE  gen'[h].after = None /\ ~Starting(h)'
    BY <1>1 DEF CrowdedIsHard, Crowded, Starting
  <2> QED BY <1>5
<1> QED BY <1>2, <1>3, <1>6 DEF HInv

\* The queue and the current generation stay, and nothing dies but at its wish.
LEMMA StillLast ==
  ASSUME TypeOK, LastDoomed, cur' = cur, doomed' = doomed,
         \A g \in Gens : /\ gen[g].term => gen'[g].term
                         /\ gen'[g].after = gen[g].after
                         /\ gen'[g].phase = "dying" => gen[g].phase = "dying"
  PROVE  LastDoomed'
<1>1. NoTerm' => NoTerm
  BY DEF NoTerm
<1>2. cur # None => cur \in Gens
  BY DEF TypeOK
<1>3. cur # None => gen[cur].after \in Gens \cup {None} /\ gen'[cur].after = gen[cur].after
  BY <1>2 DEF TypeOK, Generations
<1> QED BY <1>1, <1>2, <1>3 DEF LastDoomed

LEMMA ActedH ==
  ASSUME stack \in Seq(Frames), stack = <<>> \/ Top.acts > 0, stack' = Acted
  PROVE  \A g \in Gens : (Starting(g)' => Starting(g)) /\ (Loading(g)' => Loading(g))
<1>1. /\ DOMAIN stack' = DOMAIN stack
      /\ \A i \in DOMAIN stack : stack'[i].at = stack[i].at /\ stack'[i].g = stack[i].g
  BY OnlyActed DEF Same
<1> QED BY <1>1 DEF Starting, Starts, Loading, InLoad

LEMMA PushH ==
  ASSUME stack \in Seq(Frames), stack = <<>> \/ Top.acts > 0,
         NEW f \in Frames, stack' = <<f>> \o Acted
  PROVE  \A g \in Gens : /\ Starting(g)' => Starting(g) \/ (InLoad(f) /\ f.g = g)
                         /\ Loading(g)' => Loading(g) \/ (InLoad(f) /\ f.g = g)
<1>1. /\ DOMAIN stack = 1..Len(stack) /\ DOMAIN stack' = 1..(Len(stack) + 1)
      /\ Len(stack) \in Nat /\ stack'[1] = f
      /\ \A i \in 2..(Len(stack) + 1) : stack'[i].at = stack[i - 1].at /\ stack'[i].g = stack[i - 1].g
  BY PushActed DEF Same
<1>2. \A i \in DOMAIN stack' : i = 1 \/ (i \in 2..(Len(stack) + 1) /\ i - 1 \in DOMAIN stack)
  BY <1>1
<1>3. ASSUME NEW g \in Gens, NEW i \in DOMAIN stack', stack'[i].g = g,
             InLoad(stack'[i]), ~(InLoad(f) /\ f.g = g)
      PROVE  \E j \in DOMAIN stack : stack[j].at = stack'[i].at /\ stack[j].g = g
  BY <1>1, <1>2, <1>3
<1> QED BY <1>3 DEF Starting, Starts, Loading, InLoad

LEMMA GotoH ==
  ASSUME stack \in Seq(Frames), stack # <<>>, NEW f \in Frames, Goto(f),
         f.g = Top.g, InLoad(f) => InLoad(Top), Starts(f) => Starts(Top)
  PROVE  \A g \in Gens : (Starting(g)' => Starting(g)) /\ (Loading(g)' => Loading(g))
<1>1. /\ DOMAIN stack = 1..Len(stack) /\ DOMAIN stack' = DOMAIN stack
      /\ Len(stack) \in Nat /\ Len(stack) >= 1 /\ Top = stack[1] /\ stack'[1] = f
      /\ \A i \in 2..Len(stack) : stack'[i] = stack[i]
  BY GotoTop
<1>2. \A i \in DOMAIN stack : i # 1 => stack'[i] = stack[i]
  BY <1>1
<1> QED BY <1>1, <1>2 DEF Starting, Loading

LEMMA ReturnH ==
  ASSUME stack \in Seq(Frames), stack # <<>>, Return
  PROVE  \A g \in Gens : (Starting(g)' => Starting(g)) /\ (Loading(g)' => Loading(g))
<1>1. /\ DOMAIN stack = 1..Len(stack) /\ DOMAIN stack' = 1..(Len(stack) - 1)
      /\ Len(stack) \in Nat /\ Len(stack) >= 1
      /\ \A i \in 1..(Len(stack) - 1) : stack'[i] = stack[i + 1]
  BY ReturnTop
<1>2. \A i \in DOMAIN stack' : i + 1 \in DOMAIN stack /\ stack'[i] = stack[i + 1]
  BY <1>1
<1> QED BY <1>2 DEF Starting, Loading

\* The actions that leave generations and objects as they are, but for phases
\* that age and objects that are served.
LEMMA StillH ==
  ASSUME TypeOK, HInv, UNCHANGED <<gen, cur, doomed, objs>>,
         \A g \in Gens : (Starting(g)' => Starting(g)) /\ (Loading(g)' => Loading(g))
  PROVE  HInv'
<1>1. LastDoomed'
  BY StillLast DEF HInv
<1>2. objs' \in [Objs -> Objects]
  BY DEF TypeOK
<1>3. \A o \in Objs : Crowded(o)' => Crowded(o) /\ objs'[o].gen = objs[o].gen
  BY DEF Crowded
<1> QED BY <1>1, <1>2, <1>3, KeepH

LEMMA FailureH ==
  ASSUME TypeOK, HInv, stack = <<>> \/ Top.acts > 0, NEW f \in Frames, f.at = "failed",
         stack' = IF cur = None THEN Acted ELSE <<f>> \o Acted,
         UNCHANGED <<gen, cur, doomed, objs>>
  PROVE  HInv'
<1>1. stack \in Seq(Frames) /\ ~InLoad(f)
  BY DEF TypeOK, InLoad
<1>2. \A g \in Gens : (Starting(g)' => Starting(g)) /\ (Loading(g)' => Loading(g))
  <2>1. CASE cur = None
    BY <1>1, <2>1, ActedH
  <2>2. CASE cur # None
    BY <1>1, <2>2, PushH
  <2> QED BY <2>1, <2>2
<1> QED BY <1>2, StillH

LEMMA CreatesH ==
  ASSUME TypeOK, SInv, HInv, stack = <<>> \/ Top.acts > 0, NEW hard \in BOOLEAN, Creates(hard)
  PROVE  HInv'
<1> DEFINE n == made + 1
           f == Frame("create", n, hard)
<1>1. n \in Gens /\ n > made
  BY ParameterTypes DEF Creates, TypeOK, Gens, ParameterTypes
<1>2. f \in Frames /\ f.g = n
  BY <1>1, FrameType DEF Points
<1>3. stack' = <<f>> \o Acted /\ stack \in Seq(Frames) /\ UNCHANGED <<cur, doomed, objs>>
      /\ gen' = [gen EXCEPT ![n].phase = "new"]
  BY DEF Creates, TypeOK
<1> HIDE DEF f
<1> HIDE DEF n
<1>4. gen[n].phase = "unused" /\ gen[n].after = None
  <2>1. gen[n] = Unused
    BY <1>1 DEF SInv, FreshUnused
  <2> QED BY <2>1 DEF Unused
<1>5. \A h \in Gens : /\ gen'[h].term = gen[h].term /\ gen'[h].after = gen[h].after
                      /\ gen'[h].phase = IF h = n THEN "new" ELSE gen[h].phase
  BY <1>1, <1>3 DEF TypeOK, Generations
<1>6. \A g \in Gens : /\ Starting(g)' => Starting(g) \/ g = n
                      /\ Loading(g)' => Loading(g) \/ g = n
  BY <1>2, <1>3, PushH
<1>7. LastDoomed'
  BY <1>3, <1>5, StillLast DEF HInv
<1>8. objs' \in [Objs -> Objects]
      /\ \A o \in Objs : Crowded(o)' => Crowded(o) /\ objs'[o].gen = objs[o].gen
  BY <1>3 DEF TypeOK, Crowded
<1> QED BY <1>3, <1>4, <1>5, <1>6, <1>7, <1>8, KeepH

LEMMA ReloadGraphH ==
  ASSUME TypeOK, SInv, HInv, stack = <<>> \/ Top.acts > 0, NEW hard \in BOOLEAN,
         ReloadGraph(hard)
  PROVE  HInv'
<1>1. CASE ScanFails
  BY <1>1, FailingType, FailureH DEF ScanFails
<1>2. CASE CompileFails
  BY <1>2, FailingType, FailureH DEF CompileFails
<1>3. CASE Creates(hard)
  BY <1>3, CreatesH
<1> QED BY <1>1, <1>2, <1>3 DEF ReloadGraph

\* A generation that is told to end ends the promise.
LEMMA TerminatesH ==
  ASSUME TypeOK, HInv, NEW g \in Gens, NEW code \in Codes \cup {0},
         gen' = Destroyed([gen EXCEPT ![g].term = TRUE, ![g].code = code], g),
         UNCHANGED <<cur, objs>>,
         \A h \in Gens : (Starting(h)' => Starting(h)) /\ (Loading(h)' => Loading(h))
  PROVE  HInv'
<1>1. \A h \in Gens : /\ gen'[h].after = gen[h].after
                      /\ gen'[h].phase = IF h = g /\ gen[h].phase = "new"
                                         THEN "dying" ELSE gen[h].phase
                      /\ gen[h].term => gen'[h].term
                      /\ gen'[g].term
  BY DEF Destroyed, TypeOK, Generations
<1>2. ~NoTerm'
  BY <1>1 DEF NoTerm
<1>3. LastDoomed'
  BY <1>2 DEF LastDoomed
<1>4. objs' \in [Objs -> Objects]
      /\ \A o \in Objs : Crowded(o)' => Crowded(o) /\ objs'[o].gen = objs[o].gen
  BY DEF TypeOK, Crowded
<1>5. \A h \in Gens : /\ gen[h].term => gen'[h].term
                      /\ gen[h].phase # "unused" => gen'[h].phase # "unused"
                      /\ gen'[h].after = gen[h].after
  <2> SUFFICES ASSUME NEW h \in Gens
               PROVE  /\ gen[h].term => gen'[h].term
                      /\ gen[h].phase # "unused" => gen'[h].phase # "unused"
                      /\ gen'[h].after = gen[h].after
    OBVIOUS
  <2>1. /\ gen'[h].after = gen[h].after
        /\ gen'[h].phase = gen[h].phase \/ gen'[h].phase = "dying"
    BY <1>1
  <2>2. gen[h].term => gen'[h].term
    BY <1>1, Zenon
  <2> QED BY <2>1, <2>2
<1>6. \A o \in Objs : objs'[o].gen = objs[o].gen
  OBVIOUS
<1>7. \A o \in Objs : \A h \in Gens :
        Crowded(o)' /\ objs'[o].gen = h => Crowded(o) /\ objs[o].gen = h
  BY <1>4
<1> QED BY <1>3, <1>4, <1>5, <1>6, <1>7, KeepH

LEMMA QmlExitH ==
  ASSUME TypeOK, HInv, NEW g \in Gens, NEW code \in Codes \cup {gen[g].code}, QmlExit(g, code)
  PROVE  HInv'
<1>1. code \in Codes \cup {0}
  BY DEF TypeOK, Generations
<1>2. \A h \in Gens : (Starting(h)' => Starting(h)) /\ (Loading(h)' => Loading(h))
  BY ActedH DEF QmlExit, QmlRuns, TypeOK
<1> QED BY <1>1, <1>2, TerminatesH DEF QmlExit, Terminate

LEMMA IpcKillH ==
  ASSUME TypeOK, HInv, IpcKill
  PROVE  HInv'
<1>1. \A h \in Gens : (Starting(h)' => Starting(h)) /\ (Loading(h)' => Loading(h))
  BY DEF IpcKill, Starting, Loading
<1>2. CASE Cardinality(Registered) = 1
  <2>1. PICK g \in Registered : gen' = Destroyed([gen EXCEPT ![g].term = TRUE], g)
    BY <1>2 DEF IpcKill
  <2>2. g \in Gens /\ gen[g].code \in Codes \cup {0}
    BY <2>1 DEF Registered, TypeOK, Generations
  <2>3. [gen EXCEPT ![g].term = TRUE] = [gen EXCEPT ![g].term = TRUE, ![g].code = gen[g].code]
    BY <2>2 DEF TypeOK, Generations
  <2> QED BY <1>1, <2>1, <2>2, <2>3, TerminatesH DEF IpcKill
<1>3. CASE Cardinality(Registered) # 1
  BY <1>1, <1>3, StillH DEF IpcKill
<1> QED BY <1>2, <1>3

LEMMA CreateH ==
  ASSUME TypeOK, HInv, NEW o \in Objs, NEW kind \in {"hook", "reloadable"}, NEW g \in Gens,
         Create(o, kind, g)
  PROVE  HInv'
<1> DEFINE r == [kind |-> kind, gen |-> g, early |-> ~gen[g].complete,
       st |-> IF ~gen[g].complete THEN "waiting" ELSE IF kind = "hook" THEN "done" ELSE "timer",
       crowded |-> kind = "hook" /\ gen[g].complete /\ Crowd(g)]
<1>1. r \in Objects /\ r.gen = g /\ ~(r.early /\ r.crowded)
  BY DEF Objects
<1>2. objs' = [objs EXCEPT ![o] = r] /\ gen[g].phase # "unused" /\ UNCHANGED <<gen, cur, doomed>>
  BY DEF Create, Allocated
<1> HIDE DEF r
<1>3. objs' \in [Objs -> Objects] /\ \A x \in Objs : objs'[x] = IF x = o THEN r ELSE objs[x]
  BY <1>1, <1>2 DEF TypeOK
<1>4. \A h \in Gens : (Starting(h)' => Starting(h)) /\ (Loading(h)' => Loading(h))
  BY ActedH DEF Create, QmlRuns, TypeOK
<1>5. LastDoomed'
  BY <1>2, StillLast DEF HInv
<1>6. \A x \in Objs : /\ objs'[x].gen = objs[x].gen \/ gen'[objs'[x].gen].phase # "unused"
                      /\ Crowded(x)' => Crowded(x) /\ objs'[x].gen = objs[x].gen
  BY <1>1, <1>2, <1>3 DEF Crowded
<1> QED BY <1>2, <1>3, <1>4, <1>5, <1>6, KeepH

\* Objects are served, and generations go on, without a change of what counts.
LEMMA ServedH ==
  ASSUME TypeOK, HInv, UNCHANGED <<cur, doomed>>,
         \A g \in Gens : (Starting(g)' => Starting(g)) /\ (Loading(g)' => Loading(g)),
         \A h \in Gens : /\ gen'[h].term = gen[h].term /\ gen'[h].after = gen[h].after
                         /\ gen'[h].phase = gen[h].phase
                            \/ (gen[h].phase = "new" /\ gen'[h].phase = "gone"),
         objs' \in [Objs -> Objects],
         \A o \in Objs : objs'[o] = objs[o] \/ \E st : objs'[o] = [objs[o] EXCEPT !.st = st]
  PROVE  HInv'
<1>1. LastDoomed'
  BY StillLast DEF HInv
<1>2. \A o \in Objs : /\ objs'[o].gen = objs[o].gen
                      /\ Crowded(o)' => Crowded(o)
  BY DEF TypeOK, Objects, Crowded
<1> QED BY <1>1, <1>2, KeepH

LEMMA TimerFiresH ==
  ASSUME TypeOK, HInv, NEW o \in Objs, TimerFires(o)
  PROVE  HInv'
<1>1. [objs[o] EXCEPT !.st = "done"] \in Objects
  BY DEF TypeOK, Objects
<1>2. objs' \in [Objs -> Objects]
      /\ \A x \in Objs : objs'[x] = objs[x] \/ \E st : objs'[x] = [objs[x] EXCEPT !.st = st]
  BY <1>1 DEF TypeOK, TimerFires
<1>3. \A g \in Gens : (Starting(g)' => Starting(g)) /\ (Loading(g)' => Loading(g))
  BY DEF TimerFires, Starting, Loading
<1>4. UNCHANGED <<gen, cur, doomed>>
  BY DEF TimerFires
<1> QED BY <1>2, <1>3, <1>4, ServedH

LEMMA EnterReloadH ==
  ASSUME TypeOK, PInv, HInv, EnterReload
  PROVE  HInv'
<1> DEFINE g == Top.g
           old == IF Top.hard THEN None ELSE cur
           f == [Frame("reload", g, Top.hard) EXCEPT !.old = old, !.isReload = (cur # None)]
<1>1. stack \in Seq(Frames) /\ stack # <<>> /\ Top \in Frames /\ Top.at = "create"
      /\ FrameOK(gen, Top)
  BY TopOK DEF EnterReload
<1>2. g \in Gens /\ Top.hard \in BOOLEAN
  BY <1>1 DEF FrameOK, InLoad, Frames
<1>3. f \in Frames /\ f.at = "reload" /\ f.g = g
  <2>1. Frame("reload", g, Top.hard) \in Frames /\ Frame("reload", g, Top.hard).at = "reload"
        /\ Frame("reload", g, Top.hard).g = g
    BY <1>2, FrameType DEF Points
  <2>2. old \in Gens \cup {None}
    BY DEF TypeOK
  <2> QED BY <2>1, <2>2 DEF Frames
<1>4. gen' = Linked(LetGo(gen, cur), g) /\ Goto(f) /\ UNCHANGED <<cur, doomed>>
  BY DEF EnterReload
<1> HIDE DEF f
<1>5. \A h \in Gens : /\ gen'[h].phase = gen[h].phase /\ gen'[h].term = gen[h].term
                      /\ gen'[h].after = gen[h].after
  BY <1>2, <1>4 DEF Linked, LetGo, TypeOK, Generations
<1>6. \A h \in Gens : (Starting(h)' => Starting(h)) /\ (Loading(h)' => Loading(h))
  BY <1>1, <1>3, <1>4, GotoH DEF InLoad, Starts
<1>7. objs' \in [Objs -> Objects]
      /\ \A o \in Objs : objs'[o] = objs[o] \/ \E st : objs'[o] = [objs[o] EXCEPT !.st = st]
  <2>1. PICK tree \in SUBSET Objs :
          objs' = [o \in Objs |-> IF o \in tree THEN [objs[o] EXCEPT !.st = "done"] ELSE objs[o]]
    BY DEF EnterReload
  <2>2. \A o \in Objs : [objs[o] EXCEPT !.st = "done"] \in Objects /\ objs[o] \in Objects
    BY DEF TypeOK, Objects
  <2> QED BY <2>1, <2>2
<1> QED BY <1>4, <1>5, <1>6, <1>7, ServedH

LEMMA FinishReloadH ==
  ASSUME TypeOK, PInv, HInv, FinishReload
  PROVE  HInv'
<1> DEFINE g == Top.g
           f == [Top EXCEPT !.at = "finished", !.acts = MaxActs]
<1>1. stack \in Seq(Frames) /\ stack # <<>> /\ Top \in Frames /\ Top.at = "reload"
      /\ FrameOK(gen, Top)
  BY TopOK DEF FinishReload
<1>2. g \in Gens
  BY <1>1 DEF FrameOK, InLoad
<1>3. f \in Frames /\ f.at = "finished" /\ f.g = g
  <2>1. MaxActs \in 0..MaxActs
    BY ParameterTypes DEF ParameterTypes
  <2> QED BY <1>1, <2>1 DEF Frames, Points
<1>4. gen' = [gen EXCEPT ![g].complete = TRUE] /\ Goto(f) /\ UNCHANGED <<cur, doomed>>
  BY DEF FinishReload
<1> HIDE DEF f
<1>5. \A h \in Gens : /\ gen'[h].phase = gen[h].phase /\ gen'[h].term = gen[h].term
                      /\ gen'[h].after = gen[h].after
  BY <1>2, <1>4 DEF TypeOK, Generations
<1>6. \A h \in Gens : (Starting(h)' => Starting(h)) /\ (Loading(h)' => Loading(h))
  BY <1>1, <1>3, <1>4, GotoH DEF InLoad, Starts
<1>7. objs' \in [Objs -> Objects]
      /\ \A o \in Objs : objs'[o] = objs[o] \/ \E st : objs'[o] = [objs[o] EXCEPT !.st = st]
  <2>1. objs' = [o \in Objs |->
           IF objs[o].gen = Top.g /\ objs[o].kind = "reloadable" /\ objs[o].st = "waiting"
           THEN [objs[o] EXCEPT !.st = "done"] ELSE objs[o]]
    BY DEF FinishReload
  <2>2. \A o \in Objs : [objs[o] EXCEPT !.st = "done"] \in Objects /\ objs[o] \in Objects
    BY DEF TypeOK, Objects
  <2> QED BY <2>1, <2>2
<1> QED BY <1>4, <1>5, <1>6, <1>7, ServedH

\* What postReload() does to an object.
LEMMA PostedObjects ==
  ASSUME TypeOK, NEW gs, NEW alive
  PROVE  \A o \in Objs :
           /\ Posted(gs, alive)[o] \in Objects
           /\ Posted(gs, alive)[o].gen = objs[o].gen /\ Posted(gs, alive)[o].kind = objs[o].kind
           /\ Posted(gs, alive)[o].early = objs[o].early
           /\ \/ Posted(gs, alive)[o].crowded = objs[o].crowded
              \/ /\ objs[o].gen \in gs \cap Alive
                 /\ Posted(gs, alive)[o].crowded = (alive \ {objs[o].gen} # {})
<1> SUFFICES ASSUME NEW o \in Objs
             PROVE  /\ Posted(gs, alive)[o] \in Objects
                    /\ Posted(gs, alive)[o].gen = objs[o].gen
                    /\ Posted(gs, alive)[o].kind = objs[o].kind
                    /\ Posted(gs, alive)[o].early = objs[o].early
                    /\ \/ Posted(gs, alive)[o].crowded = objs[o].crowded
                       \/ /\ objs[o].gen \in gs \cap Alive
                          /\ Posted(gs, alive)[o].crowded = (alive \ {objs[o].gen} # {})
  OBVIOUS
<1> DEFINE c == alive \ {objs[o].gen} # {}
<1>1. c \in BOOLEAN
  OBVIOUS
<1>2. objs[o] \in Objects
  BY DEF TypeOK
<1>3. Posted(gs, alive)[o] =
        IF objs[o].gen \in gs \cap Alive /\ objs[o].kind = "hook" /\ objs[o].st = "waiting"
        THEN [objs[o] EXCEPT !.st = "done", !.crowded = c] ELSE objs[o]
  BY DEF Posted
<1> HIDE DEF c
<1>4. [objs[o] EXCEPT !.st = "done", !.crowded = c] \in Objects
      /\ [objs[o] EXCEPT !.st = "done", !.crowded = c].gen = objs[o].gen
      /\ [objs[o] EXCEPT !.st = "done", !.crowded = c].kind = objs[o].kind
      /\ [objs[o] EXCEPT !.st = "done", !.crowded = c].early = objs[o].early
      /\ [objs[o] EXCEPT !.st = "done", !.crowded = c].crowded = c
  BY <1>1, <1>2 DEF Objects
<1> QED BY <1>2, <1>3, <1>4 DEF c

LEMMA HardPostedH ==
  ASSUME TypeOK, PInv, SInv, HInv, HardPosted
  PROVE  HInv'
<1> DEFINE f == [Top EXCEPT !.at = "posted", !.acts = MaxActs]
<1>1. /\ stack \in Seq(Frames) /\ stack # <<>> /\ Top \in Frames /\ Top.at = "finished"
      /\ Top = stack[1] /\ 1 \in DOMAIN stack /\ FrameOK(gen, Top)
  BY TopOK DEF HardPosted
<1>0. PICK g \in Gens : g = Top.g
  BY <1>1 DEF FrameOK, InLoad
<1>2. f \in Frames /\ f.at = "posted" /\ f.g = g
  <2>1. MaxActs \in 0..MaxActs
    BY ParameterTypes DEF ParameterTypes
  <2> QED BY <1>0, <1>1, <2>1 DEF Frames, Points
<1>3. Goto(f) /\ UNCHANGED <<gen, cur, doomed>> /\ objs' = Posted({g}, Registered)
  BY <1>0 DEF HardPosted
<1> HIDE DEF f
<1>4. g \in Gens /\ InLoad(Top) /\ ~Starts(f) /\ InLoad(f)
  BY <1>1, <1>2 DEF InLoad, Starts
<1>5. \A h \in Gens : (Starting(h)' => Starting(h)) /\ (Loading(h)' => Loading(h))
  BY <1>0, <1>1, <1>2, <1>3, <1>4, GotoH
<1>6. gen[g].after = None
  BY <1>0, <1>1, <1>4 DEF HInv, LoadsWaitForNone, Loading
<1>7. ~Starting(g)'
  <2>1. /\ DOMAIN stack = 1..Len(stack) /\ DOMAIN stack' = DOMAIN stack /\ stack'[1] = f
        /\ Len(stack) \in Nat /\ \A i \in 2..Len(stack) : stack'[i] = stack[i]
    BY <1>1, <1>2, <1>3, GotoTop
  <2>2. \A i \in DOMAIN stack : i # 1 => stack'[i] = stack[i]
    BY <2>1
  <2>3. \A i \in DOMAIN stack : InLoad(stack[i]) /\ stack[i].g = g => i = 1
    BY <1>0, <1>1, <1>4 DEF SInv, LoadsDiffer
  <2>4. \A i \in DOMAIN stack : Starts(stack[i]) => InLoad(stack[i])
    BY DEF Starts, InLoad
  <2> QED BY <1>4, <2>1, <2>2, <2>3, <2>4 DEF Starting
<1>8. \A o \in Objs : /\ objs'[o] \in Objects /\ objs'[o].gen = objs[o].gen
                      /\ objs'[o].kind = objs[o].kind /\ objs'[o].early = objs[o].early
                      /\ objs'[o].crowded = objs[o].crowded \/ objs[o].gen = g
  BY <1>3, PostedObjects
<1>9. objs' \in [Objs -> Objects]
  BY <1>3, <1>8 DEF Posted
<1>10. \A o \in Objs : Crowded(o)' => Crowded(o) \/ objs'[o].gen = g
  BY <1>8 DEF Crowded
<1>11. LastDoomed'
  BY <1>3, StillLast DEF HInv
<1> QED BY <1>3, <1>5, <1>6, <1>7, <1>8, <1>9, <1>10, <1>11, KeepH

\* The wrapper adopts the generation on top, and its call returns or announces it.
LEMMA AdoptingH ==
  ASSUME TypeOK, PInv, SInv, NEW p, At(p), p \in {"finished", "posted"}, Completed(Top),
         cur' = Top.g, NEW g \in Gens, g = Top.g
  PROVE  /\ \A h \in Gens : (Starting(h)' => Starting(h)) /\ (Loading(h)' => Loading(h))
         /\ ~Loading(g)' /\ Loading(g) /\ (p = "finished" => Starting(g))
<1> DEFINE f == [Top EXCEPT !.at = "completed", !.acts = MaxActs]
<1>1. /\ stack \in Seq(Frames) /\ stack # <<>> /\ Top \in Frames /\ Top.at = p
      /\ FrameOK(gen, Top) /\ Top = stack[1] /\ 1 \in DOMAIN stack
  BY TopOK
<1>2. InLoad(Top) /\ Top.g \in Gens /\ (p = "finished" => Starts(Top))
  BY <1>1 DEF InLoad, FrameOK, Starts
<1>3. f \in Frames /\ ~InLoad(f) /\ ~Starts(f) /\ f.g = Top.g
  <2>1. MaxActs \in 0..MaxActs
    BY ParameterTypes DEF ParameterTypes
  <2> QED BY <1>1, <2>1 DEF Frames, Points, InLoad, Starts
<1>4. Goto(f) \/ Return
  BY DEF Completed
<1> HIDE DEF f
<1>5. \A h \in Gens : (Starting(h)' => Starting(h)) /\ (Loading(h)' => Loading(h))
  BY <1>1, <1>3, <1>4, GotoH, ReturnH
<1>6. \A h \in Gens : Loading(h)' => ~(InLoad(Top) /\ h = Top.g)
  BY <1>1, <1>2, <1>3, <1>4, LeaveS DEF SInv
<1>7. Loading(g) /\ (p = "finished" => Starting(g))
  BY <1>1, <1>2 DEF Loading, Starting
<1>8. ~Loading(g)'
  BY <1>2, <1>6
<1> QED BY <1>5, <1>7, <1>8

LEMMA SoftReloadedH ==
  ASSUME TypeOK, PInv, SInv, HInv, SoftReloaded
  PROVE  HInv'
<1>1. /\ At("finished") /\ Top \in Frames /\ Top.at = "finished" /\ FrameOK(gen, Top)
      /\ Top = stack[1] /\ 1 \in DOMAIN stack
  BY TopOK DEF SoftReloaded
<1>0. PICK g \in Gens : g = Top.g
  BY <1>1 DEF FrameOK, InLoad
<1>2. g = Top.g /\ InLoad(Top) /\ Top.old # None
  BY <1>0, <1>1 DEF SoftReloaded, InLoad
<1>3. Top.old = cur /\ cur \in Gens /\ g # cur
  BY <1>1, <1>2 DEF SInv, DetachedOnTop, LoadsDiffer, Detached, TypeOK
<1>4. /\ gen' = Adopted(Destroyed([gen EXCEPT ![g].after = cur], cur), g)
      /\ cur' = g /\ Completed(Top) /\ doomed' = Dooming(gen, cur) /\ objs' = objs
  BY <1>2, <1>3 DEF SoftReloaded
<1>5. /\ gen'[g].after = cur
      /\ \A h \in Gens : /\ h # g => gen'[h].after = gen[h].after
                         /\ gen'[h].term = gen[h].term
                         /\ gen'[h].phase = IF h = cur /\ gen[h].phase = "new"
                                            THEN "dying" ELSE gen[h].phase
  BY <1>2, <1>3, <1>4 DEF Adopted, Destroyed, TypeOK, Generations
<1>6. /\ \A h \in Gens : (Starting(h)' => Starting(h)) /\ (Loading(h)' => Loading(h))
      /\ ~Loading(g)' /\ Starting(g)
  BY <1>1, <1>2, <1>4, AdoptingH
<1>7. LastDoomed'
  <2> SUFFICES ASSUME NoTerm', gen'[cur].phase = "dying"
               PROVE  doomed' # <<>> /\ doomed'[Len(doomed')] = cur
    BY <1>4, <1>5 DEF LastDoomed
  <2>1. ~gen[cur].term
    BY <1>3, <1>5 DEF NoTerm
  <2>2. gen[cur].phase # "dying"
    BY <1>3, <2>1 DEF SInv, DyingWished
  <2>3. gen[cur].phase = "new"
    BY <1>3, <1>5, <2>2
  <2>4. doomed' = Append(doomed, cur) /\ doomed \in Seq(Gens)
    BY <1>4, <2>3 DEF Dooming, TypeOK
  <2> QED BY <1>3, <2>4, AppendProperties
<1>8. objs' \in [Objs -> Objects]
      /\ \A o \in Objs : Crowded(o)' => Crowded(o) /\ objs'[o].gen = objs[o].gen
  BY <1>4 DEF TypeOK, Crowded
<1> QED BY <1>4, <1>5, <1>6, <1>7, <1>8, KeepH

LEMMA HardReloadedH ==
  ASSUME TypeOK, PInv, SInv, HInv, HardReloaded
  PROVE  HInv'
<1> DEFINE gs == IF Top.hard /\ cur # None THEN Destroyed(gen, cur) ELSE gen
<1>1. At("posted") /\ Top.at = "posted" /\ FrameOK(gen, Top) /\ InLoad(Top)
  BY TopOK DEF HardReloaded, InLoad
<1>0. PICK g \in Gens : g = Top.g
  BY <1>1 DEF FrameOK
<1>2. cur # None => cur \in Gens
  BY DEF TypeOK
<1>3. gen' = Adopted(gs, g) /\ cur' = g /\ Completed(Top) /\ objs' = objs
  BY <1>0 DEF HardReloaded
<1>4. \A h \in Gens : /\ gs[h].term = gen[h].term /\ gs[h].after = gen[h].after
                      /\ gen[h].phase # "unused" => gs[h].phase # "unused"
  BY <1>2 DEF Destroyed, TypeOK, Generations
<1>5. gs \in [Gens -> Generations]
  BY <1>2, DestroyedGens DEF TypeOK
<1> HIDE DEF gs
<1>6. \A h \in Gens : /\ gen'[h].term = gen[h].term /\ gen'[h].after = gen[h].after
                      /\ gen[h].phase # "unused" => gen'[h].phase # "unused"
  BY <1>2, <1>3, <1>4, <1>5 DEF Adopted, Generations
<1>7. /\ \A h \in Gens : (Starting(h)' => Starting(h)) /\ (Loading(h)' => Loading(h))
      /\ Loading(g)
  BY <1>0, <1>1, <1>3, AdoptingH
<1>8. gen'[g].after = None
  BY <1>2, <1>6, <1>7 DEF HInv, LoadsWaitForNone
<1>9. LastDoomed'
  BY <1>3, <1>8 DEF LastDoomed
<1>10. objs' \in [Objs -> Objects]
       /\ \A o \in Objs : Crowded(o)' => Crowded(o) /\ objs'[o].gen = objs[o].gen
  BY <1>3 DEF TypeOK, Crowded
<1> QED BY <1>3, <1>6, <1>7, <1>9, <1>10, KeepH

LEMMA LeavingH ==
  ASSUME TypeOK, PInv, HInv, FailedAgain \/ Returns \/ Deleted
  PROVE  HInv'
<1>1. PICK p \in {"failed", "completed", "deleted"} : At(p)
  BY DEF FailedAgain, Returns, Deleted
<1>2. stack \in Seq(Frames) /\ stack # <<>> /\ Top \in Frames /\ Top.at = p
  BY <1>1, TopOK
<1>3. UNCHANGED <<gen, cur, doomed, objs>>
  BY DEF FailedAgain, Returns, Deleted
<1>4. ASSUME Return PROVE HInv'
  BY <1>2, <1>3, <1>4, ReturnH, StillH
<1>5. ASSUME FailedAgain, cur # None PROVE HInv'
  <2> DEFINE f == [Top EXCEPT !.left = @ - 1, !.acts = MaxActs]
  <2>1. f \in Frames /\ f.at = Top.at /\ f.g = Top.g
    <3>1. MaxActs \in 0..MaxActs
      BY ParameterTypes DEF ParameterTypes
    <3>2. Top.left \in 0..1 /\ Top.left > 0
      BY <1>2, <1>5 DEF FailedAgain, Frames
    <3>3. Top.left - 1 \in 0..1
      BY <3>2
    <3> QED BY <1>2, <3>1, <3>3 DEF Frames
  <2>2. Goto(f)
    BY <1>5 DEF FailedAgain
  <2> HIDE DEF f
  <2>3. \A h \in Gens : (Starting(h)' => Starting(h)) /\ (Loading(h)' => Loading(h))
    BY <1>2, <2>1, <2>2, GotoH DEF InLoad, Starts
  <2> QED BY <1>3, <2>3, StillH
<1> QED BY <1>4, <1>5 DEF FailedAgain, Returns, Deleted

LEMMA DeleteRootH ==
  ASSUME TypeOK, PInv, SInv, HInv, DeleteRoot
  PROVE  HInv'
<1> DEFINE n == Len(doomed)
<1>1. doomed \in Seq(Gens) /\ doomed # <<>> /\ stack = <<>> /\ DOMAIN stack = {}
  BY DEF DeleteRoot, TypeOK
<1>2. n \in Nat /\ n >= 1 /\ DOMAIN doomed = 1..n
  <2>1. n \in Nat \ {0}
    BY <1>1, EmptySeq
  <2> QED BY <1>1, <2>1
<1>3. PICK g \in Gens : g = Head(doomed)
  BY <1>1, HeadTailProperties
<1> DEFINE f == Frame("deleted", g, FALSE)
           hs == {h \in Gens : gen[h].after = g}
           posted == Posted(hs, Registered \ {g})
<1>4. /\ g = doomed[1] /\ Tail(doomed) \in Seq(Gens) /\ Len(Tail(doomed)) = n - 1
      /\ \A i \in 1..(n - 1) : Tail(doomed)[i] = doomed[i + 1]
  BY <1>1, <1>2, <1>3, HeadTailProperties
<1>5. /\ gen' = [gen EXCEPT ![g].phase = "gone"] /\ cur' = IF gen[g].wired THEN None ELSE cur
      /\ stack' = <<f>> /\ doomed' = Tail(doomed)
      /\ objs' = [o \in Objs |-> IF objs[o].gen = g THEN [objs[o] EXCEPT !.st = "dead"]
                                 ELSE posted[o]]
  BY <1>3 DEF DeleteRoot
<1>6. f.at = "deleted"
  BY <1>3, FrameType DEF Points
<1> HIDE DEF f, n
<1>7. gen[g].phase = "dying"
  BY <1>2, <1>4 DEF SInv, DoomedDie
<1>8. /\ gen'[g].phase = "gone"
      /\ \A h \in Gens : /\ gen'[h].term = gen[h].term /\ gen'[h].after = gen[h].after
                         /\ h # g => gen'[h].phase = gen[h].phase
  BY <1>5 DEF TypeOK, Generations
<1>9. \A h \in Gens : ~Loading(h)' /\ ~Starting(h)' /\ ~Loading(h)
  <2>1. DOMAIN stack' = {1} /\ stack'[1] = f
    BY <1>5
  <2> QED BY <1>1, <1>6, <2>1 DEF Loading, Starting, InLoad, Starts
<1>10. NoTerm' => NoTerm
  BY <1>8 DEF NoTerm
<1>11. LastDoomed'
  <2> DEFINE a == gen[cur].after
  <2> SUFFICES ASSUME NoTerm', cur' # None, gen'[cur'].after # None,
                      gen'[gen'[cur'].after].phase = "dying"
               PROVE  doomed' # <<>> /\ doomed'[Len(doomed')] = gen'[cur'].after
    BY DEF LastDoomed
  <2>1. cur' = cur /\ cur \in Gens
    BY <1>5 DEF TypeOK
  <2>2. gen'[cur'].after = a /\ a \in Gens
    BY <1>8, <2>1 DEF TypeOK, Generations
  <2>3. a # g /\ gen[a].phase = "dying"
    BY <1>8, <2>2
  <2>4. doomed[n] = a
    BY <1>10, <2>1, <2>2, <2>3, ParameterTypes DEF HInv, LastDoomed, n, ParameterTypes
  <2>5. n # 1
    BY <1>4, <2>3, <2>4
  <2>6. n - 1 \in 1..(n - 1) /\ (n - 1) + 1 = n
    BY <1>2, <2>5
  <2>7. Tail(doomed)[n - 1] = a /\ Tail(doomed) # <<>>
    <3>1. Len(Tail(doomed)) # 0
      BY <1>2, <1>4, <2>5
    <3> QED BY <1>4, <2>4, <2>6, <3>1
  <2> QED BY <1>4, <1>5, <2>2, <2>7
<1>12. ASSUME NoTerm, NEW h \in hs \cap Alive
       PROVE  (Registered \ {g}) \ {h} = {}
  <2>1. h \in Gens /\ gen[h].phase = "new" /\ gen[h].after = g
    BY DEF Alive
  <2>2. h = cur
    BY <1>9, <2>1 DEF SInv, AliveIsKnown
  <2>3. doomed[n] = g
    BY <1>7, <1>12, <2>1, <2>2, ParameterTypes DEF HInv, LastDoomed, n, ParameterTypes
  <2>4. n = 1
    BY <1>2, <1>4, <2>3 DEF SInv, DoomedDie
  <2>5. \A k \in Gens : gen[k].phase = "dying" => k = g
    <3>1. \A i \in DOMAIN doomed : doomed[i] = g
      BY <1>2, <1>4, <2>4
    <3> QED BY <3>1 DEF SInv, DoomedDie
  <2>6. \A k \in Gens : gen[k].phase = "new" => k = h
    BY <1>9, <2>2 DEF SInv, AliveIsKnown
  <2> QED BY <2>5, <2>6 DEF Registered, Allocated
<1>13. \A o \in Objs :
         /\ posted[o] \in Objects /\ posted[o].gen = objs[o].gen /\ posted[o].kind = objs[o].kind
         /\ posted[o].early = objs[o].early
         /\ \/ posted[o].crowded = objs[o].crowded
            \/ /\ objs[o].gen \in hs \cap Alive
               /\ posted[o].crowded = ((Registered \ {g}) \ {objs[o].gen} # {})
  BY PostedObjects
<1> HIDE DEF hs, posted
<1>14. \A o \in Objs :
         LET d == [objs[o] EXCEPT !.st = "dead"]
         IN  d \in Objects /\ d.gen = objs[o].gen /\ d.kind = objs[o].kind /\ d.early = objs[o].early
             /\ d.crowded = objs[o].crowded
  BY DEF TypeOK, Objects
<1>15. objs' \in [Objs -> Objects]
  BY <1>5, <1>13, <1>14
<1>16. ASSUME NEW o \in Objs
       PROVE  /\ objs'[o].gen = objs[o].gen
              /\ NoTerm /\ Crowded(o)' => Crowded(o)
  <2>1. CASE objs[o].gen = g
    <3>1. objs'[o] = [objs[o] EXCEPT !.st = "dead"]
      BY <1>5, <2>1
    <3> QED BY <1>14, <3>1 DEF Crowded
  <2>2. CASE objs[o].gen # g
    <3>1. objs'[o] = posted[o]
      BY <1>5, <2>2
    <3>2. NoTerm => posted[o].crowded = objs[o].crowded \/ ~posted[o].crowded
      BY <1>12, <1>13
    <3> QED BY <1>13, <3>1, <3>2 DEF Crowded
  <2> QED BY <2>1, <2>2
<1>17. \A o \in Objs : \A h \in Gens : Crowded(o)' /\ objs'[o].gen = h =>
         \/ Crowded(o) /\ objs[o].gen = h
         \/ NoTerm' => gen'[h].after = None /\ ~Starting(h)'
  BY <1>10, <1>16
<1>18. \A h \in Gens : gen[h].phase # "unused" => gen'[h].phase # "unused"
  BY <1>8
<1> QED BY <1>8, <1>9, <1>11, <1>15, <1>16, <1>17, <1>18, KeepH

LEMMA ConstructedH ==
  ASSUME TypeOK, HInv, Constructed
  PROVE  HInv'
<1>1. \A g \in Gens : (Starting(g)' => Starting(g)) /\ (Loading(g)' => Loading(g))
  BY DEF Constructed, Starting, Loading
<1> QED BY <1>1, StillH DEF Constructed

LEMMA ShutdownH ==
  ASSUME TypeOK, HInv, Shutdown
  PROVE  HInv'
<1>1. \A g \in Gens : (Starting(g)' => Starting(g)) /\ (Loading(g)' => Loading(g))
  BY DEF Shutdown, Starting, Loading
<1>2. \A h \in Gens : /\ gen'[h].term = gen[h].term /\ gen'[h].after = gen[h].after
                      /\ gen'[h].phase = gen[h].phase
                         \/ (gen[h].phase = "new" /\ gen'[h].phase = "gone")
  BY DEF Shutdown, TypeOK, Generations
<1>3. UNCHANGED <<cur, doomed, objs>> /\ objs' \in [Objs -> Objects]
  BY DEF Shutdown, TypeOK
<1> QED BY <1>1, <1>2, <1>3, ServedH

LEMMA HInvHolds ==
  ASSUME ReentersSafely
  PROVE  Spec => [](TypeOK /\ HInv)
<1>1. Init => HInv
  <2> SUFFICES ASSUME Init PROVE HInv
    OBVIOUS
  <2>1. DOMAIN stack = {} /\ cur = None /\ \A o \in Objs : objs[o] = Unborn
    BY DEF Init
  <2>2. Unborn.gen = None
    BY DEF Unborn
  <2> QED BY <2>1, <2>2 DEF HInv, ObjectsMade, LoadsWaitForNone, Loading, LastDoomed,
                            CrowdedIsHard
<1>2. TypeOK /\ PInv /\ SInv /\ HInv /\ [Next]_vars => HInv'
  <2> SUFFICES ASSUME TypeOK, PInv, SInv, HInv, [Next]_vars PROVE HInv'
    OBVIOUS
  <2>1. CASE Construct
    <3>1. stack = <<>> /\ TRUE \in BOOLEAN
      BY <2>1 DEF PInv, Quiet, Construct
    <3> QED BY <2>1, <3>1, ReloadGraphH DEF Construct
  <2>2. CASE Constructed \/ Shutdown
    BY <2>2, ConstructedH, ShutdownH
  <2>3. CASE Continue
    BY <2>3, EnterReloadH, FinishReloadH, SoftReloadedH, HardPostedH, HardReloadedH,
       LeavingH DEF Continue
  <2>4. CASE Qml
    <3>1. ASSUME NEW hard \in Hards, QmlReload(hard) PROVE HInv'
      <4>1. hard \in BOOLEAN
        BY ParameterTypes DEF ParameterTypes
      <4> QED BY <3>1, <4>1, ReloadGraphH DEF QmlReload, QmlRuns
    <3> QED BY <2>4, <3>1, QmlExitH, CreateH DEF Qml
  <2>5. CASE IpcKill \/ DeleteRoot \/ \E o \in Objs : TimerFires(o)
    BY <2>5, IpcKillH, DeleteRootH, TimerFiresH
  <2>6. CASE UNCHANGED vars
    <3>1. \A g \in Gens : (Starting(g)' => Starting(g)) /\ (Loading(g)' => Loading(g))
      BY <2>6 DEF vars, Starting, Loading
    <3> QED BY <2>6, <3>1, StillH DEF vars
  <2> QED BY <2>1, <2>2, <2>3, <2>4, <2>5, <2>6 DEF Next
<1> QED BY <1>1, <1>2, SInvHolds, PTL DEF Spec

\* A hook made while its configuration loaded, by a soft reload, runs when no
\* other configuration's tree is left: whatever reloads fail, follow each other
\* or nest, as long as none is asked for while the wrapper is detached from the
\* generation it replaces.
THEOREM SoftHooksAreAlone ==
  ASSUME ReentersSafely
  PROVE  Spec => []SoftHooksRunAlone
<1>1. HInv => SoftHooksRunAlone
  BY DEF HInv, CrowdedIsHard, SoftHooksRunAlone, NoTerm
<1> QED BY <1>1, HInvHolds, PTL
=============================================================================
