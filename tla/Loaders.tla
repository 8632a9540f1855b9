-------------------------------- MODULE Loaders --------------------------------
(* Objects that are created later than their owners: LazyLoader and           *)
(* BoundComponent, and the QsIncubationController that creates them piece by  *)
(* piece, in the frames of windows or by a timer (src/src/core).  And         *)
(* Variants, with an instance of a component for each value of a list, and    *)
(* what a reload makes of them; a value is an object (entries by key) or not. *)
(* Variants and the others share no state.                                    *)
EXTENDS Naturals, Sequences, FiniteSets, SequencesExt

CONSTANTS
  MaxLoadActs, \* bound: what the configuration does
  Plains,      \* values that are no objects
  Maps,        \* values that are: sets of pairs of a key and a value
  MaxVariants, \* bound: the length of a model
  MaxModels    \* bound: models that are set

VARIABLES
  loader,      \* LazyLoader
  items,       \* objects the loader made that are there
  controller,  \* QsIncubationController
  bound,       \* BoundComponent
  loadActs,    \* bound
  spoiled,     \* history: a load failed, or the component was set when it was wanted at once
  model,       \* Variants: mModel
  instances,   \* mInstances, in their order
  old,         \* the instances of the Variants of the last configuration; empty after the reload
  taken,       \* the old instance each instance was reloaded with; 0 is none
  varLoaded,   \* loaded
  modelActs    \* bound

loaderVars  == <<loader, items, controller, bound, loadActs, spoiled>>
variantVars == <<model, instances, old, taken, varLoaded, modelActs>>

\* A component: there is none, it can be created, or it cannot.
Components == {"none", "good", "bad"}
\* An incubator: there is none, it is at work, or it was deleted and is still pointed to.
Incubates  == loader.incubator \in {"good", "bad"}
Count      == (IF Incubates THEN 1 ELSE 0) + (IF bound.state = "incubating" THEN 1 ELSE 0)

-----------------------------------------------------------------------------
(* QsIncubationController                                                    *)

IncubateLater(c) ==
  IF c.follow THEN [c EXCEPT !.timer = FALSE, !.queued = TRUE] ELSE [c EXCEPT !.timer = TRUE]
\* incubatingObjectCountChanged()
CountChanged(c, count) == IF count > 0 /\ (~c.follow \/ ~c.interleave) THEN IncubateLater(c) ELSE c

\* Mutant: the mode alone is set.
OnlyFollow(c, render) == [c EXCEPT !.follow = render]
\* setIncubationMode(), with the windows that are tracked.
SetIncubationMode(c, render) ==
  LET d == [c EXCEPT !.follow = render] IN
  IF render # c.follow /\ ~render /\ Count > 0 THEN IncubateLater(d) ELSE d

-----------------------------------------------------------------------------
(* LazyLoader                                                                *)

IsActive(l)  == l.item # 0
IsLoading(l) == l.incubator # "none"
State == [l |-> loader, items |-> items, c |-> controller]

\* setItem()
SetItem(s, item) ==
  [s EXCEPT !.items = @ \ {s.l.item}, !.l.item = item, !.l.targetActive = item # 0]

\* The incubator is done: onIncubationCompleted(), onIncubationFailed(), which keeps its pointer.
Completed(s) ==
  LET n == CHOOSE i \in 1..(MaxLoadActs + 2) : i \notin s.items
      t == [SetItem(s, n) EXCEPT !.items = (s.items \ {s.l.item}) \cup {n}]
  IN [t EXCEPT !.l.incubator = "none", !.l.targetLoading = FALSE]
Failed(s)   == [s EXCEPT !.l.incubator = "deleted", !.l.targetLoading = FALSE]
Finished(s) == IF s.l.incubator = "good" THEN Completed(s) ELSE Failed(s)

\* incubateIfReady()
IncubateIfReady(s, ready) ==
  LET l == s.l IN
  IF ~ready \/ ~(l.targetLoading \/ l.targetActive) \/ l.component = "none" \/ IsLoading(l) THEN s
  ELSE IF l.targetActive THEN Finished([s EXCEPT !.l.incubator = l.component])
  ELSE [s EXCEPT !.l.incubator = l.component, !.c = CountChanged(@, 1)]

SetActive(s, active) ==
  LET t == [s EXCEPT !.l.targetActive = active] IN
  IF active = s.l.targetActive THEN s
  ELSE IF active THEN IF IsLoading(t.l) THEN Finished(t)
                      ELSE IF ~IsActive(t.l) THEN IncubateIfReady(t, t.l.loaded) ELSE t
  ELSE IF IsActive(t.l) THEN SetItem(t, 0) ELSE t

SetLoading(s, loading) ==
  LET t == [s EXCEPT !.l.targetLoading = loading] IN
  IF loading = s.l.targetLoading \/ IsActive(s.l) THEN s
  ELSE IF loading THEN IncubateIfReady(t, t.l.loaded)
  ELSE IF IsLoading(t.l) THEN [t EXCEPT !.l.incubator = "none"] ELSE t

SetActiveAsync(s, active) ==
  IF active = (s.l.targetActive \/ s.l.targetLoading) THEN s
  ELSE IF active THEN SetLoading(s, TRUE) ELSE SetActive(s, FALSE)

\* An incubator that was deleted is used.
Broken == loader.incubator = "deleted"
LoaderBecomes(s) == loader' = s.l /\ items' = s.items /\ controller' = s.c
Act == loadActs < MaxLoadActs /\ loadActs' = loadActs + 1

LoaderAct(s) ==
  /\ Act /\ ~Broken /\ LoaderBecomes(s) /\ UNCHANGED bound
  /\ spoiled' = (spoiled \/ s.l.incubator = "deleted")
Activate(v)      == LoaderAct(SetActive(State, v))
ActivateAsync(v) == LoaderAct(SetActiveAsync(State, v))
Load(v)          == LoaderAct(SetLoading(State, v))
\* item(): a load is brought to its end.
ReadItem         == IsLoading(loader) /\ LoaderAct(SetActive(State, TRUE))

\* setComponent(), setSource(): nothing is loaded by it.
SetComponent(c) ==
  /\ Act /\ c # loader.component /\ loader' = [loader EXCEPT !.component = c]
  /\ spoiled' = (spoiled \/ ((loader.targetActive \/ loader.targetLoading) /\ ~IsActive(loader) /\ loader.loaded))
  /\ UNCHANGED <<items, controller, bound>>

\* onReload(): what the old loader had is there at once.
OnReload(hadOld) ==
  /\ ~loader.loaded /\ ~Broken
  /\ LET s == IncubateIfReady(State, TRUE)
         t == IF hadOld /\ IsLoading(s.l) /\ s.l.incubator # "deleted" THEN Finished(s) ELSE s
     IN /\ LoaderBecomes([t EXCEPT !.l.loaded = TRUE]) /\ spoiled' = (spoiled \/ t.l.incubator = "deleted")
  /\ UNCHANGED <<bound, loadActs>>

-----------------------------------------------------------------------------
(* BoundComponent: its object gets the properties of its owner.  It is made   *)
(* at once, or, within an asynchronous load, piece by piece.                  *)

Bind(b) == [b EXCEPT !.state = "loaded", !.inner = IF b.binds THEN b.outer ELSE b.initial]
CreateBound(nested, binds) ==
  /\ bound.state = "none"
  /\ LET b == [bound EXCEPT !.initial = bound.outer, !.binds = binds]
     IN IF nested THEN /\ bound' = [b EXCEPT !.state = "incubating"]
                       /\ controller' = CountChanged(controller, Count + 1)
                  ELSE bound' = Bind(b) /\ UNCHANGED controller
  /\ UNCHANGED <<loader, items, loadActs, spoiled>>
\* A property of the owner changes; a proxy tells the object.
SetOuter ==
  /\ Act /\ bound' = [bound EXCEPT !.outer = 1 - @,
                                   !.inner = IF bound.state = "loaded" /\ bound.binds THEN 1 - bound.outer ELSE @]
  /\ UNCHANGED <<loader, items, controller, spoiled>>

-----------------------------------------------------------------------------
(* Incubation, for some time, which may be enough for one or both            *)

\* incubate(), after which it is called again if there is more and nobody else calls.
Incubate(c, l, b) ==
  LET s    == IF l THEN Finished([State EXCEPT !.c = c]) ELSE [State EXCEPT !.c = c]
      left == Count - (IF l THEN 1 ELSE 0) - (IF b THEN 1 ELSE 0)
  IN /\ (l => Incubates) /\ (b => bound.state = "incubating")
     /\ LoaderBecomes([s EXCEPT !.c = IF left > 0 /\ (~c.follow \/ ~c.interleave) THEN IncubateLater(c) ELSE c])
     /\ bound' = IF b THEN Bind(bound) ELSE bound
     /\ spoiled' = (spoiled \/ s.l.incubator = "deleted")
     /\ UNCHANGED loadActs
TimerFires(l, b)       == controller.timer /\ Incubate([controller EXCEPT !.timer = FALSE], l, b)
QueuedCall(l, b)       == controller.queued /\ Incubate([controller EXCEPT !.queued = FALSE], l, b)
\* A frame of a tracked window, where the render loop leaves time for it.
TimeToIncubate(l, b)   == controller.follow /\ controller.interleave /\ Count > 0 /\ Incubate(controller, l, b)

\* The first window comes, or the last goes.
WindowsTracked(render) ==
  /\ Act /\ render # controller.follow /\ controller' = SetIncubationMode(controller, render)
  /\ UNCHANGED <<loader, items, bound, spoiled>>

Init ==
  /\ \E c \in Components :
       loader = [targetLoading |-> FALSE, targetActive |-> FALSE, item |-> 0, component |-> c,
                 incubator |-> "none", loaded |-> FALSE]
  /\ items = {} /\ loadActs = 0 /\ spoiled = FALSE
  /\ \E i \in BOOLEAN : controller = [follow |-> FALSE, interleave |-> i, timer |-> FALSE, queued |-> FALSE]
  /\ bound = [state |-> "none", outer |-> 0, initial |-> 0, inner |-> 0, binds |-> FALSE]

Next ==
  \/ \E v \in BOOLEAN : Activate(v) \/ ActivateAsync(v) \/ Load(v) \/ OnReload(v) \/ WindowsTracked(v)
  \/ \E c \in Components : SetComponent(c)
  \/ \E l, b \in BOOLEAN : CreateBound(l, b) \/ TimerFires(l, b) \/ QueuedCall(l, b) \/ TimeToIncubate(l, b)
  \/ ReadItem \/ SetOuter

-----------------------------------------------------------------------------
\* The loader has the one item it made, when it is wanted; one that is wanted at once is
\* there, unless its load failed or its component came too late (lazyloader.cpp:51, :76,
\* :158, :180); an object is as its owner (boundcomponent.cpp:152).
LoaderHolds ==
  /\ items = IF IsActive(loader) THEN {loader.item} ELSE {}
  /\ IsActive(loader) => loader.targetActive /\ ~loader.targetLoading
  /\ ~spoiled => /\ loader.targetActive /\ loader.loaded /\ loader.component # "none" => IsActive(loader)
                 /\ loader.targetLoading /\ loader.loaded /\ loader.component # "none" => IsActive(loader) \/ Incubates
  /\ bound.state = "loaded" => bound.inner = IF bound.binds THEN bound.outer ELSE bound.initial

\* While there is something to incubate it will be: by a timer, a call or the frames
\* (incubator.cpp:79, :88, :104, :120).
NeverStranded ==
  Count > 0 => controller.timer \/ controller.queued \/ (controller.follow /\ controller.interleave)

-----------------------------------------------------------------------------
(* Variants                                                                  *)

Values  == Plains \cup Maps
Models  == SeqOf(Values, MaxVariants)
Objects == 1..(MaxVariants * (MaxModels + 1))
Pair(v, o) == [value |-> v, obj |-> o]
Of(list) == {list[i].value : i \in DOMAIN list}

\* updateVariants(): instances of values that are gone go, and new values get theirs at the end.
StillListed(list, m) == SelectSeq(list, LAMBDA p : p.value \in ToSet(m))
\* A component that cannot be created is left out.
UpdateVariants(list, m, fails) ==
  LET Add(l, v) ==
        IF v \in Of(l) \/ v \in fails THEN l
        ELSE Append(l, Pair(v, CHOOSE o \in Objects : o \notin {l[i].obj : i \in DOMAIN l} \cup {list[i].obj : i \in DOMAIN list}))
  IN FoldLeft(Add, StillListed(list, m), m)

\* onReload(): entries that two objects share, and where the first with the most is counted,
\* by the old values that are objects.
Shared(v, w) == Cardinality(v \cap w)
OldMaps(list) == SelectSeq(list, LAMBDA p : p.value \in Maps)
BestMap(list, v) ==
  LET maps == OldMaps(list)
      best == {i \in DOMAIN maps : \A j \in DOMAIN maps : Shared(v, maps[i].value) >= Shared(v, maps[j].value)}
  IN IF maps = <<>> \/ Shared(v, maps[CHOOSE i \in best : TRUE].value) = 0 THEN 0
     ELSE CHOOSE i \in best : \A j \in best : i <= j
EqualPlain(list, v) ==
  LET same == {i \in DOMAIN list : list[i].value = v} IN IF same = {} THEN 0 ELSE CHOOSE i \in same : \A j \in same : i <= j
Match(list, v) == IF v \in Maps THEN BestMap(list, v) ELSE EqualPlain(list, v)
\* Each takes its own, and leaves the rest to those behind it.
TakeEach(now, before) ==
  FoldLeft(LAMBDA s, p : LET i == Match(s.left, p.value) IN
                         IF i = 0 THEN [s EXCEPT !.got = Append(@, 0)]
                         ELSE [got |-> Append(s.got, s.left[i].obj), left |-> RemoveAt(s.left, i)],
           [got |-> <<>>, left |-> before], now)

-----------------------------------------------------------------------------
\* setModel(), also before the reload; and componentComplete().
SetModel(m, fails) ==
  /\ modelActs < MaxModels /\ modelActs' = modelActs + 1
  /\ model' = m /\ instances' = UpdateVariants(instances, m, fails)
  /\ UNCHANGED <<old, taken, varLoaded>>

OnReloadVariants ==
  /\ ~varLoaded /\ varLoaded' = TRUE
  /\ taken' = TakeEach(instances, old).got
  /\ UNCHANGED <<model, instances, old, modelActs>>

\* The next configuration: the Variants that was is the old one.
NextConfiguration ==
  /\ varLoaded /\ modelActs < MaxModels /\ old = <<>>
  /\ old' = instances /\ instances' = <<>> /\ model' = <<>> /\ taken' = <<>> /\ varLoaded' = FALSE
  /\ UNCHANGED modelActs

InitVariants == model = <<>> /\ instances = <<>> /\ old = <<>> /\ taken = <<>> /\ varLoaded = FALSE /\ modelActs = 0

NextVariants ==
  \/ \E m \in Models, fails \in {{}, Maps} : SetModel(m, fails)
  \/ OnReloadVariants \/ NextConfiguration

-----------------------------------------------------------------------------
\* There is one instance for each value of the model, whichever models were before, but for
\* those that could not be made.
VariantsHold ==
  /\ Of(instances) \subseteq ToSet(model) /\ ToSet(model) \cap Plains \subseteq Of(instances)
  /\ \A i, j \in DOMAIN instances :
       instances[i].value = instances[j].value \/ instances[i].obj = instances[j].obj => i = j

\* A reload hands no old instance to two; and, unless old values are of both kinds, to each
\* one of a value with the most in common of those that are left, or of its own.
ReloadMatches ==
  varLoaded /\ taken # <<>> /\ Len(taken) = Len(instances) =>
    /\ \A i, j \in DOMAIN taken : taken[i] = taken[j] /\ taken[i] # 0 => i = j
    /\ (Of(old) \subseteq Maps \/ Of(old) \subseteq Plains) /\ modelActs <= 2 =>
         \A i \in DOMAIN taken :
           LET left == {k \in DOMAIN old : \A j \in 1..(i - 1) : taken[j] # old[k].obj}
               v    == instances[i].value
               Mine(k) == IF v \in Maps THEN IF old[k].value \in Maps THEN Shared(v, old[k].value) ELSE 0
                          ELSE IF old[k].value = v THEN 1 ELSE 0
           IN IF taken[i] = 0 THEN \A k \in left : Mine(k) = 0
              ELSE \E k \in left : old[k].obj = taken[i] /\ Mine(k) > 0 /\ \A l \in left : Mine(k) >= Mine(l)
==============================================================================
