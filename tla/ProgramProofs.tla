---------------------------- MODULE ProgramProofs ---------------------------
(* Theorems about the parts of the shell that work among themselves: loaders,  *)
(* objects that are retained, the registry of handlers, the files that are     *)
(* watched and the processes of instances (src/src/core, src/src/launch,       *)
(* src/src/io/ipchandler.cpp), for any of the constants.                       *)
EXTENDS ProgramMC, FiniteSetTheorems, SequenceTheorems, WellFoundedInduction, TLAPS

-----------------------------------------------------------------------------
(* Loaders                                                                   *)

LEMMA LoaderSteps == Spec => Loader!Init /\ [][Loader!Next]_(Loader!loaderVars)
<1>1. Init => Loader!Init
  BY DEF Init
<1>2. [Next]_vars => [Loader!Next]_(Loader!loaderVars)
  BY DEF Next, Parts, vars, loaderVars, Loader!loaderVars
<1> QED BY <1>1, <1>2, PTL DEF Spec

AnyLoader == [targetLoading : BOOLEAN, targetActive : BOOLEAN, item : Nat, component : {"none", "good", "bad"},
              incubator : {"none", "good", "bad", "deleted"}, loaded : BOOLEAN]
AnyController == [follow : BOOLEAN, interleave : BOOLEAN, timer : BOOLEAN, queued : BOOLEAN]
AnyState == [l : AnyLoader, items : SUBSET Nat, c : AnyController]
AnyBound == [state : {"none", "incubating", "loaded"}, outer : Int, initial : Int, inner : Int, binds : BOOLEAN]

\* The item is the one there is, of a loader that is wanted; what incubates has none yet, and nobody needs
\* it at once; and nothing begins before the loader is loaded.
HasItem(s) ==
  /\ s \in AnyState
  /\ s.items = IF s.l.item # 0 THEN {s.l.item} ELSE {}
  /\ s.l.item # 0 => s.l.targetActive /\ ~s.l.targetLoading
  /\ s.l.incubator \in {"good", "bad"} => s.l.targetLoading /\ ~s.l.targetActive /\ s.l.item = 0
Unbegun(s) == ~s.l.loaded => s.l.item = 0 /\ s.l.incubator = "none"
\* What is wanted is there, or is made.
Wishes(l) ==
  /\ l.targetActive => l.item # 0
  /\ l.targetLoading => l.item # 0 \/ l.incubator \in {"good", "bad"}
Served(s) == s.l.loaded /\ s.l.component # "none" => Wishes(s.l)
\* An object that is bound is as its owner.
BoundIs(b) == b \in AnyBound /\ (b.state = "loaded" => b.inner = IF b.binds THEN b.outer ELSE b.initial)

LoaderInv ==
  /\ HasItem(Loader!State) /\ Unbegun(Loader!State) /\ spoiled \in BOOLEAN
  /\ loader.incubator = "deleted" => spoiled
  /\ ~spoiled => Served(Loader!State)
  /\ BoundIs(bound)

\* What becomes of a loader by a step that starts at s.
Goes(r, s) ==
  /\ HasItem(r) /\ r.l.component = s.l.component /\ r.l.loaded = s.l.loaded

\* The end of an incubation.
LEMMA FinishedIs ==
  ASSUME NEW s \in AnyState, s.items = {}, s.l.item = 0, s.l.incubator \in {"good", "bad"}
  PROVE  Goes(Loader!Finished(s), s) /\ (Wishes(Loader!Finished(s).l) \/ Loader!Finished(s).l.incubator = "deleted")
<1> DEFINE n == CHOOSE i \in 1..(MaxLoadActs + 2) : i \notin s.items
<1>1. n \in Nat /\ n # 0
  <2>1. 1 \in 1..(MaxLoadActs + 2)
    BY LoadsAreCounted
  <2>2. \E i \in 1..(MaxLoadActs + 2) : i \notin s.items
    BY <2>1
  <2>3. n \in 1..(MaxLoadActs + 2)
    BY <2>2
  <2> QED BY <2>3, LoadsAreCounted
<1> HIDE DEF n
<1>2. s.l \in AnyLoader /\ s.c \in AnyController
  BY DEF AnyState
<1>3. CASE s.l.incubator = "good"
  <2> DEFINE l == [targetLoading |-> FALSE, targetActive |-> TRUE, item |-> n, component |-> s.l.component,
                   incubator |-> "none", loaded |-> s.l.loaded]
             r == [l |-> l, items |-> {n}, c |-> s.c]
  <2>1. Loader!Finished(s) = r
    BY <1>1, <1>2, <1>3 DEF Loader!Finished, Loader!Completed, Loader!SetItem, AnyState, AnyLoader, n
  <2>2. r \in AnyState
    BY <1>1, <1>2 DEF AnyState, AnyLoader
  <2>3. Goes(r, s) /\ Wishes(r.l)
    BY <1>1, <2>2 DEF Goes, HasItem, Wishes
  <2> QED BY <2>1, <2>3
<1>4. CASE s.l.incubator # "good"
  <2> DEFINE l == [targetLoading |-> FALSE, targetActive |-> s.l.targetActive, item |-> 0, component |-> s.l.component,
                   incubator |-> "deleted", loaded |-> s.l.loaded]
             r == [l |-> l, items |-> {}, c |-> s.c]
  <2>1. Loader!Finished(s) = r
    BY <1>2, <1>4 DEF Loader!Finished, Loader!Failed, AnyState, AnyLoader
  <2>2. r \in AnyState
    BY <1>2 DEF AnyState, AnyLoader
  <2>3. Goes(r, s) /\ r.l.incubator = "deleted"
    BY <2>2 DEF Goes, HasItem
  <2> QED BY <2>1, <2>3
<1> QED BY <1>3, <1>4

\* incubateIfReady() of a loader without an item.
LEMMA IncubateIfReadyIs ==
  ASSUME NEW s, HasItem(s), s.l.item = 0, s.l.incubator # "deleted", NEW ready \in BOOLEAN
  PROVE  LET r == Loader!IncubateIfReady(s, ready) IN
         /\ Goes(r, s)
         /\ ready /\ s.l.component # "none" => Wishes(r.l) \/ r.l.incubator = "deleted"
         /\ ~ready => r = s
<1> DEFINE r == Loader!IncubateIfReady(s, ready)
<1>1. s \in AnyState /\ s.l \in AnyLoader /\ s.c \in AnyController /\ s.items = {}
  BY DEF HasItem, AnyState
<1>2. CASE ~ready \/ ~(s.l.targetLoading \/ s.l.targetActive) \/ s.l.component = "none" \/ s.l.incubator # "none"
  <2>1. r = s
    BY <1>2 DEF Loader!IncubateIfReady, Loader!IsLoading
  <2>2. s.l.incubator # "none" => s.l.incubator \in {"good", "bad"}
    BY <1>1 DEF AnyLoader
  <2>3. ready /\ s.l.component # "none" => Wishes(s.l)
    BY <1>2, <2>2 DEF HasItem, Wishes
  <2> QED BY <2>1, <2>3 DEF Goes
<1>3. CASE ready /\ s.l.component # "none" /\ s.l.incubator = "none" /\ s.l.targetActive
  <2> DEFINE t == [s EXCEPT !.l.incubator = s.l.component]
  <2>1. r = Loader!Finished(t)
    BY <1>3 DEF Loader!IncubateIfReady, Loader!IsLoading
  <2>2. t \in AnyState /\ t.items = {} /\ t.l.item = 0 /\ t.l.incubator \in {"good", "bad"}
        /\ t.l.component = s.l.component /\ t.l.loaded = s.l.loaded
    BY <1>1, <1>3 DEF AnyState, AnyLoader
  <2> HIDE DEF t
  <2>3. Goes(r, t) /\ (Wishes(r.l) \/ r.l.incubator = "deleted")
    BY <2>1, <2>2, FinishedIs
  <2> HIDE DEF r
  <2> QED BY <1>3, <2>2, <2>3 DEF Goes, r
<1>4. CASE ready /\ s.l.component # "none" /\ s.l.incubator = "none" /\ ~s.l.targetActive /\ s.l.targetLoading
  <2>1. PICK k \in AnyController : k = Loader!CountChanged(s.c, 1)
    BY <1>1 DEF Loader!CountChanged, Loader!IncubateLater, AnyController
  <2> DEFINE t == [s EXCEPT !.l.incubator = s.l.component, !.c = k]
  <2>2. r = t
    BY <1>3, <1>4, <2>1 DEF Loader!IncubateIfReady, Loader!IsLoading
  <2>3. t \in AnyState /\ t.items = {} /\ t.l.item = 0 /\ t.l.incubator \in {"good", "bad"}
        /\ t.l.targetLoading /\ ~t.l.targetActive
        /\ t.l.component = s.l.component /\ t.l.loaded = s.l.loaded
    BY <1>1, <1>4 DEF AnyState, AnyLoader
  <2> HIDE DEF t
  <2>4. Goes(t, s) /\ Wishes(t.l)
    BY <2>3 DEF Goes, HasItem, Wishes
  <2> QED BY <1>4, <2>2, <2>4
<1> HIDE DEF r
<1> QED BY <1>2, <1>3, <1>4 DEF r

\* The properties.
LEMMA SetActiveIs ==
  ASSUME NEW s, HasItem(s), Unbegun(s), s.l.incubator # "deleted", NEW v \in BOOLEAN
  PROVE  LET r == Loader!SetActive(s, v) IN
         Goes(r, s) /\ Unbegun(r) /\ (Served(s) => Served(r) \/ r.l.incubator = "deleted")
<1> DEFINE r == Loader!SetActive(s, v)
           t == [s EXCEPT !.l.targetActive = v]
<1>1. s \in AnyState /\ s.l \in AnyLoader /\ s.c \in AnyController
  BY DEF HasItem, AnyState
<1>2. t \in AnyState /\ t.items = s.items /\ t.l.item = s.l.item /\ t.l.incubator = s.l.incubator /\ t.l.targetActive = v
      /\ t.l.component = s.l.component /\ t.l.loaded = s.l.loaded /\ t.l.targetLoading = s.l.targetLoading
  BY <1>1 DEF AnyState, AnyLoader
<1>3. CASE v = s.l.targetActive
  <2>1. r = s
    BY <1>3 DEF Loader!SetActive
  <2> QED BY <2>1 DEF Goes
<1>4. CASE v # s.l.targetActive /\ v /\ s.l.incubator # "none"
  <2>1. r = Loader!Finished(t)
    BY <1>2, <1>4 DEF Loader!SetActive, Loader!IsLoading
  <2> HIDE DEF t
  <2>2. s.l.incubator \in {"good", "bad"} /\ s.l.item = 0 /\ s.items = {} /\ s.l.loaded
    BY <1>1, <1>4 DEF HasItem, AnyLoader, Unbegun
  <2>3. Goes(r, t) /\ (Wishes(r.l) \/ r.l.incubator = "deleted")
    BY <1>2, <2>1, <2>2, FinishedIs
  <2> HIDE DEF r
  <2> QED BY <1>2, <2>2, <2>3 DEF Goes, Unbegun, Served, r
<1>5. CASE v # s.l.targetActive /\ v /\ s.l.incubator = "none"
  <2>1. s.l.item = 0
    BY <1>5 DEF HasItem
  <2>2. r = Loader!IncubateIfReady(t, t.l.loaded)
    BY <1>2, <1>5, <2>1 DEF Loader!SetActive, Loader!IsLoading, Loader!IsActive
  <2> HIDE DEF t
  <2>3. HasItem(t)
    BY <1>2, <1>5, <2>1 DEF HasItem
  <2>4. t.l.loaded \in BOOLEAN
    BY <1>1, <1>2 DEF AnyLoader
  <2>5. /\ Goes(r, t)
        /\ t.l.loaded /\ t.l.component # "none" => Wishes(r.l) \/ r.l.incubator = "deleted"
        /\ ~t.l.loaded => r = t
    BY <1>2, <1>5, <2>1, <2>2, <2>3, <2>4, IncubateIfReadyIs
  <2> HIDE DEF r
  <2> QED BY <1>2, <2>1, <2>5, <1>5 DEF Goes, Unbegun, Served, r
<1>6. CASE v # s.l.targetActive /\ ~v /\ s.l.item # 0
  <2> DEFINE x == [targetLoading |-> s.l.targetLoading, targetActive |-> v, item |-> s.l.item, component |-> s.l.component,
                   incubator |-> s.l.incubator, loaded |-> s.l.loaded]
             y == [l |-> x, items |-> s.items, c |-> s.c]
             none == 0 # 0
             w == [x EXCEPT !.item = 0]
             z == [l |-> [w EXCEPT !.targetActive = none], items |-> {}, c |-> s.c]
  <2>1. t = y
    BY <1>1 DEF AnyState, AnyLoader
  <2>2. y.items \ {y.l.item} = {}
    BY <1>6 DEF HasItem
  <2>3. none \in BOOLEAN /\ ~none
    OBVIOUS
  <2>4. r = Loader!SetItem(y, 0)
    BY <1>2, <1>6, <2>1 DEF Loader!SetActive, Loader!IsActive
  <2>5. Loader!SetItem(y, 0) = [y EXCEPT !.items = {}, !.l.item = 0, !.l.targetActive = none]
    BY <2>2 DEF Loader!SetItem
  <2> HIDE DEF none, r, t
  <2>6. [y EXCEPT !.items = {}, !.l.item = 0, !.l.targetActive = none] = z
    <3>1. [y EXCEPT !.items = {}] = [l |-> x, items |-> {}, c |-> s.c]
      OBVIOUS
    <3>2. [[l |-> x, items |-> {}, c |-> s.c] EXCEPT !.l.item = 0] = [l |-> w, items |-> {}, c |-> s.c]
      OBVIOUS
    <3>3. [[l |-> w, items |-> {}, c |-> s.c] EXCEPT !.l.targetActive = none] = z
      OBVIOUS
    <3>4. [y EXCEPT !.items = {}, !.l.item = 0, !.l.targetActive = none]
          = [[[y EXCEPT !.items = {}] EXCEPT !.l.item = 0] EXCEPT !.l.targetActive = none]
      OBVIOUS
    <3> HIDE DEF y, x, w, z
    <3> QED BY <3>1, <3>2, <3>3, <3>4
  <2>7. /\ z \in AnyState /\ z.items = {} /\ z.l.item = 0 /\ z.l.incubator = s.l.incubator /\ ~z.l.targetActive
        /\ z.l.component = s.l.component /\ z.l.loaded = s.l.loaded /\ z.l.targetLoading = s.l.targetLoading
    BY <1>1, <2>3 DEF AnyState, AnyLoader
  <2>8. r = z
    BY <2>4, <2>5, <2>6
  <2> HIDE DEF z
  <2>9. Goes(z, s) /\ Unbegun(z) /\ Wishes(z.l)
    BY <1>6, <2>7 DEF Goes, HasItem, Unbegun, Wishes
  <2> QED BY <2>8, <2>9 DEF Served, r
<1>7. CASE v # s.l.targetActive /\ ~v /\ s.l.item = 0
  <2>1. r = t
    BY <1>2, <1>7 DEF Loader!SetActive, Loader!IsActive
  <2> HIDE DEF t
  <2>2. Goes(t, s) /\ Unbegun(t)
    BY <1>2, <1>7 DEF Goes, HasItem, Unbegun
  <2>3. Served(s) => Served(t)
    BY <1>2, <1>7 DEF Served, Wishes
  <2> QED BY <2>1, <2>2, <2>3
<1> HIDE DEF r, t
<1> QED BY <1>3, <1>4, <1>5, <1>6, <1>7 DEF r

LEMMA SetLoadingIs ==
  ASSUME NEW s, HasItem(s), Unbegun(s), s.l.incubator # "deleted", NEW v \in BOOLEAN
  PROVE  LET r == Loader!SetLoading(s, v) IN
         Goes(r, s) /\ Unbegun(r) /\ (Served(s) => Served(r) \/ r.l.incubator = "deleted")
<1> DEFINE r == Loader!SetLoading(s, v)
           t == [s EXCEPT !.l.targetLoading = v]
<1>1. s \in AnyState /\ s.l \in AnyLoader /\ s.c \in AnyController
  BY DEF HasItem, AnyState
<1>2. t \in AnyState /\ t.items = s.items /\ t.l.item = s.l.item /\ t.l.incubator = s.l.incubator /\ t.l.targetLoading = v
      /\ t.l.component = s.l.component /\ t.l.loaded = s.l.loaded /\ t.l.targetActive = s.l.targetActive
  BY <1>1 DEF AnyState, AnyLoader
<1>3. CASE v = s.l.targetLoading \/ s.l.item # 0
  <2>1. r = s
    BY <1>3 DEF Loader!SetLoading, Loader!IsActive
  <2> QED BY <2>1 DEF Goes
<1>4. CASE v # s.l.targetLoading /\ s.l.item = 0 /\ v
  <2>1. r = Loader!IncubateIfReady(t, t.l.loaded)
    BY <1>4 DEF Loader!SetLoading, Loader!IsActive
  <2> HIDE DEF t
  <2>2. HasItem(t)
    BY <1>2, <1>4 DEF HasItem
  <2>3. t.l.loaded \in BOOLEAN
    BY <1>1, <1>2 DEF AnyLoader
  <2>4. /\ Goes(r, t)
        /\ t.l.loaded /\ t.l.component # "none" => Wishes(r.l) \/ r.l.incubator = "deleted"
        /\ ~t.l.loaded => r = t
    BY <1>2, <1>4, <2>1, <2>2, <2>3, IncubateIfReadyIs
  <2> HIDE DEF r
  <2> QED BY <1>2, <1>4, <2>4 DEF Goes, Unbegun, Served, r
<1>5. CASE v # s.l.targetLoading /\ s.l.item = 0 /\ ~v
  <2> DEFINE u == IF s.l.incubator # "none" THEN [t EXCEPT !.l.incubator = "none"] ELSE t
  <2>1. r = u
    BY <1>2, <1>5 DEF Loader!SetLoading, Loader!IsActive, Loader!IsLoading
  <2> HIDE DEF t
  <2>2. u \in AnyState /\ u.items = s.items /\ u.l.item = s.l.item /\ u.l.incubator = "none" /\ u.l.targetLoading = v
        /\ u.l.component = s.l.component /\ u.l.loaded = s.l.loaded /\ u.l.targetActive = s.l.targetActive
    BY <1>2 DEF AnyState, AnyLoader
  <2> HIDE DEF u
  <2>3. Goes(u, s) /\ Unbegun(u)
    BY <1>5, <2>2 DEF Goes, HasItem, Unbegun
  <2>4. Served(s) => Served(u)
    BY <1>5, <2>2 DEF Served, Wishes
  <2> QED BY <2>1, <2>3, <2>4
<1> HIDE DEF r, t
<1> QED BY <1>3, <1>4, <1>5 DEF r

LEMMA SetActiveAsyncIs ==
  ASSUME NEW s, HasItem(s), Unbegun(s), s.l.incubator # "deleted", NEW v \in BOOLEAN
  PROVE  LET r == Loader!SetActiveAsync(s, v) IN
         Goes(r, s) /\ Unbegun(r) /\ (Served(s) => Served(r) \/ r.l.incubator = "deleted")
<1> DEFINE r == Loader!SetActiveAsync(s, v)
<1>1. r = s \/ r = Loader!SetLoading(s, TRUE) \/ r = Loader!SetActive(s, FALSE)
  BY DEF Loader!SetActiveAsync
<1>2. Goes(s, s)
  BY DEF Goes
<1> HIDE DEF r
<1>3. Goes(r, s) /\ Unbegun(r) /\ (Served(s) => Served(r) \/ r.l.incubator = "deleted")
  BY <1>1, <1>2, SetLoadingIs, SetActiveIs
<1> QED BY <1>3 DEF r

-----------------------------------------------------------------------------
(* Steps of a loader                                                         *)

LEMMA LoaderStep ==
  ASSUME LoaderInv, NEW r, HasItem(r), Unbegun(r), Loader!LoaderBecomes(r), BoundIs(bound'),
         spoiled' = (spoiled \/ r.l.incubator = "deleted"),
         Served(Loader!State) => Served(r) \/ r.l.incubator = "deleted"
  PROVE  LoaderInv'
<1>1. Loader!State' = r /\ loader' = r.l
  BY DEF Loader!LoaderBecomes, Loader!State, HasItem, AnyState
<1>2. spoiled' \in BOOLEAN /\ (r.l.incubator = "deleted" => spoiled') /\ (~spoiled' => ~spoiled /\ r.l.incubator # "deleted")
  OBVIOUS
<1>3. ~spoiled' => Served(r)
  BY <1>2 DEF LoaderInv
<1> QED BY <1>1, <1>2, <1>3 DEF LoaderInv

\* The configuration's steps, which nobody takes with an incubator that was deleted.
LEMMA LoaderActKeeps ==
  ASSUME LoaderInv, NEW v \in BOOLEAN,
         Loader!Activate(v) \/ Loader!ActivateAsync(v) \/ Loader!Load(v) \/ Loader!ReadItem
  PROVE  LoaderInv'
<1> DEFINE s == Loader!State
<1>1. PICK r : /\ r = Loader!SetActive(s, v) \/ r = Loader!SetActiveAsync(s, v) \/ r = Loader!SetLoading(s, v)
                  \/ r = Loader!SetActive(s, TRUE)
               /\ Loader!LoaderAct(r)
  BY DEF Loader!Activate, Loader!ActivateAsync, Loader!Load, Loader!ReadItem
<1>2. HasItem(s) /\ Unbegun(s) /\ BoundIs(bound)
  BY DEF LoaderInv
<1>3. s.l.incubator # "deleted"
  BY <1>1 DEF Loader!LoaderAct, Loader!Broken, Loader!State
<1> HIDE DEF s
<1>4. Goes(r, s) /\ Unbegun(r) /\ (Served(s) => Served(r) \/ r.l.incubator = "deleted")
  <2>1. CASE \E w \in BOOLEAN : r = Loader!SetActive(s, w)
    BY <1>2, <1>3, <2>1, SetActiveIs
  <2>2. CASE r = Loader!SetActiveAsync(s, v)
    BY <1>2, <1>3, <2>2, SetActiveAsyncIs
  <2>3. CASE r = Loader!SetLoading(s, v)
    BY <1>2, <1>3, <2>3, SetLoadingIs
  <2> QED BY <1>1, <2>1, <2>2, <2>3
<1>5. Loader!LoaderBecomes(r) /\ bound' = bound /\ spoiled' = (spoiled \/ r.l.incubator = "deleted")
  BY <1>1 DEF Loader!LoaderAct
<1>6. HasItem(r)
  BY <1>4 DEF Goes
<1>7. Served(Loader!State) => Served(r) \/ r.l.incubator = "deleted"
  BY <1>4 DEF s
<1>8. BoundIs(bound')
  BY <1>2, <1>5
<1> QED BY <1>4, <1>5, <1>6, <1>7, <1>8, LoaderStep

LEMMA SetComponentKeeps ==
  ASSUME LoaderInv, NEW c \in Loader!Components, Loader!SetComponent(c)
  PROVE  LoaderInv'
<1> DEFINE s == Loader!State
           r == [l |-> [loader EXCEPT !.component = c], items |-> items, c |-> controller]
           late == (loader.targetActive \/ loader.targetLoading) /\ ~Loader!IsActive(loader) /\ loader.loaded
<1>1. loader' = r.l /\ items' = items /\ controller' = controller /\ bound' = bound /\ spoiled' = (spoiled \/ late)
  BY DEF Loader!SetComponent
<1>2. HasItem(s) /\ Unbegun(s) /\ s = [l |-> loader, items |-> items, c |-> controller]
  BY DEF LoaderInv, Loader!State
<1>3. loader \in AnyLoader /\ controller \in AnyController /\ items \in SUBSET Nat
  BY <1>2 DEF HasItem, AnyState
<1>4. r.l = [loader EXCEPT !.component = c] /\ r.items = items /\ r.c = controller
  OBVIOUS
<1>5. /\ r.l \in AnyLoader /\ r.l.targetLoading = loader.targetLoading /\ r.l.targetActive = loader.targetActive
      /\ r.l.item = loader.item /\ r.l.incubator = loader.incubator /\ r.l.loaded = loader.loaded
  BY <1>3, <1>4 DEF AnyLoader, Loader!Components
<1>6. r \in AnyState
  BY <1>3, <1>4, <1>5 DEF AnyState
<1>7. Loader!State' = r
  BY <1>1, <1>4 DEF Loader!State
<1> HIDE DEF r, s
<1>8. HasItem(r) /\ Unbegun(r)
  BY <1>2, <1>4, <1>5, <1>6 DEF HasItem, Unbegun
<1>9. ~late => Served(r)
  BY <1>2, <1>4, <1>5, <1>8 DEF Served, Wishes, HasItem, Loader!IsActive
<1>10. spoiled' \in BOOLEAN /\ (~spoiled' => ~late) /\ (spoiled => spoiled')
  BY <1>1
<1> HIDE DEF late
<1>11. loader'.incubator = "deleted" => spoiled'
  BY <1>1, <1>5, <1>10 DEF LoaderInv
<1>12. BoundIs(bound')
  BY <1>1 DEF LoaderInv
<1> QED BY <1>7, <1>8, <1>9, <1>10, <1>11, <1>12 DEF LoaderInv

LEMMA OnReloadKeeps ==
  ASSUME LoaderInv, NEW v \in BOOLEAN, Loader!OnReload(v)
  PROVE  LoaderInv'
<1> DEFINE q == Loader!State
           s == Loader!IncubateIfReady(q, TRUE)
           t == IF v /\ Loader!IsLoading(s.l) /\ s.l.incubator # "deleted" THEN Loader!Finished(s) ELSE s
           r == [t EXCEPT !.l.loaded = TRUE]
<1>1. Loader!LoaderBecomes(r) /\ spoiled' = (spoiled \/ t.l.incubator = "deleted") /\ bound' = bound
  BY DEF Loader!OnReload
<1>2. HasItem(q) /\ Unbegun(q) /\ BoundIs(bound)
  BY DEF LoaderInv
<1>3. q.l.loaded = FALSE /\ q.l.item = 0 /\ q.l.incubator = "none"
  <2>1. q.l = loader /\ ~loader.loaded
    BY DEF Loader!State, Loader!OnReload
  <2> HIDE DEF q
  <2> QED BY <1>2, <2>1 DEF Unbegun, HasItem, AnyState, AnyLoader
<1> HIDE DEF q
<1>4. Goes(s, q) /\ (q.l.component # "none" => Wishes(s.l) \/ s.l.incubator = "deleted")
  BY <1>2, <1>3, IncubateIfReadyIs
<1> HIDE DEF s
<1>5. Goes(t, q) /\ (q.l.component # "none" => Wishes(t.l) \/ t.l.incubator = "deleted")
  <2>1. CASE v /\ Loader!IsLoading(s.l) /\ s.l.incubator # "deleted"
    <3>1. s \in AnyState /\ s.l.incubator \in {"good", "bad"} /\ s.items = {} /\ s.l.item = 0
      BY <1>4, <2>1 DEF Goes, HasItem, Loader!IsLoading, AnyState, AnyLoader
    <3>2. Goes(Loader!Finished(s), s) /\ (Wishes(Loader!Finished(s).l) \/ Loader!Finished(s).l.incubator = "deleted")
      BY <3>1, FinishedIs
    <3>3. t = Loader!Finished(s)
      BY <2>1
    <3> HIDE DEF t
    <3> QED BY <1>4, <3>2, <3>3 DEF Goes
  <2>2. CASE ~(v /\ Loader!IsLoading(s.l) /\ s.l.incubator # "deleted")
    BY <1>4, <2>2
  <2> HIDE DEF t
  <2> QED BY <2>1, <2>2
<1> HIDE DEF t
<1>6. t \in AnyState /\ t.l \in AnyLoader
  BY <1>5 DEF Goes, HasItem, AnyState
<1>7. /\ r \in AnyState /\ r.items = t.items /\ r.l.loaded = TRUE /\ r.l.component = t.l.component
      /\ r.l.targetLoading = t.l.targetLoading /\ r.l.targetActive = t.l.targetActive
      /\ r.l.item = t.l.item /\ r.l.incubator = t.l.incubator
  BY <1>6 DEF AnyState, AnyLoader
<1> HIDE DEF r
<1>8. HasItem(r) /\ Unbegun(r)
  BY <1>5, <1>7 DEF Goes, HasItem, Unbegun
<1>9. Served(r) \/ r.l.incubator = "deleted"
  BY <1>5, <1>7 DEF Goes, Served, Wishes
<1>10. BoundIs(bound') /\ spoiled' = (spoiled \/ r.l.incubator = "deleted")
  BY <1>1, <1>2, <1>7
<1> QED BY <1>1, <1>8, <1>9, <1>10, LoaderStep

\* The controller's steps, and the bound component's, leave the loader alone.
LEMMA SameLoader ==
  ASSUME LoaderInv, controller' \in AnyController, loader' = loader, items' = items, spoiled' = spoiled, BoundIs(bound')
  PROVE  LoaderInv'
<1> DEFINE s == Loader!State
           r == Loader!State'
<1>1. /\ s = [l |-> loader, items |-> items, c |-> controller]
      /\ r = [l |-> loader, items |-> items, c |-> controller']
  BY DEF Loader!State
<1>2. HasItem(s) /\ Unbegun(s) /\ (~spoiled => Served(s))
  BY DEF LoaderInv
<1>3. r \in AnyState /\ r.l = s.l /\ r.items = s.items
  BY <1>1, <1>2 DEF HasItem, AnyState
<1> HIDE DEF r, s
<1>4. HasItem(r) /\ Unbegun(r) /\ (~spoiled => Served(r))
  BY <1>2, <1>3 DEF HasItem, Unbegun, Served
<1> QED BY <1>4 DEF LoaderInv, r

LEMMA LaterIs == ASSUME NEW c \in AnyController PROVE Loader!IncubateLater(c) \in AnyController
BY DEF Loader!IncubateLater, AnyController

LEMMA BoundKeeps ==
  ASSUME LoaderInv, NEW l \in BOOLEAN, NEW b \in BOOLEAN,
         Loader!CreateBound(l, b) \/ Loader!SetOuter \/ Loader!WindowsTracked(l)
  PROVE  LoaderInv'
<1>1. BoundIs(bound) /\ bound \in AnyBound /\ controller \in AnyController
  BY DEF LoaderInv, BoundIs, HasItem, Loader!State, AnyState
<1>2. CASE Loader!CreateBound(l, b)
  <2> DEFINE p == [bound EXCEPT !.initial = bound.outer, !.binds = b]
  <2>1. /\ bound' = [p EXCEPT !.state = "incubating"] \/ bound' = Loader!Bind(p)
        /\ controller' = controller \/ controller' = Loader!CountChanged(controller, Loader!Count + 1)
        /\ loader' = loader /\ items' = items /\ spoiled' = spoiled
    BY <1>2 DEF Loader!CreateBound
  <2>2. p \in AnyBound
    BY <1>1 DEF AnyBound
  <2> HIDE DEF p
  <2>3. BoundIs([p EXCEPT !.state = "incubating"]) /\ BoundIs(Loader!Bind(p))
    BY <2>2 DEF BoundIs, AnyBound, Loader!Bind
  <2>4. controller' \in AnyController
    BY <1>1, <2>1, LaterIs DEF Loader!CountChanged
  <2>5. BoundIs(bound')
    BY <2>1, <2>3
  <2> QED BY <2>1, <2>4, <2>5, SameLoader
<1>3. CASE Loader!SetOuter
  <2>1. bound' = [bound EXCEPT !.outer = 1 - bound.outer,
                               !.inner = IF bound.state = "loaded" /\ bound.binds THEN 1 - bound.outer ELSE bound.inner]
        /\ loader' = loader /\ items' = items /\ spoiled' = spoiled /\ controller' = controller
    BY <1>3 DEF Loader!SetOuter
  <2>2. PICK i : i = IF bound.state = "loaded" /\ bound.binds THEN 1 - bound.outer ELSE bound.inner
    OBVIOUS
  <2>3. 1 - bound.outer \in Int /\ i \in Int
    BY <1>1, <2>2 DEF AnyBound
  <2>4. bound' = [bound EXCEPT !.outer = 1 - bound.outer, !.inner = i]
    BY <2>1, <2>2
  <2>5. /\ bound' \in AnyBound /\ bound'.outer = 1 - bound.outer /\ bound'.inner = i
        /\ bound'.state = bound.state /\ bound'.binds = bound.binds /\ bound'.initial = bound.initial
    BY <1>1, <2>3, <2>4 DEF AnyBound
  <2>6. BoundIs(bound')
    BY <1>1, <2>2, <2>5 DEF BoundIs
  <2> QED BY <1>1, <2>1, <2>6, SameLoader
<1>4. CASE Loader!WindowsTracked(l)
  <2> DEFINE d == [controller EXCEPT !.follow = l]
  <2>1. d \in AnyController
    BY <1>1 DEF AnyController
  <2>2. controller' = d \/ controller' = Loader!IncubateLater(d)
    BY <1>4 DEF Loader!WindowsTracked, Loader!SetIncubationMode
  <2>3. bound' = bound /\ loader' = loader /\ items' = items /\ spoiled' = spoiled
    BY <1>4 DEF Loader!WindowsTracked
  <2> HIDE DEF d
  <2>4. controller' \in AnyController
    BY <2>1, <2>2, LaterIs
  <2>5. BoundIs(bound')
    BY <1>1, <2>3
  <2> QED BY <2>3, <2>4, <2>5, SameLoader
<1> QED BY <1>2, <1>3, <1>4

LEMMA IncubateKeeps ==
  ASSUME LoaderInv, NEW c \in AnyController, NEW l \in BOOLEAN, NEW b \in BOOLEAN, Loader!Incubate(c, l, b)
  PROVE  LoaderInv'
<1> DEFINE q == [Loader!State EXCEPT !.c = c]
           s == IF l THEN Loader!Finished(q) ELSE q
<1>1. PICK k \in {c, Loader!IncubateLater(c)} : Loader!LoaderBecomes([s EXCEPT !.c = k])
  BY DEF Loader!Incubate
<1>2. /\ l => loader.incubator \in {"good", "bad"}
      /\ b => bound.state = "incubating"
      /\ bound' = IF b THEN Loader!Bind(bound) ELSE bound
      /\ spoiled' = (spoiled \/ s.l.incubator = "deleted")
  BY DEF Loader!Incubate, Loader!Incubates
<1>3. k \in AnyController
  BY <1>1, LaterIs
<1>4. BoundIs(bound')
  BY <1>2 DEF LoaderInv, BoundIs, AnyBound, Loader!Bind
<1> DEFINE p == Loader!State
<1>5. p.l = loader /\ HasItem(p) /\ Unbegun(p)
  BY DEF LoaderInv, Loader!State
<1>6. q \in AnyState /\ q.l = p.l /\ q.items = p.items
  <2> HIDE DEF p
  <2>1. q = [p EXCEPT !.c = c]
    BY DEF p
  <2> QED BY <1>5, <2>1 DEF HasItem, AnyState
<1> HIDE DEF p, q
<1>7. HasItem(q) /\ Unbegun(q) /\ (Served(p) => Served(q))
  BY <1>5, <1>6 DEF HasItem, Unbegun, Served
<1>8. HasItem(s) /\ Unbegun(s) /\ (Served(p) => Served(s) \/ s.l.incubator = "deleted")
  <2>1. CASE ~l
    BY <1>7, <2>1
  <2>2. CASE l
    <3>1. q.items = {} /\ q.l.item = 0 /\ q.l.incubator \in {"good", "bad"} /\ q.l.loaded
      BY <1>2, <1>5, <1>6, <1>7, <2>2 DEF HasItem, Unbegun, AnyState, AnyLoader
    <3>2. Goes(Loader!Finished(q), q) /\ (Wishes(Loader!Finished(q).l) \/ Loader!Finished(q).l.incubator = "deleted")
      BY <1>6, <3>1, FinishedIs
    <3>3. s = Loader!Finished(q)
      BY <2>2
    <3> HIDE DEF s
    <3> QED BY <3>1, <3>2, <3>3 DEF Goes, Unbegun, Served
  <2> HIDE DEF s
  <2> QED BY <2>1, <2>2
<1> HIDE DEF s
<1> DEFINE r == [s EXCEPT !.c = k]
<1>9. r \in AnyState /\ r.l = s.l /\ r.items = s.items
  BY <1>3, <1>8 DEF HasItem, AnyState
<1>10. Loader!LoaderBecomes(r)
  BY <1>1
<1> HIDE DEF r
<1>11. HasItem(r) /\ Unbegun(r) /\ (Served(p) => Served(r) \/ r.l.incubator = "deleted")
  BY <1>8, <1>9 DEF HasItem, Unbegun, Served
<1>12. spoiled' = (spoiled \/ r.l.incubator = "deleted")
  BY <1>2, <1>9
<1>13. Served(Loader!State) => Served(r) \/ r.l.incubator = "deleted"
  BY <1>11 DEF p
<1> QED BY <1>4, <1>10, <1>11, <1>12, <1>13, LoaderStep

LEMMA InitLoader == Loader!Init => LoaderInv
<1> SUFFICES ASSUME Loader!Init PROVE LoaderInv
  OBVIOUS
<1> DEFINE s == Loader!State
<1>1. /\ loader \in AnyLoader /\ loader.item = 0 /\ loader.incubator = "none" /\ loader.loaded = FALSE
      /\ loader.targetLoading = FALSE /\ loader.targetActive = FALSE
  BY DEF Loader!Init, Loader!Components, AnyLoader
<1>2. controller \in AnyController /\ BoundIs(bound) /\ bound.state = "none"
  BY DEF Loader!Init, AnyController, BoundIs, AnyBound
<1>3. s \in AnyState /\ s.l = loader /\ s.items = {}
  BY <1>1, <1>2 DEF Loader!Init, Loader!State, AnyState
<1>4. spoiled = FALSE
  BY DEF Loader!Init
<1> HIDE DEF s
<1>5. HasItem(s) /\ Unbegun(s) /\ Served(s)
  BY <1>1, <1>3 DEF HasItem, Unbegun, Served, Wishes
<1> QED BY <1>1, <1>2, <1>4, <1>5 DEF LoaderInv, s

LEMMA NextLoader == LoaderInv /\ [Loader!Next]_(Loader!loaderVars) => LoaderInv'
<1> SUFFICES ASSUME LoaderInv, [Loader!Next]_(Loader!loaderVars) PROVE LoaderInv'
  OBVIOUS
<1>1. controller \in AnyController
  BY DEF LoaderInv, HasItem, Loader!State, AnyState
<1>2. CASE \E v \in BOOLEAN : Loader!Activate(v) \/ Loader!ActivateAsync(v) \/ Loader!Load(v)
  BY <1>2, LoaderActKeeps
<1>3. CASE Loader!ReadItem
  BY <1>3, LoaderActKeeps
<1>4. CASE \E v \in BOOLEAN : Loader!OnReload(v)
  BY <1>4, OnReloadKeeps
<1>5. CASE \E v \in BOOLEAN : Loader!WindowsTracked(v)
  BY <1>5, BoundKeeps
<1>6. CASE \E c \in Loader!Components : Loader!SetComponent(c)
  BY <1>6, SetComponentKeeps
<1>7. CASE \E l, b \in BOOLEAN : Loader!CreateBound(l, b)
  BY <1>7, BoundKeeps
<1>8. CASE Loader!SetOuter
  BY <1>8, BoundKeeps
<1>9. CASE \E l, b \in BOOLEAN : Loader!TimerFires(l, b) \/ Loader!QueuedCall(l, b) \/ Loader!TimeToIncubate(l, b)
  <2>1. PICK l \in BOOLEAN, b \in BOOLEAN : Loader!TimerFires(l, b) \/ Loader!QueuedCall(l, b) \/ Loader!TimeToIncubate(l, b)
    BY <1>9
  <2>2. PICK c \in AnyController : Loader!Incubate(c, l, b)
    BY <1>1, <2>1 DEF Loader!TimerFires, Loader!QueuedCall, Loader!TimeToIncubate, AnyController
  <2> QED BY <2>2, IncubateKeeps
<1>10. CASE UNCHANGED Loader!loaderVars
  <2>1. controller' = controller /\ loader' = loader /\ items' = items /\ spoiled' = spoiled /\ bound' = bound
    BY <1>10 DEF Loader!loaderVars
  <2>2. BoundIs(bound')
    BY <2>1 DEF LoaderInv
  <2> QED BY <1>1, <2>1, <2>2, SameLoader
<1> QED BY <1>2, <1>3, <1>4, <1>5, <1>6, <1>7, <1>8, <1>9, <1>10 DEF Loader!Next

LEMMA LoaderIs == LoaderInv => Loader!LoaderHolds
<1> SUFFICES ASSUME LoaderInv PROVE Loader!LoaderHolds
  OBVIOUS
<1> DEFINE s == Loader!State
<1>1. s.l = loader /\ s.items = items
  BY DEF Loader!State
<1>2. HasItem(s) /\ (~spoiled => Served(s))
  BY DEF LoaderInv
<1> HIDE DEF s
<1>3. /\ items = IF loader.item # 0 THEN {loader.item} ELSE {}
      /\ loader.item # 0 => loader.targetActive /\ ~loader.targetLoading
  BY <1>1, <1>2 DEF HasItem
<1>4. ~spoiled => /\ loader.targetActive /\ loader.loaded /\ loader.component # "none" => loader.item # 0
                  /\ loader.targetLoading /\ loader.loaded /\ loader.component # "none"
                     => loader.item # 0 \/ loader.incubator \in {"good", "bad"}
  BY <1>1, <1>2 DEF Served, Wishes
<1>5. bound.state = "loaded" => bound.inner = IF bound.binds THEN bound.outer ELSE bound.initial
  BY DEF LoaderInv, BoundIs
<1> QED BY <1>3, <1>4, <1>5 DEF Loader!LoaderHolds, Loader!IsActive, Loader!Incubates

-----------------------------------------------------------------------------
(* Objects and their locks                                                   *)

LEMMA RetainSteps == Spec => Retain!Init /\ [][Retain!Next]_(Retain!lockVars)
<1>1. Init => Retain!Init
  BY DEF Init
<1>2. [Next]_vars => [Retain!Next]_(Retain!lockVars)
  BY DEF Next, Parts, vars, lockVars, Retain!lockVars
<1> QED BY <1>1, <1>2, PTL DEF Spec

-----------------------------------------------------------------------------
(* Objects that are retained by locks                                        *)

AnyHook == [there : BOOLEAN, refs : Nat, explicit : Nat, inactive : BOOLEAN, retaining : BOOLEAN,
            fate : {"lives", "doomed", "deleted"}]
AnyLock == [object : Held \cup {Nothing}, enabled : BOOLEAN, alive : BOOLEAN]

\* Who holds an object, and how often it is held.
Holders(lk, o)   == {l \in Locks : lk[l].enabled /\ lk[l].object = o}
Holds(r, o)      == IF r.enabled /\ r.object = o THEN 1 ELSE 0
Total(hk, lk, o) == Cardinality(Holders(lk, o)) + hk[o].explicit
\* The counter of a hook is right, and what is retained is held.
Kept(h, c) == h.fate # "deleted" => h.refs = c /\ (~h.inactive /\ h.fate = "lives" => c > 0)

RetainType ==
  /\ hook \in [Held -> AnyHook] /\ lock \in [Locks -> AnyLock] /\ dropping \in Held \cup {Nothing}
  /\ lockActs \in Nat /\ lockActs <= MaxLockActs
Pointed(hk, lk, d) ==
  /\ \A l \in Locks : lk[l].object # Nothing => hk[lk[l].object].fate # "deleted"
  /\ d # Nothing => hk[d].fate # "deleted"
RetainInv ==
  /\ RetainType /\ Pointed(hook, lock, dropping)
  /\ \A o \in Held : Total(hook, lock, o) <= lockActs
  /\ uneven = {} => /\ \A l \in Locks : lock[l].object # Nothing => lock[l].enabled
                    /\ \A o \in Held : Kept(hook[o], Total(hook, lock, o))

LEMMA HoldersAreFinite == ASSUME NEW lk, NEW o PROVE IsFiniteSet(Holders(lk, o)) /\ Cardinality(Holders(lk, o)) \in Nat
<1>1. Holders(lk, o) \subseteq Locks
  BY DEF Holders
<1> QED BY <1>1, LocksAreCounted, FS_Subset, FS_CardinalityType

\* What one lock that changes changes of it.
CountChanges(lk, new, was, r, o) ==
  /\ Holds(was, o) = 1 => Cardinality(Holders(lk, o)) >= 1
  /\ Cardinality(Holders(new, o)) = Cardinality(Holders(lk, o)) - Holds(was, o) + Holds(r, o)
LEMMA HoldersChange ==
  ASSUME NEW lk \in [Locks -> AnyLock], NEW l \in Locks, NEW r \in AnyLock, NEW o,
         NEW new, new = [lk EXCEPT ![l] = r]
  PROVE  CountChanges(lk, new, lk[l], r, o)
<1> DEFINE S == Holders(lk, o)
           R == S \ {l}
<1>1. IsFiniteSet(S) /\ Cardinality(S) \in Nat /\ IsFiniteSet(R) /\ Cardinality(R) \in Nat
  BY HoldersAreFinite, FS_Subset, FS_CardinalityType
<1>2. l \in S <=> Holds(lk[l], o) = 1
  BY DEF Holders, Holds
<1>3. Holders(new, o) = IF Holds(r, o) = 1 THEN R \cup {l} ELSE R
  BY DEF Holders, Holds
<1>4. Cardinality(R) = IF l \in S THEN Cardinality(S) - 1 ELSE Cardinality(S)
  BY <1>1, FS_RemoveElement
<1>5. Cardinality(R \cup {l}) = Cardinality(R) + 1
  BY <1>1, FS_AddElement
<1>6. Holds(lk[l], o) \in {0, 1} /\ Holds(r, o) \in {0, 1}
  BY DEF Holds
<1> HIDE DEF S, R
<1> QED BY <1>1, <1>2, <1>3, <1>4, <1>5, <1>6 DEF S, CountChanges

LEMMA RefKeeps ==
  ASSUME NEW h \in AnyHook, NEW g \in AnyHook, NEW c \in Nat, c + 1 < Wrap, Kept(h, c),
         g.refs = (h.refs + 1) % Wrap, g.fate = h.fate, g.inactive = h.inactive
  PROVE  Kept(g, c + 1)
BY LocksAreCounted DEF Kept, AnyHook

LEMMA UnrefKeeps ==
  ASSUME NEW h \in AnyHook, NEW g \in AnyHook, NEW c \in Nat, c >= 1, c < Wrap, Kept(h, c), h.fate # "deleted",
         g = Retain!Unref(h) \/ (\E e \in Nat : g = Retain!Unref([h EXCEPT !.explicit = e]))
  PROVE  Kept(g, c - 1) /\ g.fate # "deleted" /\ (h.fate = "lives" /\ g.fate = "doomed" => c - 1 = 0)
<1>1. h.refs = c /\ Retain!Minus(h.refs) = c - 1
  BY LocksAreCounted DEF Kept, Retain!Minus
<1>2. /\ g.inactive = h.inactive
      /\ g.refs = c - 1
      /\ g.fate = IF c - 1 = 0 /\ ~h.inactive THEN "doomed" ELSE h.fate
  BY <1>1 DEF Retain!Unref, Retain!Unlocked, AnyHook
<1> QED BY <1>1, <1>2 DEF Kept, AnyHook

\* Counting up or down gives a hook, which keeps its number of explicit locks.
LEMMA HookTypes ==
  ASSUME NEW h \in AnyHook
  PROVE  /\ Retain!Ref(h) \in AnyHook /\ Retain!Ref(h).explicit = h.explicit /\ Retain!Ref(h).fate = h.fate
         /\ Retain!Ref(h).inactive = h.inactive /\ Retain!Ref(h).refs = (h.refs + 1) % Wrap
         /\ Retain!Unref(h) \in AnyHook /\ Retain!Unref(h).explicit = h.explicit
         /\ Retain!Unref(h).fate = "deleted" => h.fate = "deleted"
         /\ Retain!Unlocked(h) \in AnyHook /\ Retain!Unlocked(h).explicit = h.explicit
         /\ Retain!Unlocked(h).refs = h.refs /\ Retain!Unlocked(h).inactive = h.inactive
         /\ Retain!Unlocked(h).fate = IF h.inactive THEN h.fate ELSE "doomed"
<1>1. (h.refs + 1) % Wrap \in Nat /\ Retain!Minus(h.refs) \in Nat
  BY LocksAreCounted DEF AnyHook, Retain!Minus
<1> QED BY <1>1 DEF AnyHook, Retain!Ref, Retain!Unref, Retain!Unlocked

-----------------------------------------------------------------------------
\* What a step lets go of nobody holds.
Spares ==
  \A o \in Held : hook[o].fate = "lives" /\ hook'[o].fate = "doomed" =>
    o \in forced' \/ uneven' # {} \/ ~hook[o].there
    \/ (hook'[o].explicit = 0 /\ \A l \in Locks : lock'[l].enabled => lock'[l].object # o)

LEMMA NobodyHolds ==
  ASSUME NEW lk, NEW hk, NEW o, hk[o].explicit \in Nat, Total(hk, lk, o) = 0
  PROVE  hk[o].explicit = 0 /\ \A l \in Locks : lk[l].enabled => lk[l].object # o
<1>1. IsFiniteSet(Holders(lk, o)) /\ Cardinality(Holders(lk, o)) \in Nat
  BY HoldersAreFinite
<1>2. Cardinality(Holders(lk, o)) = 0 /\ hk[o].explicit = 0
  BY <1>1 DEF Total
<1>3. Holders(lk, o) = {}
  BY <1>1, <1>2, FS_EmptySet
<1> QED BY <1>2, <1>3 DEF Holders

LEMMA TotalType == ASSUME RetainType, NEW o \in Held PROVE Total(hook, lock, o) \in Nat
BY HoldersAreFinite DEF Total, RetainType, AnyHook

\* One lock changes, and the objects it lets go of or gets with it.
LEMMA LockStep ==
  ASSUME RetainInv, NEW l \in Locks, NEW r \in AnyLock, lock' = [lock EXCEPT ![l] = r],
         hook' \in [Held -> AnyHook], dropping' = dropping, lockActs' = lockActs + 1, lockActs < MaxLockActs,
         uneven' = {} => uneven = {},
         r.object # Nothing => hook[r.object].fate # "deleted",
         \A p \in Held : hook'[p].explicit = hook[p].explicit /\ (hook'[p].fate = "deleted" => hook[p].fate = "deleted"),
         uneven' = {} => (r.object # Nothing => r.enabled),
         uneven' = {} => \A p \in Held :
           \/ Holds(r, p) = Holds(lock[l], p) /\ hook'[p] = hook[p]
           \/ Holds(r, p) = 1 /\ Holds(lock[l], p) = 0 /\ hook'[p] = Retain!Ref(hook[p])
           \/ Holds(r, p) = 0 /\ Holds(lock[l], p) = 1 /\ hook'[p] = Retain!Unref(hook[p])
  PROVE  RetainInv' /\ Spares
<1>1. lock \in [Locks -> AnyLock] /\ hook \in [Held -> AnyHook] /\ dropping \in Held \cup {Nothing} /\ lockActs \in Nat
      /\ MaxLockActs \in Nat
  BY LocksAreCounted DEF RetainInv, RetainType
<1>2. /\ lock' \in [Locks -> AnyLock] /\ lock'[l] = r /\ \A m \in Locks : m # l => lock'[m] = lock[m]
  BY <1>1
<1>3. RetainType'
  BY <1>1, <1>2 DEF RetainType
<1>4. Pointed(hook', lock', dropping')
  <2>1. ASSUME NEW m \in Locks, lock'[m].object # Nothing PROVE hook'[lock'[m].object].fate # "deleted"
    <3>1. hook[lock'[m].object].fate # "deleted" /\ lock'[m].object \in Held
      BY <1>1, <1>2, <2>1 DEF RetainInv, Pointed, AnyLock
    <3> QED BY <3>1
  <2>2. dropping' # Nothing => hook'[dropping'].fate # "deleted"
    BY <1>1 DEF RetainInv, Pointed
  <2> QED BY <2>1, <2>2 DEF Pointed
<1>5. ASSUME NEW p \in Held
      PROVE  /\ Total(hook, lock, p) \in Nat /\ Total(hook', lock', p) \in Nat
             /\ Holds(lock[l], p) = 1 => Total(hook, lock, p) >= 1
             /\ Total(hook', lock', p) = Total(hook, lock, p) - Holds(lock[l], p) + Holds(r, p)
             /\ Holds(lock[l], p) \in {0, 1} /\ Holds(r, p) \in {0, 1}
  <2>1. /\ Holds(lock[l], p) = 1 => Cardinality(Holders(lock, p)) >= 1
        /\ Cardinality(Holders(lock', p)) = Cardinality(Holders(lock, p)) - Holds(lock[l], p) + Holds(r, p)
    <3>1. CountChanges(lock, lock', lock[l], r, p)
      BY <1>1, HoldersChange
    <3> QED BY <3>1 DEF CountChanges
  <2>2. Cardinality(Holders(lock, p)) \in Nat /\ Cardinality(Holders(lock', p)) \in Nat
    BY HoldersAreFinite
  <2>3. hook[p].explicit \in Nat /\ hook'[p].explicit = hook[p].explicit
    BY <1>1 DEF AnyHook
  <2>4. Holds(lock[l], p) \in {0, 1} /\ Holds(r, p) \in {0, 1}
    BY DEF Holds
  <2> QED BY <2>1, <2>2, <2>3, <2>4 DEF Total
<1>6. \A p \in Held : Total(hook', lock', p) <= lockActs'
  <2> SUFFICES ASSUME NEW p \in Held PROVE Total(hook', lock', p) <= lockActs'
    OBVIOUS
  <2>1. Total(hook, lock, p) <= lockActs
    BY DEF RetainInv
  <2>2. /\ Total(hook, lock, p) \in Nat /\ Total(hook', lock', p) \in Nat
        /\ Total(hook', lock', p) = Total(hook, lock, p) - Holds(lock[l], p) + Holds(r, p)
        /\ Holds(lock[l], p) \in {0, 1} /\ Holds(r, p) \in {0, 1}
    BY <1>5
  <2> QED BY <1>1, <2>1, <2>2
<1>7. ASSUME uneven' = {}, NEW p \in Held
      PROVE  /\ Kept(hook'[p], Total(hook', lock', p))
             /\ hook[p].fate = "lives" /\ hook'[p].fate = "doomed" => Total(hook', lock', p) = 0
  <2> DEFINE c == Total(hook, lock, p)
  <2>0. /\ Total(hook', lock', p) = c - Holds(lock[l], p) + Holds(r, p) /\ c \in Nat
        /\ Holds(lock[l], p) \in {0, 1} /\ Holds(r, p) \in {0, 1}
        /\ Holds(lock[l], p) = 1 => c >= 1
    BY <1>5
  <2>1. Kept(hook[p], c) /\ c \in Nat /\ c <= lockActs /\ c + 1 < Wrap /\ hook[p] \in AnyHook /\ hook'[p] \in AnyHook
    BY <1>1, <1>5, <1>7, LocksAreCounted DEF RetainInv
  <2>2. CASE Holds(r, p) = Holds(lock[l], p) /\ hook'[p] = hook[p]
    <3>1. Total(hook', lock', p) = c
      BY <2>0, <2>2
    <3> QED BY <2>1, <2>2, <3>1
  <2>3. CASE Holds(r, p) = 1 /\ Holds(lock[l], p) = 0 /\ hook'[p] = Retain!Ref(hook[p])
    <3>1. Total(hook', lock', p) = c + 1
      BY <2>0, <2>3
    <3>2. Kept(hook'[p], c + 1) /\ hook'[p].fate = hook[p].fate
      BY <2>1, <2>3, HookTypes, RefKeeps
    <3> QED BY <3>1, <3>2
  <2>4. CASE Holds(r, p) = 0 /\ Holds(lock[l], p) = 1 /\ hook'[p] = Retain!Unref(hook[p])
    <3>1. Total(hook', lock', p) = c - 1 /\ c >= 1
      BY <2>0, <2>4
    <3>2. hook[p].fate # "deleted"
      BY <1>1, <2>4, NothingIsNoObject DEF Holds, RetainInv, Pointed
    <3>3. Kept(hook'[p], c - 1) /\ (hook[p].fate = "lives" /\ hook'[p].fate = "doomed" => c - 1 = 0)
      <4> HIDE DEF c
      <4> QED BY <2>1, <2>4, <3>1, <3>2, LocksAreCounted, UnrefKeeps
    <3> QED BY <3>1, <3>3
  <2> QED BY <1>7, <2>2, <2>3, <2>4
<1>8. Spares
  <2> SUFFICES ASSUME NEW o \in Held, hook[o].fate = "lives", hook'[o].fate = "doomed", uneven' = {}
               PROVE  hook'[o].explicit = 0 /\ \A m \in Locks : lock'[m].enabled => lock'[m].object # o
    BY DEF Spares
  <2>1. Total(hook', lock', o) = 0 /\ hook'[o].explicit \in Nat
    BY <1>7 DEF AnyHook
  <2>2. \A lk, hk : hk[o].explicit \in Nat /\ Total(hk, lk, o) = 0
                   => hk[o].explicit = 0 /\ \A m \in Locks : lk[m].enabled => lk[m].object # o
    BY NobodyHolds
  <2> QED BY <2>1, <2>2
<1>9. ASSUME uneven' = {} PROVE \A m \in Locks : lock'[m].object # Nothing => lock'[m].enabled
  BY <1>2, <1>9 DEF RetainInv
<1> QED BY <1>3, <1>4, <1>6, <1>7, <1>8, <1>9 DEF RetainInv

LEMMA SetObjectKeeps ==
  ASSUME RetainInv, NEW l \in Locks, NEW o \in Held \cup {Nothing}, Retain!SetObject(l, o)
  PROVE  RetainInv' /\ Spares
<1> DEFINE r == [lock[l] EXCEPT !.object = o]
<1>1. lock \in [Locks -> AnyLock] /\ hook \in [Held -> AnyHook] /\ lock[l] \in AnyLock
  BY DEF RetainInv, RetainType
<1>2. /\ lockActs < MaxLockActs /\ lockActs' = lockActs + 1 /\ o # lock[l].object
      /\ (o # Nothing => hook[o].fate # "deleted")
      /\ lock' = [lock EXCEPT ![l] = r] /\ dropping' = dropping
      /\ uneven' = {} => uneven = {} /\ (o = Nothing \/ lock[l].enabled)
      /\ hook' = [p \in Held |-> LET h == Retain!UnrefOf(hook[p], p, lock[l].object)
                                 IN IF p = o THEN Retain!Ref(h) ELSE h]
  BY <1>1 DEF Retain!SetObject, Retain!Act, Retain!Lives
<1>3. r \in AnyLock /\ r.object = o /\ r.enabled = lock[l].enabled
  BY <1>1 DEF AnyLock
<1> HIDE DEF r
<1>4. ASSUME NEW p \in Held
      PROVE  hook'[p] = IF p = o THEN Retain!Ref(hook[p]) ELSE IF p = lock[l].object THEN Retain!Unref(hook[p]) ELSE hook[p]
  BY <1>2 DEF Retain!UnrefOf
<1>5. \A p \in Held : hook[p] \in AnyHook
  BY <1>1
<1>6. ASSUME NEW p \in Held
      PROVE  /\ hook'[p] \in AnyHook /\ hook'[p].explicit = hook[p].explicit
             /\ hook'[p].fate = "deleted" => hook[p].fate = "deleted"
  BY <1>4, <1>5, HookTypes
<1>7. hook' \in [Held -> AnyHook]
  BY <1>2, <1>6
<1>8. ASSUME uneven' = {}, NEW p \in Held
      PROVE  \/ Holds(r, p) = Holds(lock[l], p) /\ hook'[p] = hook[p]
             \/ Holds(r, p) = 1 /\ Holds(lock[l], p) = 0 /\ hook'[p] = Retain!Ref(hook[p])
             \/ Holds(r, p) = 0 /\ Holds(lock[l], p) = 1 /\ hook'[p] = Retain!Unref(hook[p])
  <2>1. lock[l].object # Nothing => lock[l].enabled
    BY <1>2, <1>8 DEF RetainInv
  <2> QED BY <1>2, <1>3, <1>4, <1>8, <2>1, NothingIsNoObject DEF Holds
<1>9. uneven' = {} => (r.object # Nothing => r.enabled)
  BY <1>2, <1>3
<1> QED BY <1>2, <1>3, <1>6, <1>7, <1>8, <1>9, LockStep

LEMMA SetLockedKeeps ==
  ASSUME RetainInv, NEW l \in Locks, NEW v \in BOOLEAN, Retain!SetLocked(l, v)
  PROVE  RetainInv' /\ Spares
<1> DEFINE r == [lock[l] EXCEPT !.enabled = v]
<1>1. lock \in [Locks -> AnyLock] /\ hook \in [Held -> AnyHook] /\ lock[l] \in AnyLock
  BY DEF RetainInv, RetainType
<1>2. /\ lockActs < MaxLockActs /\ lockActs' = lockActs + 1
      /\ lock' = [lock EXCEPT ![l] = r] /\ dropping' = dropping
      /\ uneven' = {} => uneven = {} /\ lock[l].object = Nothing
      /\ hook' = [p \in Held |-> IF v /\ p = lock[l].object THEN Retain!Ref(hook[p])
                                 ELSE Retain!UnrefOf(hook[p], p, lock[l].object)]
  BY <1>1 DEF Retain!SetLocked, Retain!Act
<1>3. r \in AnyLock /\ r.object = lock[l].object /\ r.enabled = v
  BY <1>1 DEF AnyLock
<1> HIDE DEF r
<1>4. ASSUME NEW p \in Held
      PROVE  hook'[p] \in {hook[p], Retain!Ref(hook[p]), Retain!Unref(hook[p])} /\ (p # lock[l].object => hook'[p] = hook[p])
  BY <1>2 DEF Retain!UnrefOf
<1>5. \A p \in Held : hook[p] \in AnyHook
  BY <1>1
<1>6. ASSUME NEW p \in Held
      PROVE  /\ hook'[p] \in AnyHook /\ hook'[p].explicit = hook[p].explicit
             /\ hook'[p].fate = "deleted" => hook[p].fate = "deleted"
  BY <1>4, <1>5, HookTypes
<1>7. hook' \in [Held -> AnyHook]
  BY <1>2, <1>6
<1>8. ASSUME uneven' = {}, NEW p \in Held
      PROVE  Holds(r, p) = Holds(lock[l], p) /\ hook'[p] = hook[p]
  BY <1>2, <1>3, <1>4, <1>8, NothingIsNoObject DEF Holds
<1>9. (uneven' = {} => (r.object # Nothing => r.enabled)) /\ (r.object # Nothing => hook[r.object].fate # "deleted")
  BY <1>2, <1>3 DEF RetainInv, Pointed
<1> QED BY <1>2, <1>3, <1>6, <1>7, <1>8, <1>9, LockStep

LEMMA DestroyLockKeeps ==
  ASSUME RetainInv, NEW l \in Locks, Retain!DestroyLock(l)
  PROVE  RetainInv' /\ Spares
<1> DEFINE r == [object |-> Nothing, enabled |-> FALSE, alive |-> FALSE]
<1>1. lock \in [Locks -> AnyLock] /\ hook \in [Held -> AnyHook] /\ lock[l] \in AnyLock
  BY DEF RetainInv, RetainType
<1>2. /\ lockActs < MaxLockActs /\ lockActs' = lockActs + 1
      /\ lock' = [lock EXCEPT ![l] = r] /\ dropping' = dropping /\ uneven' = uneven
      /\ hook' = IF lock[l].enabled THEN [p \in Held |-> Retain!UnrefOf(hook[p], p, lock[l].object)] ELSE hook
  BY <1>1 DEF Retain!DestroyLock, Retain!Act
<1>3. r \in AnyLock /\ r.object = Nothing /\ ~r.enabled
  BY <1>1 DEF AnyLock
<1> HIDE DEF r
<1>4. ASSUME NEW p \in Held
      PROVE  hook'[p] = IF lock[l].enabled /\ p = lock[l].object THEN Retain!Unref(hook[p]) ELSE hook[p]
  BY <1>2 DEF Retain!UnrefOf
<1>5. \A p \in Held : hook[p] \in AnyHook
  BY <1>1
<1>6. ASSUME NEW p \in Held
      PROVE  /\ hook'[p] \in AnyHook /\ hook'[p].explicit = hook[p].explicit
             /\ hook'[p].fate = "deleted" => hook[p].fate = "deleted"
  BY <1>4, <1>5, HookTypes
<1>7. hook' \in [Held -> AnyHook]
  BY <1>1, <1>2, <1>6
<1>8. ASSUME uneven' = {}, NEW p \in Held
      PROVE  \/ Holds(r, p) = Holds(lock[l], p) /\ hook'[p] = hook[p]
             \/ Holds(r, p) = 0 /\ Holds(lock[l], p) = 1 /\ hook'[p] = Retain!Unref(hook[p])
  BY <1>3, <1>4 DEF Holds
<1> QED BY <1>2, <1>3, <1>6, <1>7, <1>8, LockStep

\* One object changes, and no lock; c is how often it is held then.
HookChanges(o, g, c) ==
  /\ hook' = [hook EXCEPT ![o] = g] /\ lock' = lock /\ uneven' = uneven /\ dropping' \in {dropping, Nothing, o}
  /\ hook[o].fate # "deleted" /\ g.fate # "deleted"
  /\ lockActs' \in Nat /\ lockActs' <= MaxLockActs /\ lockActs <= lockActs' /\ c <= lockActs'
  /\ c = Total(hook, lock, o) + (g.explicit - hook[o].explicit)
  /\ uneven = {} => /\ Kept(g, c)
                    /\ hook[o].fate = "lives" /\ g.fate = "doomed" => o \in forced' \/ ~hook[o].there \/ c = 0

\* What is known of an object.
LEMMA KnownHook ==
  ASSUME RetainInv, NEW o \in Held
  PROVE  /\ hook \in [Held -> AnyHook] /\ hook[o] \in AnyHook /\ lockActs \in Nat /\ lockActs <= MaxLockActs /\ MaxLockActs \in Nat
         /\ hook[o].explicit \in Nat /\ Total(hook, lock, o) \in Nat /\ Total(hook, lock, o) >= hook[o].explicit
         /\ Total(hook, lock, o) <= lockActs
         /\ uneven = {} => Kept(hook[o], Total(hook, lock, o))
BY HoldersAreFinite, LocksAreCounted DEF RetainInv, RetainType, Total, AnyHook

LEMMA HookStep == ASSUME RetainInv, NEW o \in Held, NEW g \in AnyHook, NEW c \in Nat, HookChanges(o, g, c) PROVE RetainInv' /\ Spares
<1>0. /\ hook' = [hook EXCEPT ![o] = g] /\ lock' = lock /\ uneven' = uneven /\ dropping' \in {dropping, Nothing, o}
      /\ hook[o].fate # "deleted" /\ g.fate # "deleted"
      /\ lockActs' \in Nat /\ lockActs' <= MaxLockActs /\ lockActs <= lockActs' /\ c <= lockActs'
      /\ c = Total(hook, lock, o) + (g.explicit - hook[o].explicit)
      /\ uneven = {} => /\ Kept(g, c)
                        /\ hook[o].fate = "lives" /\ g.fate = "doomed" => o \in forced' \/ ~hook[o].there \/ c = 0
  BY DEF HookChanges
<1>1. lock \in [Locks -> AnyLock] /\ hook \in [Held -> AnyHook] /\ dropping \in Held \cup {Nothing} /\ lockActs \in Nat
  BY DEF RetainInv, RetainType
<1>2. /\ hook' \in [Held -> AnyHook] /\ hook'[o] = g /\ \A p \in Held : p # o => hook'[p] = hook[p]
  BY <1>0, <1>1
<1>3. RetainType'
  BY <1>0, <1>1, <1>2 DEF RetainType
<1>4. Pointed(hook', lock', dropping')
  BY <1>0, <1>1, <1>2 DEF RetainInv, Pointed, AnyLock
<1>6. Total(hook', lock', o) = c
  <2>1. Cardinality(Holders(lock, o)) \in Nat /\ hook[o].explicit \in Nat /\ g.explicit \in Nat
    BY <1>1, HoldersAreFinite DEF AnyHook
  <2>2. Total(hook, lock, o) = Cardinality(Holders(lock, o)) + hook[o].explicit
    BY DEF Total
  <2>3. Total(hook', lock', o) = Cardinality(Holders(lock, o)) + g.explicit
    BY <1>0, <1>2 DEF Total
  <2> QED BY <1>0, <2>1, <2>2, <2>3
<1>7. ASSUME NEW p \in Held, p # o PROVE Total(hook', lock', p) = Total(hook, lock, p)
  BY <1>0, <1>2, <1>7 DEF Total
<1>8. \A p \in Held : Total(hook', lock', p) <= lockActs'
  <2> SUFFICES ASSUME NEW p \in Held PROVE Total(hook', lock', p) <= lockActs'
    OBVIOUS
  <2>1. Total(hook, lock, p) <= lockActs /\ Total(hook, lock, p) \in Nat
    BY TotalType DEF RetainInv
  <2>2. CASE p # o
    <3>1. Total(hook', lock', p) = Total(hook, lock, p)
      BY <1>7, <2>2
    <3> QED BY <1>0, <1>1, <2>1, <3>1
  <2>3. CASE p = o
    BY <1>0, <1>6, <2>3
  <2> QED BY <2>2, <2>3
<1>9. ASSUME uneven' = {}
      PROVE  /\ \A m \in Locks : lock'[m].object # Nothing => lock'[m].enabled
             /\ \A p \in Held : Kept(hook'[p], Total(hook', lock', p))
  <2> SUFFICES ASSUME NEW p \in Held PROVE Kept(hook'[p], Total(hook', lock', p))
    BY <1>0, <1>9 DEF RetainInv
  <2>1. CASE p # o
    <3>1. Total(hook', lock', p) = Total(hook, lock, p) /\ hook'[p] = hook[p]
      BY <1>2, <1>7, <2>1
    <3> QED BY <1>0, <1>9, <3>1 DEF RetainInv
  <2>2. CASE p = o
    BY <1>0, <1>2, <1>6, <1>9, <2>2
  <2> QED BY <2>1, <2>2
<1>10. Spares
  <2> SUFFICES ASSUME NEW p \in Held, hook[p].fate = "lives", hook'[p].fate = "doomed", uneven' = {}, p \notin forced', hook[p].there
               PROVE  hook'[p].explicit = 0 /\ \A m \in Locks : lock'[m].enabled => lock'[m].object # p
    BY DEF Spares
  <2>1. p = o
    BY <1>0, <1>2
  <2>2. Total(hook', lock', p) = 0 /\ hook'[p].explicit \in Nat
    BY <1>0, <1>2, <1>6, <2>1 DEF AnyHook
  <2>3. \A lk, hk : hk[p].explicit \in Nat /\ Total(hk, lk, p) = 0
                   => hk[p].explicit = 0 /\ \A m \in Locks : lk[m].enabled => lk[m].object # p
    BY NobodyHolds
  <2> QED BY <2>2, <2>3
<1> QED BY <1>3, <1>4, <1>8, <1>9, <1>10 DEF RetainInv

LEMMA HookLockKeeps == ASSUME RetainInv, NEW o \in Held, Retain!HookLock(o) PROVE RetainInv' /\ Spares
<1>1. PICK c \in Nat : c = Total(hook, lock, o) + 1
  BY KnownHook
<1>2. PICK e \in Nat : e = hook[o].explicit + 1
  BY KnownHook
<1> DEFINE h == [hook[o] EXCEPT !.explicit = e]
           g == Retain!Ref(h)
<1>3. /\ lockActs < MaxLockActs /\ lockActs' = lockActs + 1 /\ hook[o].fate # "deleted"
      /\ hook' = [hook EXCEPT ![o] = g] /\ lock' = lock /\ dropping' = dropping /\ uneven' = uneven
  <2> DEFINE h0 == [hook[o] EXCEPT !.explicit = hook[o].explicit + 1]
  <2>1. /\ hook' = [hook EXCEPT ![o] = Retain!Ref(h0)]
        /\ lockActs < MaxLockActs /\ lockActs' = lockActs + 1 /\ hook[o].fate # "deleted"
        /\ lock' = lock /\ dropping' = dropping /\ uneven' = uneven
    BY DEF Retain!HookLock, Retain!Act, Retain!Lives
  <2>2. h0 = h
    BY <1>2
  <2> QED BY <2>1, <2>2
<1>4. hook[o] \in AnyHook
  BY KnownHook
<1>5. h \in AnyHook /\ h.explicit = e /\ h.refs = hook[o].refs /\ h.fate = hook[o].fate /\ h.inactive = hook[o].inactive
  BY <1>4 DEF AnyHook
<1> HIDE DEF h
<1>6. g \in AnyHook /\ g.explicit = e /\ g.refs = (hook[o].refs + 1) % Wrap
      /\ g.fate = hook[o].fate /\ g.inactive = hook[o].inactive
  BY <1>5, HookTypes
<1> HIDE DEF g
<1>7. uneven = {} => Kept(g, c)
  <2> SUFFICES ASSUME uneven = {} PROVE Kept(g, c)
    OBVIOUS
  <2>1. PICK d \in Nat : d = Total(hook, lock, o)
    BY KnownHook
  <2>2. Kept(hook[o], d) /\ d <= lockActs /\ lockActs \in Nat /\ MaxLockActs \in Nat
    BY <2>1, KnownHook
  <2>3. d + 1 < Wrap /\ c = d + 1
    BY <1>1, <1>3, <2>1, <2>2, LocksAreCounted
  <2>4. Kept(g, d + 1)
    BY <1>4, <1>6, <2>2, <2>3, RefKeeps
  <2> QED BY <2>3, <2>4
<1>8. lockActs' \in Nat /\ lockActs' <= MaxLockActs /\ lockActs <= lockActs' /\ c <= lockActs'
      /\ c = Total(hook, lock, o) + (g.explicit - hook[o].explicit)
  BY <1>1, <1>2, <1>3, <1>6, KnownHook
<1>9. HookChanges(o, g, c)
  BY <1>3, <1>6, <1>7, <1>8 DEF HookChanges
<1> QED BY <1>6, <1>9, HookStep

LEMMA HookUnlockKeeps == ASSUME RetainInv, NEW o \in Held, Retain!HookUnlock(o) PROVE RetainInv' /\ Spares
<1>0. hook[o].explicit > 0 /\ hook[o].fate # "deleted"
  BY DEF Retain!HookUnlock, Retain!Lives
<1>1. PICK d \in Nat : d = Total(hook, lock, o) /\ d >= 1
  BY <1>0, KnownHook
<1>2. PICK e \in Nat : e = hook[o].explicit - 1
  BY <1>0, KnownHook
<1> DEFINE h == [hook[o] EXCEPT !.explicit = e]
           g == Retain!Unref(h)
<1>3. /\ lockActs < MaxLockActs /\ lockActs' = lockActs + 1
      /\ hook' = [hook EXCEPT ![o] = g] /\ lock' = lock /\ dropping' = dropping /\ uneven' = uneven
  <2> DEFINE h0 == [hook[o] EXCEPT !.explicit = hook[o].explicit - 1]
  <2>1. /\ hook' = [hook EXCEPT ![o] = Retain!Unref(h0)]
        /\ lockActs < MaxLockActs /\ lockActs' = lockActs + 1 /\ hook[o].fate # "deleted"
        /\ lock' = lock /\ dropping' = dropping /\ uneven' = uneven
    BY DEF Retain!HookUnlock, Retain!Act, Retain!Lives
  <2>2. h0 = h
    BY <1>2
  <2> QED BY <2>1, <2>2
<1>4. hook[o] \in AnyHook
  BY KnownHook
<1>5. h \in AnyHook /\ h.explicit = e /\ h.fate = hook[o].fate
  BY <1>4 DEF AnyHook
<1>6. \E x \in Nat : g = Retain!Unref([hook[o] EXCEPT !.explicit = x])
  OBVIOUS
<1> HIDE DEF h
<1>7. g \in AnyHook /\ g.explicit = e /\ g.fate # "deleted"
  BY <1>0, <1>5, HookTypes
<1> HIDE DEF g
<1>8. PICK c \in Nat : c = d - 1
  BY <1>1
<1>9. uneven = {} => Kept(g, c) /\ (hook[o].fate = "lives" /\ g.fate = "doomed" => c = 0)
  <2> SUFFICES ASSUME uneven = {} PROVE Kept(g, c) /\ (hook[o].fate = "lives" /\ g.fate = "doomed" => c = 0)
    OBVIOUS
  <2>1. Kept(hook[o], d) /\ d <= lockActs /\ lockActs \in Nat /\ MaxLockActs \in Nat
    BY <1>1, KnownHook
  <2>2. d < Wrap
    BY <1>3, <2>1, LocksAreCounted
  <2>3. Kept(g, d - 1) /\ (hook[o].fate = "lives" /\ g.fate = "doomed" => d - 1 = 0)
    BY <1>0, <1>1, <1>4, <1>6, <1>7, <2>1, <2>2, UnrefKeeps
  <2> QED BY <1>8, <2>3
<1>10. lockActs' \in Nat /\ lockActs' <= MaxLockActs /\ lockActs <= lockActs' /\ c <= lockActs'
       /\ c = Total(hook, lock, o) + (g.explicit - hook[o].explicit)
  BY <1>1, <1>2, <1>3, <1>7, <1>8, KnownHook
<1>11. HookChanges(o, g, c)
  BY <1>0, <1>3, <1>7, <1>9, <1>10 DEF HookChanges
<1> QED BY <1>7, <1>11, HookStep

\* Whether it is done with its handlers and what is to become of it changes, and no counter.
LEMMA FateStep ==
  ASSUME RetainInv, NEW o \in Held, NEW g \in AnyHook,
         hook' = [hook EXCEPT ![o] = g], lock' = lock, uneven' = uneven, dropping' \in {dropping, Nothing, o},
         hook[o].fate # "deleted", g.fate # "deleted", g.explicit = hook[o].explicit, g.refs = hook[o].refs,
         lockActs' \in {lockActs, lockActs + 1}, lockActs' <= MaxLockActs,
         g.fate = "lives" => hook[o].fate = "lives" /\ (g.inactive = hook[o].inactive \/ hook[o].refs # 0),
         g.fate = "doomed" /\ hook[o].fate = "lives" => o \in forced' \/ ~hook[o].there \/ hook[o].refs = 0
  PROVE  RetainInv' /\ Spares
<1>1. PICK c \in Nat : c = Total(hook, lock, o)
  BY KnownHook
<1>2. hook[o] \in AnyHook /\ lockActs \in Nat /\ c <= lockActs /\ (uneven = {} => Kept(hook[o], c)) /\ hook[o].explicit \in Nat
  BY <1>1, KnownHook
<1>3. uneven = {} => hook[o].refs = c
  BY <1>2 DEF Kept
<1>4. uneven = {} => Kept(g, c)
  BY <1>2, <1>3 DEF Kept, AnyHook
<1>5. uneven = {} => (hook[o].fate = "lives" /\ g.fate = "doomed" => o \in forced' \/ ~hook[o].there \/ c = 0)
  BY <1>3
<1>6. lockActs' \in Nat /\ lockActs <= lockActs' /\ c <= lockActs' /\ c = Total(hook, lock, o) + (g.explicit - hook[o].explicit)
  BY <1>1, <1>2
<1>7. HookChanges(o, g, c)
  BY <1>4, <1>5, <1>6 DEF HookChanges
<1> QED BY <1>7, HookStep

LEMMA ForceUnlockKeeps == ASSUME RetainInv, NEW o \in Held, Retain!ForceUnlock(o) PROVE RetainInv' /\ Spares
<1> DEFINE h == [hook[o] EXCEPT !.there = TRUE]
           g == Retain!Unlocked(h)
<1>1. /\ lockActs < MaxLockActs /\ lockActs' = lockActs + 1 /\ hook[o].fate # "deleted"
      /\ hook' = [hook EXCEPT ![o] = g] /\ lock' = lock /\ dropping' = dropping /\ uneven' = uneven
      /\ ~hook[o].inactive => o \in forced'
  BY DEF Retain!ForceUnlock, Retain!Act, Retain!Lives
<1>2. hook[o] \in AnyHook /\ lockActs \in Nat /\ MaxLockActs \in Nat
  BY KnownHook
<1>3. h \in AnyHook /\ h.explicit = hook[o].explicit /\ h.refs = hook[o].refs /\ h.fate = hook[o].fate /\ h.inactive = hook[o].inactive
  BY <1>2 DEF AnyHook
<1> HIDE DEF h
<1>4. g \in AnyHook /\ g.explicit = hook[o].explicit /\ g.refs = hook[o].refs /\ g.inactive = hook[o].inactive
      /\ g.fate = IF hook[o].inactive THEN hook[o].fate ELSE "doomed"
  BY <1>3, HookTypes
<1> HIDE DEF g
<1>5. lockActs' <= MaxLockActs
  BY <1>1, <1>2
<1> QED BY <1>1, <1>4, <1>5, FateStep

LEMMA DropKeeps == ASSUME RetainInv, NEW o \in Held, Retain!Drop(o) PROVE RetainInv' /\ Spares
<1> DEFINE f == IF hook[o].there THEN hook[o].fate ELSE "doomed"
           g == [hook[o] EXCEPT !.retaining = TRUE, !.fate = f]
<1>1. /\ lockActs' = lockActs /\ hook[o].fate # "deleted"
      /\ hook' = [hook EXCEPT ![o].retaining = TRUE, ![o].fate = f] /\ lock' = lock /\ uneven' = uneven
      /\ dropping' \in {dropping, Nothing, o}
  BY DEF Retain!Drop, Retain!Lives
<1>2. /\ hook \in [Held -> AnyHook] /\ hook[o] \in AnyHook /\ lockActs <= MaxLockActs
  BY KnownHook
<1>3. f \in {"lives", "doomed"} /\ (hook[o].fate = "lives" /\ f = "doomed" => ~hook[o].there) /\ (f = "lives" => hook[o].fate = "lives")
  BY <1>1, <1>2 DEF AnyHook
<1>4. hook' = [hook EXCEPT ![o] = g]
  BY <1>1, <1>2
<1> HIDE DEF f
<1>5. g \in AnyHook /\ g.explicit = hook[o].explicit /\ g.refs = hook[o].refs /\ g.inactive = hook[o].inactive /\ g.fate = f
  BY <1>2, <1>3 DEF AnyHook
<1> HIDE DEF g
<1> QED BY <1>1, <1>2, <1>3, <1>4, <1>5, FateStep

LEMMA DroppedHandledKeeps == ASSUME RetainInv, Retain!DroppedHandled PROVE RetainInv' /\ Spares
<1> DEFINE o == dropping
           h == [hook[o] EXCEPT !.inactive = FALSE]
           g == IF hook[o].refs = 0 THEN Retain!Unlocked(h) ELSE h
<1>1. /\ lockActs' = lockActs /\ o # Nothing
      /\ hook' = [hook EXCEPT ![o] = g] /\ lock' = lock /\ uneven' = uneven /\ dropping' = Nothing
  BY DEF Retain!DroppedHandled
<1>2. o \in Held /\ hook[o].fate # "deleted"
  BY <1>1 DEF RetainInv, RetainType, Pointed
<1>3. hook[o] \in AnyHook /\ lockActs <= MaxLockActs
  BY <1>2, KnownHook
<1> HIDE DEF o
<1>4. h \in AnyHook /\ h.explicit = hook[o].explicit /\ h.refs = hook[o].refs /\ h.fate = hook[o].fate /\ ~h.inactive
  BY <1>3 DEF AnyHook
<1> HIDE DEF h
<1>5. /\ g \in AnyHook /\ g.explicit = hook[o].explicit /\ g.refs = hook[o].refs
      /\ g.fate = IF hook[o].refs = 0 THEN "doomed" ELSE hook[o].fate
  BY <1>4, HookTypes
<1> HIDE DEF g
<1> QED BY <1>1, <1>2, <1>3, <1>5, FateStep

LEMMA DestroyedKeeps == ASSUME RetainInv, NEW o \in Held, Retain!Destroyed(o) PROVE RetainInv' /\ Spares
<1>1. /\ dropping = Nothing /\ dropping' = Nothing /\ hook' = [hook EXCEPT ![o].fate = "deleted"]
      /\ lock' = [l \in Locks |-> IF lock[l].object = o THEN [lock[l] EXCEPT !.object = Nothing] ELSE lock[l]]
      /\ UNCHANGED <<lockActs, uneven>>
  BY DEF Retain!Destroyed
<1>2. lock \in [Locks -> AnyLock] /\ hook \in [Held -> AnyHook] /\ o # Nothing
  BY NothingIsNoObject DEF RetainInv, RetainType
<1>3. /\ hook' \in [Held -> AnyHook] /\ hook'[o].fate = "deleted" /\ hook'[o].explicit = hook[o].explicit
      /\ \A p \in Held : p # o => hook'[p] = hook[p]
  BY <1>1, <1>2 DEF AnyHook
<1>4. /\ lock' \in [Locks -> AnyLock]
      /\ \A l \in Locks : lock'[l].enabled = lock[l].enabled /\ lock'[l].object = IF lock[l].object = o THEN Nothing ELSE lock[l].object
  BY <1>1, <1>2 DEF AnyLock
<1>5. RetainType'
  BY <1>1, <1>3, <1>4 DEF RetainInv, RetainType
<1>6. Pointed(hook', lock', dropping')
  BY <1>1, <1>2, <1>3, <1>4 DEF RetainInv, Pointed, AnyLock
<1>7. ASSUME NEW p \in Held, p # o PROVE Total(hook', lock', p) = Total(hook, lock, p)
  <2>1. Holders(lock', p) = Holders(lock, p)
    BY <1>2, <1>4, <1>7, NothingIsNoObject DEF Holders
  <2> QED BY <1>3, <1>7, <2>1 DEF Total
<1>8. Total(hook', lock', o) <= Total(hook, lock, o)
  <2>1. Holders(lock', o) = {}
    BY <1>2, <1>4 DEF Holders
  <2>2. Cardinality(Holders(lock', o)) = 0 /\ Cardinality(Holders(lock, o)) \in Nat
    BY <2>1, FS_EmptySet, HoldersAreFinite
  <2>3. hook[o].explicit \in Nat
    BY <1>2 DEF AnyHook
  <2> QED BY <1>3, <2>2, <2>3 DEF Total
<1>9. \A p \in Held : Total(hook', lock', p) <= lockActs'
  <2> SUFFICES ASSUME NEW p \in Held PROVE Total(hook', lock', p) <= lockActs
    BY <1>1
  <2>1. Total(hook, lock, p) <= lockActs /\ Total(hook, lock, p) \in Nat /\ lockActs \in Nat
    BY TotalType DEF RetainInv, RetainType
  <2>2. Total(hook', lock', p) \in Nat
    BY <1>3, HoldersAreFinite DEF Total, AnyHook
  <2>3. CASE p = o
    BY <1>8, <2>1, <2>2, <2>3
  <2>4. CASE p # o
    BY <1>7, <2>1, <2>4
  <2> QED BY <2>3, <2>4
<1>10. ASSUME uneven' = {}
       PROVE  /\ \A m \in Locks : lock'[m].object # Nothing => lock'[m].enabled
              /\ \A p \in Held : Kept(hook'[p], Total(hook', lock', p))
  <2>1. \A m \in Locks : lock'[m].object # Nothing => lock'[m].enabled
    BY <1>1, <1>4, <1>10 DEF RetainInv
  <2>2. ASSUME NEW p \in Held PROVE Kept(hook'[p], Total(hook', lock', p))
    <3>1. CASE p = o
      BY <1>3, <3>1 DEF Kept
    <3>2. CASE p # o
      BY <1>1, <1>3, <1>7, <1>10, <3>2 DEF RetainInv
    <3> QED BY <3>1, <3>2
  <2> QED BY <2>1, <2>2
<1>11. Spares
  BY <1>3 DEF Spares
<1> QED BY <1>5, <1>6, <1>9, <1>10, <1>11 DEF RetainInv

LEMMA NextRetain == ASSUME RetainInv, [Retain!Next]_(Retain!lockVars) PROVE RetainInv' /\ Spares
<1>1. CASE Retain!Next
  BY <1>1, SetObjectKeeps, SetLockedKeeps, DestroyLockKeeps, HookLockKeeps, HookUnlockKeeps, ForceUnlockKeeps, DropKeeps,
     DroppedHandledKeeps, DestroyedKeeps DEF Retain!Next
<1>2. CASE UNCHANGED Retain!lockVars
  <2>1. /\ hook' = hook /\ lock' = lock /\ dropping' = dropping /\ lockActs' = lockActs /\ uneven' = uneven
    BY <1>2 DEF Retain!lockVars
  <2>2. \A o \in Held : Total(hook', lock', o) = Total(hook, lock, o)
    BY <2>1
  <2>3. RetainInv'
    BY <2>1, <2>2 DEF RetainInv, RetainType
  <2> QED BY <2>1, <2>3 DEF Spares
<1> QED BY <1>1, <1>2

LEMMA InitRetain == Retain!Init => RetainInv
<1> SUFFICES ASSUME Retain!Init PROVE RetainInv
  OBVIOUS
<1>1. Retain!NewHook \in AnyHook
  BY DEF AnyHook, Retain!NewHook
<1>2. hook = [o \in Held |-> Retain!NewHook] /\ lockActs = 0 /\ dropping = Nothing
      /\ lock = [l \in Locks |-> [object |-> Nothing, enabled |-> FALSE, alive |-> TRUE]]
  BY DEF Retain!Init
<1>3. RetainType
  BY <1>1, <1>2, LocksAreCounted DEF RetainType, AnyLock
<1>4. Pointed(hook, lock, dropping)
  BY <1>2 DEF Pointed
<1>5. ASSUME NEW o \in Held PROVE Total(hook, lock, o) = 0 /\ Kept(hook[o], 0)
  <2>1. Holders(lock, o) = {}
    BY <1>2 DEF Holders
  <2>2. Cardinality(Holders(lock, o)) = 0
    BY <2>1, FS_EmptySet
  <2>3. hook[o] = Retain!NewHook
    BY <1>2
  <2> QED BY <2>2, <2>3 DEF Total, Kept, Retain!NewHook
<1>6. \A l \in Locks : lock[l].object = Nothing
  BY <1>2
<1>7. ASSUME NEW o \in Held PROVE Total(hook, lock, o) <= lockActs /\ Kept(hook[o], Total(hook, lock, o))
  <2>1. Total(hook, lock, o) = 0 /\ Kept(hook[o], 0)
    BY <1>5
  <2>2. Total(hook, lock, o) <= lockActs
    BY <1>2, <2>1
  <2> QED BY <2>1, <2>2 DEF Kept
<1> QED BY <1>3, <1>4, <1>6, <1>7 DEF RetainInv

LEMMA RetainHolds == RetainInv => Retain!RetainedByLocks
<1> SUFFICES ASSUME RetainInv PROVE Retain!RetainedByLocks
  OBVIOUS
<1>1. ASSUME uneven = {}, NEW o \in Held, ~hook[o].inactive, hook[o].fate = "lives"
      PROVE  Retain!LockedBy(o) # {} \/ hook[o].explicit > 0
  <2>1. Holders(lock, o) = Retain!LockedBy(o)
    BY DEF Holders, Retain!LockedBy
  <2>2. Total(hook, lock, o) > 0
    BY <1>1 DEF RetainInv, Kept
  <2>3. hook[o].explicit \in Nat
    BY KnownHook
  <2>4. Retain!LockedBy(o) = {} => Cardinality(Holders(lock, o)) = 0
    BY <2>1, FS_EmptySet
  <2> QED BY <2>2, <2>3, <2>4 DEF Total
<1> QED BY <1>1 DEF RetainInv, Pointed, Retain!RetainedByLocks, Retain!Right, Retain!Present

-----------------------------------------------------------------------------
(* Handlers of calls and their registry                                      *)

LEMMA CallSteps == Spec => Calls!Init /\ [][Calls!Next]_(Calls!ipcVars)
<1>1. Init => Calls!Init
  BY DEF Init
<1>2. [Next]_vars => [Calls!Next]_(Calls!ipcVars)
  BY DEF Next, vars, ipcVars, Calls!ipcVars
<1> QED BY <1>1, <1>2, PTL DEF Spec

TheHandlers == DOMAIN HandlerGens
AnyHandler  == [complete : BOOLEAN, enabled : BOOLEAN, target : Targets \cup {Nothing},
                registered : Targets \cup {Nothing}, alive : BOOLEAN]
\* The target under which a handler is to be called.
Due(s) == IF s.alive /\ s.complete /\ s.enabled THEN s.target ELSE Nothing

\* A list of handlers has each of hs once, and the first of it is called.
IsList(l, hs) ==
  /\ l \in Seq(TheHandlers) /\ \A i, j \in 1..Len(l) : l[i] = l[j] => i = j
  /\ \A h \in TheHandlers : h \in hs <=> \E i \in 1..Len(l) : l[i] = h
Lists(l, u, hs) == IsList(l, hs) /\ u = IF l = <<>> THEN Calls!NoHandler ELSE l[1]

RegisteredAs(hd, g, t) == {h \in TheHandlers : HandlerGens[h] = g /\ hd[h].registered = t}
CallType ==
  /\ gens \subseteq CallGens /\ handler \in [TheHandlers -> AnyHandler]
  /\ known \in [CallGens -> [Targets -> Seq(TheHandlers)]]
  /\ used \in [CallGens -> [Targets -> TheHandlers \cup {Calls!NoHandler}]]
RegisteredAsDue ==
  \A h \in TheHandlers :
    /\ HandlerGens[h] \in gens => handler[h].registered = Due(handler[h])
    /\ HandlerGens[h] \notin gens => handler[h].registered = Nothing /\ (~handler[h].complete \/ ~handler[h].alive)
ListsAgree(k, u, hd) ==
  \A g \in CallGens, t \in Targets : Lists(k[g][t], u[g][t], RegisteredAs(hd, g, t))
RegistryInv == CallType /\ RegisteredAsDue /\ ListsAgree(known, used, handler)

\* Sequences without one of their positions.
Lacks(r, S, s, p) ==
  /\ r \in Seq(S) /\ Len(r) = Len(s) - 1
  /\ \A i \in 1..Len(s) - 1 : r[i] = IF i < p THEN s[i] ELSE s[i + 1]

LEMMA WithoutOne ==
  ASSUME NEW S, NEW s \in Seq(S), NEW p \in 1..Len(s)
  PROVE  Lacks(SubSeq(s, 1, p - 1) \o SubSeq(s, p + 1, Len(s)), S, s, p)
<1> DEFINE a == SubSeq(s, 1, p - 1)
           b == SubSeq(s, p + 1, Len(s))
<1>1. Len(s) \in Nat /\ p \in Nat /\ 1 <= p /\ p <= Len(s)
  OBVIOUS
<1>2. a \in Seq(S) /\ Len(a) = p - 1 /\ \A i \in 1..p - 1 : a[i] = s[i]
  BY <1>1, SubSeqProperties
<1>3. b \in Seq(S) /\ Len(b) = Len(s) - p /\ \A i \in 1..Len(s) - p : b[i] = s[p + i]
  BY <1>1, SubSeqProperties
<1> HIDE DEF a, b
<1>4. /\ a \o b \in Seq(S) /\ Len(a \o b) = Len(a) + Len(b)
      /\ \A i \in 1..Len(a) + Len(b) : (a \o b)[i] = IF i <= Len(a) THEN a[i] ELSE b[i - Len(a)]
  BY <1>2, <1>3, ConcatProperties
<1>5. Len(a \o b) = Len(s) - 1
  BY <1>1, <1>2, <1>3, <1>4
<1>6. ASSUME NEW i \in 1..Len(s) - 1 PROVE (a \o b)[i] = IF i < p THEN s[i] ELSE s[i + 1]
  <2>1. i \in Int /\ 1 <= i /\ i <= Len(s) - 1
    BY <1>1
  <2>2. CASE i < p
    <3>1. i \in 1..p - 1
      BY <1>1, <2>1, <2>2
    <3> QED BY <1>1, <1>2, <1>3, <1>4, <2>1, <2>2, <3>1
  <2>3. CASE ~(i < p)
    <3>1. i - (p - 1) \in 1..Len(s) - p /\ p + (i - (p - 1)) = i + 1
      BY <1>1, <2>1, <2>3
    <3>2. b[i - (p - 1)] = s[i + 1]
      BY <1>3, <3>1
    <3>3. (a \o b)[i] = b[i - Len(a)]
      BY <1>1, <1>2, <1>3, <1>4, <2>1, <2>3
    <3> QED BY <1>2, <2>3, <3>2, <3>3
  <2> QED BY <2>2, <2>3
<1> QED BY <1>4, <1>5, <1>6 DEF a, b, Lacks

\* removeOne() takes a handler out, and leaves the others as they follow one another.
LEMMA Removed ==
  ASSUME NEW l, NEW u, NEW hs, NEW h \in hs, hs \subseteq TheHandlers, Lists(l, u, hs)
  PROVE  Lists(Calls!RemoveOne(l, h), IF u = h THEN Calls!NextOf(Calls!RemoveOne(l, h)) ELSE u, hs \ {h})
<1> DEFINE at == {i \in DOMAIN l : l[i] = h}
           r  == Calls!RemoveOne(l, h)
<1>1. l \in Seq(TheHandlers) /\ Len(l) \in Nat /\ DOMAIN l = 1..Len(l)
      /\ (\A i, j \in 1..Len(l) : l[i] = l[j] => i = j)
      /\ \A k \in TheHandlers : k \in hs <=> \E i \in 1..Len(l) : l[i] = k
  BY DEF Lists, IsList
<1>2. PICK p \in 1..Len(l) : l[p] = h
  BY <1>1
<1>3. at = {p}
  BY <1>1, <1>2
<1>4. (CHOOSE i \in at : \A j \in at : i <= j) = p
  BY <1>3
<1>5. r = SubSeq(l, 1, p - 1) \o SubSeq(l, p + 1, Len(l))
  BY <1>3, <1>4 DEF Calls!RemoveOne
<1>6. r \in Seq(TheHandlers) /\ Len(r) = Len(l) - 1
      /\ \A i \in 1..Len(l) - 1 : r[i] = IF i < p THEN l[i] ELSE l[i + 1]
  <2>1. Lacks(SubSeq(l, 1, p - 1) \o SubSeq(l, p + 1, Len(l)), TheHandlers, l, p)
    BY <1>1, WithoutOne
  <2> HIDE DEF r
  <2>2. Lacks(r, TheHandlers, l, p)
    BY <1>5, <2>1
  <2> QED BY <2>2 DEF Lacks
<1> HIDE DEF r, at
<1>7. \A i, j \in 1..Len(r) : r[i] = r[j] => i = j
  <2> SUFFICES ASSUME NEW i \in 1..Len(r), NEW j \in 1..Len(r), r[i] = r[j] PROVE i = j
    OBVIOUS
  <2> DEFINE x == IF i < p THEN i ELSE i + 1
             y == IF j < p THEN j ELSE j + 1
  <2>1. x \in 1..Len(l) /\ y \in 1..Len(l) /\ l[x] = r[i] /\ l[y] = r[j]
    BY <1>1, <1>6
  <2>2. x = y
    BY <1>1, <2>1
  <2> QED BY <1>1, <1>6, <2>2
<1>8. ASSUME NEW k \in TheHandlers
      PROVE  k \in hs \ {h} <=> \E i \in 1..Len(r) : r[i] = k
  <2>1. ASSUME NEW i \in 1..Len(r), r[i] = k PROVE k \in hs \ {h}
    <3> DEFINE x == IF i < p THEN i ELSE i + 1
    <3>1. x \in 1..Len(l) /\ l[x] = r[i] /\ x # p
      BY <1>1, <1>6
    <3> QED BY <1>1, <1>2, <2>1, <3>1
  <2>2. ASSUME k \in hs \ {h} PROVE \E i \in 1..Len(r) : r[i] = k
    <3>1. PICK x \in 1..Len(l) : l[x] = k
      BY <1>1, <2>2
    <3>2. x # p
      BY <1>2, <2>2, <3>1
    <3> DEFINE i == IF x < p THEN x ELSE x - 1
    <3>3. i \in 1..Len(r) /\ r[i] = l[x]
      BY <1>1, <1>6, <3>2
    <3> QED BY <3>1, <3>3
  <2> QED BY <2>1, <2>2
<1>9. IsList(r, hs \ {h})
  BY <1>6, <1>7, <1>8 DEF IsList
<1>10. u = l[1]
  BY <1>1, <1>2 DEF Lists
<1>11. (IF u = h THEN Calls!NextOf(r) ELSE u) = IF r = <<>> THEN Calls!NoHandler ELSE r[1]
  <2>1. CASE u = h
    <3>1. Head(r) = r[1]
      BY <1>6
    <3> QED BY <2>1, <3>1 DEF Calls!NextOf
  <2>2. CASE u # h
    <3>1. p # 1
      BY <1>2, <1>10, <2>2
    <3>2. 1 \in 1..Len(l) - 1 /\ 1 < p
      BY <1>1, <3>1
    <3>3. r[1] = l[1] /\ r # <<>>
      BY <1>1, <1>6, <3>2
    <3> QED BY <1>10, <2>2, <3>3
  <2> QED BY <2>1, <2>2
<1> QED BY <1>9, <1>11 DEF Lists, r

\* A handler that registers comes last.
LEMMA Added ==
  ASSUME NEW l, NEW u, NEW hs, NEW h \in TheHandlers, h \notin hs, Lists(l, u, hs)
  PROVE  Lists(Append(l, h), IF u = Calls!NoHandler THEN h ELSE u, hs \cup {h})
<1> DEFINE r == Append(l, h)
<1>1. l \in Seq(TheHandlers) /\ Len(l) \in Nat
      /\ (\A i, j \in 1..Len(l) : l[i] = l[j] => i = j)
      /\ \A k \in TheHandlers : k \in hs <=> \E i \in 1..Len(l) : l[i] = k
  BY DEF Lists, IsList
<1>2. r \in Seq(TheHandlers) /\ Len(r) = Len(l) + 1 /\ r[Len(l) + 1] = h /\ \A i \in 1..Len(l) : r[i] = l[i]
  BY <1>1, AppendProperties
<1> HIDE DEF r
<1>3. \A i \in 1..Len(l) : l[i] # h
  BY <1>1
<1>4. \A i, j \in 1..Len(r) : r[i] = r[j] => i = j
  <2>1. \A i \in 1..Len(r) : i \in 1..Len(l) \/ i = Len(l) + 1
    BY <1>1, <1>2
  <2> QED BY <1>1, <1>2, <1>3, <2>1
<1>5. ASSUME NEW k \in TheHandlers
      PROVE  k \in hs \cup {h} <=> \E i \in 1..Len(r) : r[i] = k
  <2>1. \A i \in 1..Len(r) : i \in 1..Len(l) \/ i = Len(l) + 1
    BY <1>1, <1>2
  <2>2. \A i \in 1..Len(l) : i \in 1..Len(r)
    BY <1>1, <1>2
  <2>3. Len(l) + 1 \in 1..Len(r)
    BY <1>1, <1>2
  <2> QED BY <1>1, <1>2, <2>1, <2>2, <2>3
<1>6. IsList(r, hs \cup {h})
  BY <1>2, <1>4, <1>5 DEF IsList
<1>7. (IF u = Calls!NoHandler THEN h ELSE u) = IF r = <<>> THEN Calls!NoHandler ELSE r[1]
  <2>1. r # <<>>
    BY <1>1, <1>2
  <2>2. CASE l = <<>>
    <3>1. u = Calls!NoHandler
      BY <2>2 DEF Lists
    <3>2. Len(l) = 0
      BY <2>2
    <3> QED BY <1>2, <2>1, <3>1, <3>2
  <2>3. CASE l # <<>>
    <3>1. 1 \in 1..Len(l)
      BY <1>1, <2>3
    <3>2. u = l[1] /\ l[1] \in TheHandlers
      BY <1>1, <2>3, <3>1 DEF Lists
    <3>3. u # Calls!NoHandler
      BY <3>2, HandlersHaveGenerations DEF Calls!NoHandler, TheHandlers
    <3> QED BY <1>2, <2>1, <3>1, <3>2, <3>3
  <2> QED BY <2>2, <2>3
<1> QED BY <1>6, <1>7 DEF Lists, r

\* updateRegistration() of a handler of a generation there is.
LEMMA UpdateKeeps ==
  ASSUME RegistryInv, NEW h \in TheHandlers, HandlerGens[h] \in gens, NEW s \in AnyHandler,
         s.registered = handler[h].registered, s.alive \/ ~s.enabled,
         s.complete \/ handler[h].registered = Nothing, gens' = gens, Calls!UpdateRegistration(h, s)
  PROVE  RegistryInv'
<1> DEFINE a == s.registered
           g == HandlerGens[h]
           t == IF s.enabled /\ s.target # Nothing THEN s.target ELSE Nothing
<1>1. CallType /\ RegisteredAsDue /\ ListsAgree(known, used, handler)
  BY DEF RegistryInv
<1>2. g \in CallGens /\ a \in Targets \cup {Nothing} /\ t \in Targets \cup {Nothing}
  BY HandlersHaveGenerations DEF AnyHandler, TheHandlers
<1>3. CASE ~s.complete
  <2>1. handler' = [handler EXCEPT ![h] = s] /\ known' = known /\ used' = used
    BY <1>3 DEF Calls!UpdateRegistration
  <2>2. CallType'
    BY <1>1, <2>1 DEF CallType
  <2>3. RegisteredAsDue'
    BY <1>1, <1>3, <2>1 DEF RegisteredAsDue, CallType, Due
  <2>4. \A x \in CallGens, y \in Targets : RegisteredAs(handler', x, y) = RegisteredAs(handler, x, y)
    BY <1>1, <2>1 DEF RegisteredAs, CallType
  <2>5. ListsAgree(known', used', handler')
    BY <1>1, <2>1, <2>4 DEF ListsAgree
  <2> QED BY <2>2, <2>3, <2>5 DEF RegistryInv
<1>4. CASE s.complete
  <2> DEFINE r  == IF a = Nothing THEN Calls!Registry ELSE Calls!DeregisterHandler(Calls!Registry, h, a)
             r2 == IF t = Nothing THEN r ELSE Calls!RegisterHandler(r, h, t)
             left == Calls!RemoveOne(known[g][a], h)
  <2>1. known' = r2.known /\ used' = r2.used /\ handler' = [handler EXCEPT ![h] = [s EXCEPT !.registered = t]]
    BY <1>4, HandlersHaveGenerations DEF Calls!UpdateRegistration, Calls!RegistryBecomes
  <2>2. /\ r.known \in [CallGens -> [Targets -> Seq(TheHandlers)]]
        /\ r.used \in [CallGens -> [Targets -> TheHandlers \cup {Calls!NoHandler}]]
        /\ \A x \in CallGens, y \in Targets : Lists(r.known[x][y], r.used[x][y], RegisteredAs(handler, x, y) \ {h})
    <3>1. CASE a = Nothing
      <4>1. r.known = known /\ r.used = used
        BY <3>1 DEF Calls!Registry
      <4>2. \A x \in CallGens, y \in Targets : RegisteredAs(handler, x, y) \ {h} = RegisteredAs(handler, x, y)
        BY <3>1, HandlersHaveGenerations DEF RegisteredAs
      <4> QED BY <1>1, <4>1, <4>2 DEF CallType, ListsAgree
    <3>2. CASE a # Nothing
      <4>1. a \in Targets /\ h \in RegisteredAs(handler, g, a)
        BY <1>2, <3>2 DEF RegisteredAs
      <4>2. Lists(known[g][a], used[g][a], RegisteredAs(handler, g, a))
        BY <1>1, <1>2, <4>1 DEF ListsAgree
      <4>3. Lists(left, IF used[g][a] = h THEN Calls!NextOf(left) ELSE used[g][a], RegisteredAs(handler, g, a) \ {h})
        <5>1. RegisteredAs(handler, g, a) \subseteq TheHandlers
          BY DEF RegisteredAs
        <5> QED BY <4>1, <4>2, <5>1, Removed
      <4>4. /\ r.known = [known EXCEPT ![g][a] = left]
            /\ r.used = [used EXCEPT ![g][a] = IF used[g][a] = h THEN Calls!NextOf(left) ELSE used[g][a]]
        BY <3>2 DEF Calls!Registry, Calls!DeregisterHandler
      <4> DEFINE v == IF used[g][a] = h THEN Calls!NextOf(left) ELSE used[g][a]
      <4>5. left \in Seq(TheHandlers) /\ v \in TheHandlers \cup {Calls!NoHandler}
        <5>1. left \in Seq(TheHandlers) /\ v = IF left = <<>> THEN Calls!NoHandler ELSE left[1]
          BY <4>3 DEF Lists, IsList
        <5> HIDE DEF left, v
        <5>2. left # <<>> => left[1] \in TheHandlers
          BY <5>1
        <5> QED BY <5>1, <5>2
      <4> HIDE DEF left, v, r
      <4>6. ASSUME NEW x \in CallGens, NEW y \in Targets
            PROVE  Lists(r.known[x][y], r.used[x][y], RegisteredAs(handler, x, y) \ {h})
        <5>1. CASE x = g /\ y = a
          <6>1. r.known[x][y] = left /\ r.used[x][y] = v
            BY <1>1, <1>2, <4>1, <4>4, <5>1 DEF CallType, v
          <6> QED BY <4>3, <5>1, <6>1 DEF v
        <5>2. CASE ~(x = g /\ y = a)
          <6>1. r.known[x][y] = known[x][y] /\ r.used[x][y] = used[x][y]
            BY <1>1, <1>2, <4>1, <4>4, <5>2 DEF CallType
          <6>2. h \notin RegisteredAs(handler, x, y)
            BY <5>2 DEF RegisteredAs
          <6>3. RegisteredAs(handler, x, y) \ {h} = RegisteredAs(handler, x, y)
            BY <6>2
          <6> QED BY <1>1, <6>1, <6>3 DEF ListsAgree
        <5> QED BY <5>1, <5>2
      <4>7. /\ r.known \in [CallGens -> [Targets -> Seq(TheHandlers)]]
            /\ r.used \in [CallGens -> [Targets -> TheHandlers \cup {Calls!NoHandler}]]
        BY <1>1, <1>2, <4>1, <4>4, <4>5 DEF CallType, v
      <4> QED BY <4>6, <4>7
    <3> QED BY <3>1, <3>2
  <2> HIDE DEF r
  <2> DEFINE Now(x, y) == IF x = g /\ y = t THEN (RegisteredAs(handler, x, y) \ {h}) \cup {h}
                          ELSE RegisteredAs(handler, x, y) \ {h}
  <2>3. /\ known' \in [CallGens -> [Targets -> Seq(TheHandlers)]]
        /\ used' \in [CallGens -> [Targets -> TheHandlers \cup {Calls!NoHandler}]]
        /\ \A x \in CallGens, y \in Targets : Lists(known'[x][y], used'[x][y], Now(x, y))
    <3>1. CASE t = Nothing
      <4>1. known' = r.known /\ used' = r.used
        BY <2>1, <3>1
      <4>2. \A x \in CallGens, y \in Targets : Now(x, y) = RegisteredAs(handler, x, y) \ {h}
        BY <3>1, HandlersHaveGenerations
      <4> HIDE DEF t, Now
      <4> QED BY <2>2, <4>1, <4>2
    <3>2. CASE t # Nothing
      <4>1. t \in Targets
        BY <1>2, <3>2
      <4> HIDE DEF t
      <4> DEFINE more == Append(r.known[g][t], h)
                 v    == IF r.used[g][t] = Calls!NoHandler THEN h ELSE r.used[g][t]
      <4>2. known' = [r.known EXCEPT ![g][t] = more] /\ used' = [r.used EXCEPT ![g][t] = v]
        BY <2>1, <3>2 DEF Calls!RegisterHandler
      <4>3. Lists(r.known[g][t], r.used[g][t], RegisteredAs(handler, g, t) \ {h})
        BY <1>2, <2>2, <4>1
      <4>4. Lists(more, v, (RegisteredAs(handler, g, t) \ {h}) \cup {h})
        BY <4>3, Added
      <4>5. more \in Seq(TheHandlers) /\ v \in TheHandlers \cup {Calls!NoHandler}
        <5>1. more \in Seq(TheHandlers)
          BY <4>4 DEF Lists, IsList
        <5> QED BY <1>2, <2>2, <4>1, <5>1
      <4> HIDE DEF more, v
      <4>6. ASSUME NEW x \in CallGens, NEW y \in Targets
            PROVE  Lists(known'[x][y], used'[x][y], Now(x, y))
        <5>1. CASE x = g /\ y = t
          <6>1. known'[x][y] = more /\ used'[x][y] = v
            BY <1>2, <2>2, <4>1, <4>2, <5>1
          <6> QED BY <4>4, <5>1, <6>1
        <5>2. CASE ~(x = g /\ y = t)
          <6>1. known'[x][y] = r.known[x][y] /\ used'[x][y] = r.used[x][y]
            BY <1>2, <2>2, <4>1, <4>2, <5>2
          <6> QED BY <2>2, <5>2, <6>1
        <5> QED BY <5>1, <5>2
      <4>7. /\ known' \in [CallGens -> [Targets -> Seq(TheHandlers)]]
            /\ used' \in [CallGens -> [Targets -> TheHandlers \cup {Calls!NoHandler}]]
        BY <1>2, <2>2, <4>1, <4>2, <4>5
      <4> QED BY <4>6, <4>7
    <3> QED BY <3>1, <3>2
  <2>4. handler' \in [TheHandlers -> AnyHandler] /\ handler'[h] = [s EXCEPT !.registered = t]
        /\ \A k \in TheHandlers : k # h => handler'[k] = handler[k]
    <3>1. [s EXCEPT !.registered = t] \in AnyHandler
      BY <1>2 DEF AnyHandler
    <3> HIDE DEF t
    <3> QED BY <1>1, <2>1, <3>1 DEF CallType
  <2>5. handler'[h].registered = t /\ Due(handler'[h]) = t
    <3>1. handler'[h].registered = t /\ handler'[h].alive = s.alive /\ handler'[h].enabled = s.enabled
          /\ handler'[h].complete = s.complete /\ handler'[h].target = s.target
      BY <2>4 DEF AnyHandler
    <3> QED BY <1>4, <3>1 DEF Due
  <2>6. \A x \in CallGens, y \in Targets : RegisteredAs(handler', x, y) = Now(x, y)
    BY <2>4, <2>5 DEF RegisteredAs
  <2> HIDE DEF t, Now
  <2>7. CallType'
    BY <1>1, <2>3, <2>4 DEF CallType
  <2>8. RegisteredAsDue'
    BY <1>1, <2>4, <2>5 DEF RegisteredAsDue
  <2>9. ListsAgree(known', used', handler')
    BY <2>3, <2>6 DEF ListsAgree
  <2> QED BY <2>7, <2>8, <2>9 DEF RegistryInv
<1> QED BY <1>3, <1>4 DEF AnyHandler

LEMMA InitRegistry == Calls!Init => RegistryInv
<1> SUFFICES ASSUME Calls!Init PROVE RegistryInv
  OBVIOUS
<1>1. PICK t \in Targets \cup {Nothing} : handler = [h \in TheHandlers |-> [Calls!NewHandler EXCEPT !.target = t]]
  BY DEF Calls!Init, TheHandlers
<1>2. [Calls!NewHandler EXCEPT !.target = t] \in AnyHandler
      /\ [Calls!NewHandler EXCEPT !.target = t].registered = Nothing
      /\ [Calls!NewHandler EXCEPT !.target = t].complete = FALSE
  BY DEF Calls!NewHandler, AnyHandler
<1>3. gens = {1} /\ known = [g \in CallGens |-> [x \in Targets |-> <<>>]]
      /\ used = [g \in CallGens |-> [x \in Targets |-> Calls!NoHandler]]
  BY DEF Calls!Init
<1>4. <<>> \in Seq(TheHandlers) /\ Len(<<>>) = 0
  BY EmptySeq
<1>5. CallType
  BY <1>1, <1>2, <1>3, <1>4, HandlersHaveGenerations DEF CallType
<1>6. RegisteredAsDue
  <2>1. \A h \in TheHandlers : handler[h].registered = Nothing /\ handler[h].complete = FALSE
    BY <1>1, <1>2
  <2> QED BY <2>1 DEF RegisteredAsDue, Due
<1>7. \A x \in CallGens, y \in Targets : RegisteredAs(handler, x, y) = {}
  BY <1>1, <1>2, HandlersHaveGenerations DEF RegisteredAs
<1>8. ListsAgree(known, used, handler)
  BY <1>3, <1>4, <1>7 DEF ListsAgree, Lists, IsList
<1> QED BY <1>5, <1>6, <1>8 DEF RegistryInv

LEMMA ReloadKeeps == ASSUME RegistryInv, Calls!Reload PROVE RegistryInv'
<1>1. PICK g \in CallGens : gens' = gens \cup {g}
  BY DEF Calls!Reload
<1>2. UNCHANGED <<handler, known, used>>
  BY DEF Calls!Reload
<1>3. CallType /\ RegisteredAsDue /\ ListsAgree(known, used, handler)
  BY DEF RegistryInv
<1>4. CallType'
  BY <1>1, <1>2, <1>3 DEF CallType
<1>5. RegisteredAsDue'
  BY <1>1, <1>2, <1>3 DEF RegisteredAsDue, Due
<1> QED BY <1>2, <1>3, <1>4, <1>5 DEF RegistryInv

LEMMA OldGoesKeeps == ASSUME RegistryInv, Calls!OldGoes PROVE RegistryInv'
<1> DEFINE g == CHOOSE x \in gens : \A y \in gens : x <= y
<1>1. /\ gens' = gens \ {g}
      /\ handler' = [h \in TheHandlers |-> IF HandlerGens[h] = g THEN [handler[h] EXCEPT !.alive = FALSE, !.registered = Nothing]
                                           ELSE handler[h]]
      /\ known' = [known EXCEPT ![g] = [t \in Targets |-> <<>>]]
      /\ used' = [used EXCEPT ![g] = [t \in Targets |-> Calls!NoHandler]]
  BY DEF Calls!OldGoes, TheHandlers
<1> HIDE DEF g
<1>2. CallType /\ RegisteredAsDue /\ ListsAgree(known, used, handler)
  BY DEF RegistryInv
<1>3. <<>> \in Seq(TheHandlers) /\ Len(<<>>) = 0
  BY EmptySeq
<1>4. ASSUME NEW h \in TheHandlers
      PROVE  /\ handler'[h] \in AnyHandler
             /\ HandlerGens[h] # g => handler'[h] = handler[h]
             /\ HandlerGens[h] = g => handler'[h].registered = Nothing /\ handler'[h].alive = FALSE
  <2>1. handler[h] \in AnyHandler
    BY <1>2 DEF CallType
  <2>2. [handler[h] EXCEPT !.alive = FALSE, !.registered = Nothing] \in AnyHandler
        /\ [handler[h] EXCEPT !.alive = FALSE, !.registered = Nothing].registered = Nothing
        /\ [handler[h] EXCEPT !.alive = FALSE, !.registered = Nothing].alive = FALSE
    BY <2>1 DEF AnyHandler
  <2> QED BY <1>1, <2>1, <2>2
<1>5. CallType'
  <2>1. handler' \in [TheHandlers -> AnyHandler]
    BY <1>1, <1>4
  <2> QED BY <1>1, <1>2, <1>3, <2>1 DEF CallType
<1>6. RegisteredAsDue'
  BY <1>1, <1>2, <1>4 DEF RegisteredAsDue, Due
<1>7. ASSUME NEW x \in CallGens, NEW y \in Targets
      PROVE  Lists(known'[x][y], used'[x][y], RegisteredAs(handler', x, y))
  <2>1. CASE x = g
    <3>1. RegisteredAs(handler', x, y) = {}
      BY <1>4, <2>1, HandlersHaveGenerations DEF RegisteredAs
    <3>2. known'[x][y] = <<>> /\ used'[x][y] = Calls!NoHandler
      BY <1>1, <1>2, <2>1 DEF CallType
    <3> QED BY <1>3, <3>1, <3>2 DEF Lists, IsList
  <2>2. CASE x # g
    <3>1. RegisteredAs(handler', x, y) = RegisteredAs(handler, x, y)
      BY <1>4, <2>2 DEF RegisteredAs
    <3>2. known'[x][y] = known[x][y] /\ used'[x][y] = used[x][y]
      BY <1>1, <1>2, <2>2 DEF CallType
    <3> QED BY <1>2, <3>1, <3>2 DEF ListsAgree
  <2> QED BY <2>1, <2>2
<1>8. ListsAgree(known', used', handler')
  BY <1>7 DEF ListsAgree
<1> QED BY <1>5, <1>6, <1>8 DEF RegistryInv

LEMMA ConfiguresKeeps ==
  ASSUME RegistryInv, NEW h \in TheHandlers, Calls!Configures(h),
         \/ \E e \in BOOLEAN : Calls!SetEnabled(h, e)
         \/ \E t \in Targets \cup {Nothing} : Calls!SetTarget(h, t)
         \/ Calls!OnPostReload(h) \/ Calls!Destroy(h)
  PROVE  RegistryInv'
<1> DEFINE s == handler[h]
<1>1. s \in AnyHandler /\ gens' = gens /\ HandlerGens[h] \in gens /\ s.alive /\ s.registered = Due(s)
  BY DEF RegistryInv, CallType, RegisteredAsDue, Calls!Configures
<1>2. s.complete \/ s.registered = Nothing
  BY <1>1 DEF Due
<1> HIDE DEF s
<1>3. ASSUME NEW e \in BOOLEAN, Calls!SetEnabled(h, e) PROVE RegistryInv'
  <2>1. PICK z : z = [s EXCEPT !.enabled = e]
    OBVIOUS
  <2>2. Calls!UpdateRegistration(h, z)
    BY <1>3, <2>1 DEF Calls!SetEnabled, s
  <2>3. z \in AnyHandler /\ z.registered = s.registered /\ z.alive /\ z.complete = s.complete
    BY <1>1, <2>1 DEF AnyHandler
  <2> QED BY <1>1, <1>2, <2>2, <2>3, UpdateKeeps DEF s
<1>4. ASSUME NEW t \in Targets \cup {Nothing}, Calls!SetTarget(h, t) PROVE RegistryInv'
  <2>1. PICK z : z = [s EXCEPT !.target = t]
    OBVIOUS
  <2>2. Calls!UpdateRegistration(h, z)
    BY <1>4, <2>1 DEF Calls!SetTarget, s
  <2>3. z \in AnyHandler /\ z.registered = s.registered /\ z.alive /\ z.complete = s.complete
    BY <1>1, <2>1 DEF AnyHandler
  <2> QED BY <1>1, <1>2, <2>2, <2>3, UpdateKeeps DEF s
<1>5. CASE Calls!OnPostReload(h)
  <2>1. PICK z : z = [s EXCEPT !.complete = TRUE]
    OBVIOUS
  <2>2. Calls!UpdateRegistration(h, z)
    BY <1>5, <2>1 DEF Calls!OnPostReload, s
  <2>3. z \in AnyHandler /\ z.registered = s.registered /\ z.alive /\ z.complete
    BY <1>1, <2>1 DEF AnyHandler
  <2> QED BY <1>1, <1>2, <2>2, <2>3, UpdateKeeps DEF s
<1>6. CASE Calls!Destroy(h)
  <2>1. CASE s.registered # Nothing
    <3>1. PICK z : z = [s EXCEPT !.enabled = FALSE, !.alive = FALSE]
      OBVIOUS
    <3>2. Calls!UpdateRegistration(h, z)
      BY <1>6, <2>1, <3>1 DEF Calls!Destroy, s
    <3>3. z \in AnyHandler /\ z.registered = s.registered /\ ~z.enabled /\ z.complete = s.complete
      BY <1>1, <3>1 DEF AnyHandler
    <3> QED BY <1>1, <1>2, <3>2, <3>3, UpdateKeeps DEF s
  <2>2. CASE s.registered = Nothing
    <3>1. handler' = [handler EXCEPT ![h].alive = FALSE] /\ known' = known /\ used' = used
      BY <1>6, <2>2 DEF Calls!Destroy, s
    <3>2. PICK z : z = [s EXCEPT !.alive = FALSE]
      OBVIOUS
    <3>3. z \in AnyHandler /\ z.registered = Nothing /\ ~z.alive
      BY <1>1, <2>2, <3>2 DEF AnyHandler
    <3>4. CallType /\ RegisteredAsDue /\ ListsAgree(known, used, handler)
      BY DEF RegistryInv
    <3>5. handler' = [handler EXCEPT ![h] = z]
      BY <3>1, <3>2 DEF s
    <3>6. CallType'
      BY <1>1, <3>1, <3>3, <3>4, <3>5 DEF CallType
    <3>7. RegisteredAsDue'
      BY <1>1, <3>3, <3>4, <3>5 DEF RegisteredAsDue, CallType, Due
    <3>8. \A x \in CallGens, y \in Targets : RegisteredAs(handler', x, y) = RegisteredAs(handler, x, y)
      BY <2>2, <3>3, <3>4, <3>5 DEF RegisteredAs, CallType, s
    <3>9. ListsAgree(known', used', handler')
      BY <3>1, <3>4, <3>8 DEF ListsAgree
    <3> QED BY <3>6, <3>7, <3>9 DEF RegistryInv
  <2> QED BY <2>1, <2>2
<1> QED BY <1>3, <1>4, <1>5, <1>6

LEMMA NextRegistry == ASSUME RegistryInv, [Calls!Next]_(Calls!ipcVars) PROVE RegistryInv'
<1>1. ASSUME NEW h \in TheHandlers,
             \/ \E e \in BOOLEAN : Calls!SetEnabled(h, e)
             \/ \E t \in Targets \cup {Nothing} : Calls!SetTarget(h, t)
             \/ Calls!OnPostReload(h) \/ Calls!Destroy(h)
      PROVE  RegistryInv'
  <2>1. Calls!Configures(h)
    BY <1>1 DEF Calls!SetEnabled, Calls!SetTarget, Calls!OnPostReload, Calls!Destroy
  <2> QED BY <1>1, <2>1, ConfiguresKeeps
<1>2. CASE UNCHANGED <<gens, handler, known, used>>
  BY <1>2 DEF RegistryInv, CallType, RegisteredAsDue
<1>3. ASSUME NEW h \in TheHandlers, Calls!OnSignalTriggered(h) PROVE RegistryInv'
  BY <1>2, <1>3 DEF Calls!OnSignalTriggered
<1>4. ASSUME NEW c \in Clients,
             \/ Calls!Read(c) \/ Calls!HangUp(c) \/ Calls!OnReadyRead(c) \/ Calls!OnRest(c) \/ Calls!OnDisconnected(c)
             \/ \E command \in Calls!Commands, p \in 1..2 : Calls!Send(c, command, p)
      PROVE  RegistryInv'
  BY <1>2, <1>4 DEF Calls!Read, Calls!HangUp, Calls!OnReadyRead, Calls!OnRest, Calls!OnDisconnected, Calls!Send
<1> QED BY <1>1, <1>2, <1>3, <1>4, ReloadKeeps, OldGoesKeeps DEF Calls!Next, Calls!ipcVars, TheHandlers

LEMMA RegistryIs == RegistryInv => Calls!RegistryHolds
<1> SUFFICES ASSUME RegistryInv, NEW g \in gens, NEW t \in Targets
             PROVE  /\ Calls!Range(known[g][t]) = {h \in TheHandlers : handler[h].alive /\ handler[h].complete /\ handler[h].enabled
                                                     /\ HandlerGens[h] = g /\ handler[h].target = t}
                    /\ \A i, j \in DOMAIN known[g][t] : known[g][t][i] = known[g][t][j] => i = j
                    /\ used[g][t] = IF known[g][t] = <<>> THEN Calls!NoHandler ELSE Head(known[g][t])
  BY DEF Calls!RegistryHolds, TheHandlers
<1>1. g \in CallGens /\ Lists(known[g][t], used[g][t], RegisteredAs(handler, g, t))
  BY DEF RegistryInv, CallType, ListsAgree
<1>2. PICK l : l = known[g][t]
  OBVIOUS
<1>3. /\ l \in Seq(TheHandlers) /\ DOMAIN l = 1..Len(l) /\ \A i, j \in 1..Len(l) : l[i] = l[j] => i = j
      /\ \A h \in TheHandlers : h \in RegisteredAs(handler, g, t) <=> \E i \in 1..Len(l) : l[i] = h
      /\ used[g][t] = IF l = <<>> THEN Calls!NoHandler ELSE l[1]
  BY <1>1, <1>2 DEF Lists, IsList
<1>4. \A h \in TheHandlers : h \in RegisteredAs(handler, g, t) <=>
        handler[h].alive /\ handler[h].complete /\ handler[h].enabled /\ HandlerGens[h] = g /\ handler[h].target = t
  BY HandlersHaveGenerations DEF RegistryInv, RegisteredAsDue, RegisteredAs, Due
<1>5. \A i \in 1..Len(l) : l[i] \in TheHandlers
  BY <1>3
<1>6. Calls!Range(l) = {l[i] : i \in 1..Len(l)}
  BY <1>3 DEF Calls!Range
<1>7. l # <<>> => Head(l) = l[1]
  BY <1>3
<1> QED BY <1>2, <1>3, <1>4, <1>5, <1>6, <1>7

-----------------------------------------------------------------------------
(* Files that are watched                                                    *)

LEMMA LiveSteps == Spec => Live!Init /\ [][Live!Next]_(Live!liveVars)
<1>1. Init => Live!Init
  BY DEF Init
<1>2. [Next]_vars => [Live!Next]_(Live!liveVars)
  BY DEF Next, Parts, vars, liveVars, Live!liveVars
<1> QED BY <1>1, <1>2, PTL DEF Spec

AnyText  == RootTexts \cup TypeTexts \cup {"absent", "empty", "none", "masked"}
AnyWatch == [on : BOOLEAN, files : SUBSET Live!Files, live : SUBSET Live!Files, dirs : SUBSET Live!Files]
LiveType ==
  /\ disk \in [Live!Files -> AnyText]
  /\ gen \in [hash : [Live!Files -> AnyText], scanned : SUBSET Live!Files, extra : SUBSET Live!Files, deleted : SUBSET Live!Files]
  /\ watch \in AnyWatch /\ watchFiles \in BOOLEAN
  /\ load \in [step : {"idle", "scan", "load"}, hash : [Live!Files -> AnyText]]
  /\ tooling \in [ini : BOOLEAN, ours : BOOLEAN, links : [Live!Files -> BOOLEAN]]

\* The tooling has been told of, and its links were not yet looked after.
Told(n)      == <<"root", "tooling">> \in n
NoLinks(t)   == \A f \in Live!Files : ~t.links[f]
LinksAreTold(t, n) == (~t.ours => NoLinks(t)) /\ (t.ours /\ ~t.ini => NoLinks(t) \/ Told(n))
LiveInv ==
  /\ LiveType
  /\ watch.on => watchFiles
  /\ "setting" \notin lost => watch.on = watchFiles
  /\ LinksAreTold(tooling, notices)

LEMMA InitLive == Live!Init => LiveInv
<1> SUFFICES ASSUME Live!Init PROVE LiveInv
  OBVIOUS
<1>1. disk \in [Live!Files -> AnyText]
  BY DEF Live!Init, AnyText
<1>2. gen \in [hash : [Live!Files -> AnyText], scanned : SUBSET Live!Files, extra : SUBSET Live!Files, deleted : SUBSET Live!Files]
  <2>1. \A f \in Live!Files : Live!HashOf(f, disk[f]) \in AnyText /\ "none" \in AnyText
    BY <1>1 DEF Live!HashOf, AnyText
  <2> QED BY <2>1 DEF Live!Init, Live!Files
<1>3. watchFiles \in BOOLEAN
  BY DEF Live!Init
<1>4. gen.scanned \subseteq Live!Files
  BY <1>2
<1>5. watch = IF watchFiles THEN Live!WatchOf(gen.scanned) ELSE Live!NoWatch
  BY DEF Live!Init
<1>6. watch \in AnyWatch /\ watch.on = watchFiles
  BY <1>3, <1>4, <1>5 DEF Live!WatchOf, Live!NoWatch, AnyWatch
<1>7. load \in [step : {"idle", "scan", "load"}, hash : [Live!Files -> AnyText]]
  BY DEF Live!Init, Live!Idle, Live!NoHash, AnyText
<1>8. tooling \in [ini : BOOLEAN, ours : BOOLEAN, links : [Live!Files -> BOOLEAN]] /\ NoLinks(tooling)
  BY DEF Live!Init, NoLinks
<1> QED BY <1>1, <1>2, <1>3, <1>6, <1>7, <1>8 DEF LiveInv, LiveType, LinksAreTold

\* Setting the links leaves the lock and .qmlls.ini, and removes all of them without one.
LEMMA UpdateToolingIs ==
  ASSUME LiveInv, NEW h \in [Live!Files -> AnyText], Live!UpdateTooling(h)
  PROVE  /\ tooling' \in [ini : BOOLEAN, ours : BOOLEAN, links : [Live!Files -> BOOLEAN]]
         /\ disk' \in [Live!Files -> AnyText]
         /\ \A n : LinksAreTold(tooling', n)
<1>1. tooling \in [ini : BOOLEAN, ours : BOOLEAN, links : [Live!Files -> BOOLEAN]] /\ disk \in [Live!Files -> AnyText]
  BY DEF LiveInv, LiveType
<1>2. PICK k \in [Live!Files -> BOOLEAN] : k = Live!Links(h)
  <2>1. \A f \in Live!Files : Live!There(f) \in BOOLEAN
    BY DEF Live!There
  <2> QED BY <1>1, <2>1 DEF Live!Links
<1>3. /\ ~tooling.ours => k = tooling.links
      /\ tooling.ours /\ ~tooling.ini => k = [f \in Live!Files |-> FALSE]
  BY <1>2 DEF Live!Links
<1>4. tooling' = [tooling EXCEPT !.links = k]
  BY <1>2 DEF Live!UpdateTooling
<1>5. /\ tooling' \in [ini : BOOLEAN, ours : BOOLEAN, links : [Live!Files -> BOOLEAN]]
      /\ tooling'.ours = tooling.ours /\ tooling'.ini = tooling.ini /\ tooling'.links = k
  BY <1>1, <1>4
<1>6. disk' \in [Live!Files -> AnyText]
  <2>1. \A f \in Live!Files : disk[f] \in AnyText /\ Live!Masked(h[f]) \in AnyText
    BY <1>1 DEF Live!Masked, AnyText
  <2> QED BY <2>1 DEF Live!UpdateTooling
<1>7. \A n : LinksAreTold(tooling', n)
  BY <1>3, <1>5 DEF LiveInv, LinksAreTold, NoLinks
<1> QED BY <1>5, <1>6, <1>7

\* What the settings and the links ask for stays, whatever else happens.
LEMMA LiveStays ==
  ASSUME LiveInv, LiveType', watch'.on = watch.on, watchFiles' = watchFiles, "setting" \in lost' <=> "setting" \in lost,
         LinksAreTold(tooling', notices')
  PROVE  LiveInv'
BY DEF LiveInv
LEMMA ToldStays ==
  ASSUME LiveInv, Told(notices) => Told(notices')
  PROVE  LinksAreTold(tooling, notices')
BY DEF LiveInv, LinksAreTold

\* Users and other programs.
LEMMA EditKeeps ==
  ASSUME LiveInv, NEW f \in Live!Files,
         Live!Truncate(f) \/ (\E t \in Live!Texts(f) : Live!Fill(f, t) \/ Live!Replace(f, t)) \/ Live!Delete(f)
  PROVE  LiveInv'
<1>1. \A t \in Live!Texts(f) : t \in AnyText
  BY DEF Live!Texts, AnyText
<1>2. "empty" \in AnyText /\ "absent" \in AnyText
  BY DEF AnyText
<1>3. PICK u \in AnyText : Live!Writes(f, u)
  BY <1>1, <1>2 DEF Live!Truncate, Live!Fill, Live!Replace, Live!Delete
<1>4. disk' \in [Live!Files -> AnyText]
  BY <1>3 DEF Live!Writes, LiveInv, LiveType
<1>5. gen' = gen /\ watchFiles' = watchFiles /\ load' = load /\ tooling' = tooling
  BY <1>3 DEF Live!Writes
<1>6. "setting" \in lost' <=> "setting" \in lost
  BY <1>3 DEF Live!Writes, Live!Files
<1>7. watch' \in AnyWatch /\ watch'.on = watch.on
  <2>1. watch' = watch \/ watch' = [watch EXCEPT !.live = watch.live \ {f}]
    BY DEF Live!Truncate, Live!Fill, Live!Replace, Live!Delete
  <2> QED BY <2>1 DEF LiveInv, LiveType, AnyWatch
<1>8. Told(notices) => Told(notices')
  BY DEF Live!Truncate, Live!Fill, Live!Replace, Live!Delete, Told
<1>9. LiveType'
  BY <1>4, <1>5, <1>7 DEF LiveInv, LiveType
<1> QED BY <1>5, <1>6, <1>7, <1>8, <1>9, ToldStays, LiveStays

\* A reload begins, or not.
LEMMA BeginReloadIs ==
  ASSUME LiveInv, Live!BeginReload \/ UNCHANGED <<load, tried, lost>>
  PROVE  load' \in [step : {"idle", "scan", "load"}, hash : [Live!Files -> AnyText]] /\ ("setting" \in lost' <=> "setting" \in lost)
<1>1. CASE Live!BeginReload
  <2>1. Live!HashOf("root", disk["root"]) \in AnyText /\ Live!NoHash \in [Live!Files -> AnyText]
    BY DEF Live!HashOf, Live!NoHash, LiveInv, LiveType, AnyText, Live!Files
  <2> QED BY <1>1, <2>1 DEF Live!BeginReload
<1>2. CASE UNCHANGED <<load, tried, lost>>
  BY <1>2 DEF LiveInv, LiveType
<1> QED BY <1>1, <1>2

LEMMA NoticeKeeps ==
  ASSUME LiveInv, NEW f \in Live!Files,
         Live!FileChanged(f) \/ Live!FileGone(f) \/ Live!DirectoryChanged(f) \/ Live!UserReload
  PROVE  LiveInv'
<1>1. disk' = disk /\ watchFiles' = watchFiles /\ tooling' = tooling
  BY DEF Live!FileChanged, Live!FileGone, Live!DirectoryChanged, Live!UserReload
<1>2. gen' = gen \/ gen' = [gen EXCEPT !.deleted = gen.deleted \cup {f}]
  BY DEF Live!FileChanged, Live!FileGone, Live!DirectoryChanged, Live!UserReload
<1>3. watch' = watch \/ watch' = [watch EXCEPT !.files = watch.files \ {f}]
  BY DEF Live!FileChanged, Live!FileGone, Live!DirectoryChanged, Live!UserReload
<1>4. Told(notices) => Told(notices')
  BY DEF Live!FileChanged, Live!FileGone, Live!DirectoryChanged, Live!UserReload, Told
<1>5. load' \in [step : {"idle", "scan", "load"}, hash : [Live!Files -> AnyText]] /\ ("setting" \in lost' <=> "setting" \in lost)
  <2>1. CASE Live!BeginReload \/ UNCHANGED <<load, tried, lost>>
    BY <2>1, BeginReloadIs
  <2>2. CASE /\ load' = load
             /\ lost' = lost \cup (Live!Again \ watch.live) \cup {g \in {f} : <<g, "gone">> \in notices}
    <3>1. "setting" \notin Live!Again /\ "setting" # f
      BY DEF Live!Again, LiveInv, LiveType, Live!Files
    <3> QED BY <2>2, <3>1 DEF LiveInv, LiveType
  <2> QED BY <2>1, <2>2 DEF Live!FileChanged, Live!FileGone, Live!DirectoryChanged, Live!UserReload
<1>6. gen' \in [hash : [Live!Files -> AnyText], scanned : SUBSET Live!Files, extra : SUBSET Live!Files, deleted : SUBSET Live!Files]
  BY <1>2 DEF LiveInv, LiveType
<1>7. watch' \in AnyWatch /\ watch'.on = watch.on
  BY <1>3 DEF LiveInv, LiveType, AnyWatch
<1>8. LiveType'
  BY <1>1, <1>5, <1>6, <1>7 DEF LiveInv, LiveType
<1> QED BY <1>1, <1>4, <1>5, <1>7, <1>8, ToldStays, LiveStays

LEMMA ScanKeeps == ASSUME LiveInv, Live!Scan PROVE LiveInv'
<1> DEFINE hash == IF load.hash["root"] = "uses"
                   THEN [load.hash EXCEPT !["type"] = Live!HashOf("type", disk["type"])] ELSE load.hash
<1>1. hash \in [Live!Files -> AnyText]
  <2>1. load.hash \in [Live!Files -> AnyText] /\ Live!HashOf("type", disk["type"]) \in AnyText
    BY DEF LiveInv, LiveType, Live!HashOf, AnyText, Live!Files
  <2> QED BY <2>1
<1>2. /\ Live!UpdateTooling(hash) /\ gen' = gen /\ watch' = watch /\ watchFiles' = TRUE
      /\ load' = IF Live!ScanErrors(hash) THEN Live!Idle ELSE [step |-> "load", hash |-> hash]
      /\ lost \subseteq lost' /\ (~watchFiles => "setting" \in lost')
      /\ Told(notices) => Told(notices')
  BY DEF Live!Scan, Told
<1> HIDE DEF hash
<1>3. /\ tooling' \in [ini : BOOLEAN, ours : BOOLEAN, links : [Live!Files -> BOOLEAN]]
      /\ disk' \in [Live!Files -> AnyText] /\ \A n : LinksAreTold(tooling', n)
  BY <1>1, <1>2, UpdateToolingIs
<1>4. load' \in [step : {"idle", "scan", "load"}, hash : [Live!Files -> AnyText]]
  BY <1>1, <1>2 DEF Live!Idle, Live!NoHash, AnyText
<1>5. LiveType'
  BY <1>2, <1>3, <1>4 DEF LiveInv, LiveType
<1>6. watch'.on => watchFiles'
  BY <1>2
<1>7. ASSUME "setting" \notin lost' PROVE watch'.on = watchFiles'
  <2>1. watchFiles /\ "setting" \notin lost
    BY <1>2, <1>7
  <2>2. watchFiles \in BOOLEAN
    BY DEF LiveInv, LiveType
  <2>3. watchFiles = TRUE
    BY <2>1, <2>2
  <2>4. watch.on = watchFiles
    BY <2>1 DEF LiveInv
  <2> QED BY <1>2, <2>3, <2>4
<1> QED BY <1>3, <1>5, <1>6, <1>7 DEF LiveInv

LEMMA ToolingKeeps == ASSUME LiveInv, Live!ToolingChanged PROVE LiveInv'
<1>1. gen.hash \in [Live!Files -> AnyText]
  BY DEF LiveInv, LiveType
<1>2. Live!UpdateTooling(gen.hash) /\ UNCHANGED <<gen, watch, watchFiles, load, lost>>
  BY DEF Live!ToolingChanged
<1>3. /\ tooling' \in [ini : BOOLEAN, ours : BOOLEAN, links : [Live!Files -> BOOLEAN]]
      /\ disk' \in [Live!Files -> AnyText] /\ \A n : LinksAreTold(tooling', n)
  BY <1>1, <1>2, UpdateToolingIs
<1>4. LiveType'
  BY <1>2, <1>3 DEF LiveInv, LiveType
<1> QED BY <1>2, <1>3, <1>4, LiveStays

LEMMA LinksKeep == ASSUME LiveInv, Live!ToggleIni \/ Live!OtherEnds PROVE LiveInv'
<1>1. UNCHANGED <<disk, gen, watch, watchFiles, load, lost>>
  BY DEF Live!ToggleIni, Live!OtherEnds
<1>2. tooling \in [ini : BOOLEAN, ours : BOOLEAN, links : [Live!Files -> BOOLEAN]]
  BY DEF LiveInv, LiveType
<1>3. \/ tooling' = [tooling EXCEPT !.ini = ~tooling.ini] /\ Told(notices')
      \/ ~tooling.ours /\ tooling' = [tooling EXCEPT !.ours = TRUE]
  BY DEF Live!ToggleIni, Live!OtherEnds, Live!TellsDir, Told
<1>4. /\ tooling' \in [ini : BOOLEAN, ours : BOOLEAN, links : [Live!Files -> BOOLEAN]] /\ tooling'.links = tooling.links
      /\ (tooling'.ours = tooling.ours /\ Told(notices')) \/ ~tooling.ours
  BY <1>2, <1>3
<1>5. LinksAreTold(tooling', notices')
  BY <1>4 DEF LiveInv, LinksAreTold, NoLinks
<1>6. LiveType'
  BY <1>1, <1>4 DEF LiveInv, LiveType
<1> QED BY <1>1, <1>5, <1>6, LiveStays

LEMMA LoadedKeeps == ASSUME LiveInv, Live!Loaded PROVE LiveInv'
<1>1. load.hash \in [Live!Files -> AnyText] /\ Live!ScannedBy(load.hash) \in SUBSET Live!Files
  BY DEF LiveInv, LiveType, Live!ScannedBy, Live!Files
<1> DEFINE found == Live!ScannedBy(load.hash)
<1>2. /\ gen' = [hash |-> load.hash, scanned |-> found, extra |-> {}, deleted |-> {}]
      /\ watchFiles' = (disk["root"] # "quiet")
      /\ watch' = IF watchFiles' THEN Live!WatchOf(found) ELSE Live!NoWatch
      /\ load' = Live!Idle /\ disk' = disk /\ tooling' = tooling
      /\ Told(notices) => Told(notices')
  BY DEF Live!Loaded, Told
<1> HIDE DEF found
<1>3. gen' \in [hash : [Live!Files -> AnyText], scanned : SUBSET Live!Files, extra : SUBSET Live!Files, deleted : SUBSET Live!Files]
  BY <1>1, <1>2 DEF found
<1>4. watchFiles' \in BOOLEAN
  BY <1>2
<1>5. watch' \in AnyWatch /\ watch'.on = watchFiles'
  BY <1>1, <1>2, <1>4 DEF found, Live!WatchOf, Live!NoWatch, AnyWatch
<1>6. load' \in [step : {"idle", "scan", "load"}, hash : [Live!Files -> AnyText]]
  BY <1>2 DEF Live!Idle, Live!NoHash, AnyText
<1>7. LiveType'
  BY <1>2, <1>3, <1>4, <1>5, <1>6 DEF LiveInv, LiveType
<1> QED BY <1>2, <1>5, <1>7, ToldStays DEF LiveInv

LEMMA FailedKeeps == ASSUME LiveInv, Live!Failed PROVE LiveInv'
<1> DEFINE more == Live!ScannedBy(load.hash) \ gen.scanned
           hash == [f \in Live!Files |-> IF f \in more THEN Live!HashOf(f, disk[f]) ELSE gen.hash[f]]
<1>1. /\ gen' = [gen EXCEPT !.extra = more, !.hash = hash]
      /\ watch' = IF watch.on THEN Live!WatchOf(gen.scanned \cup more) ELSE watch
      /\ lost' = lost \cup Live!Unwatched(gen.scanned \cup more, gen.deleted)
      /\ load' = Live!Idle /\ disk' = disk /\ tooling' = tooling /\ watchFiles' = watchFiles
      /\ Told(notices) => Told(notices')
  BY DEF Live!Failed, Told
<1>2. more \in SUBSET Live!Files /\ gen.scanned \in SUBSET Live!Files
  BY DEF Live!ScannedBy, Live!Files, LiveInv, LiveType
<1>3. hash \in [Live!Files -> AnyText]
  <2>1. \A f \in Live!Files : Live!HashOf(f, disk[f]) \in AnyText /\ gen.hash[f] \in AnyText
    BY DEF Live!HashOf, AnyText, LiveInv, LiveType
  <2> QED BY <2>1
<1> HIDE DEF more, hash
<1>4. gen' \in [hash : [Live!Files -> AnyText], scanned : SUBSET Live!Files, extra : SUBSET Live!Files, deleted : SUBSET Live!Files]
  BY <1>1, <1>2, <1>3 DEF LiveInv, LiveType
<1>5. watch' \in AnyWatch /\ watch'.on = watch.on
  BY <1>1, <1>2 DEF Live!WatchOf, AnyWatch, LiveInv, LiveType
<1>6. "setting" \in lost' <=> "setting" \in lost
  BY <1>1, <1>2 DEF Live!Unwatched, Live!Files
<1>7. load' \in [step : {"idle", "scan", "load"}, hash : [Live!Files -> AnyText]]
  BY <1>1 DEF Live!Idle, Live!NoHash, AnyText
<1>8. LiveType'
  BY <1>1, <1>4, <1>5, <1>7 DEF LiveInv, LiveType
<1> QED BY <1>1, <1>5, <1>6, <1>8, ToldStays, LiveStays

LEMMA SetWatchFilesKeeps == ASSUME LiveInv, Live!SetWatchFiles PROVE LiveInv'
<1>1. /\ watchFiles' = ~watchFiles
      /\ watch' = IF ~watchFiles' THEN Live!NoWatch ELSE IF watch.on THEN watch ELSE Live!WatchOf(Live!OwnFiles)
      /\ disk' = disk /\ gen' = gen /\ load' = load /\ tooling' = tooling
      /\ Told(notices) => Told(notices')
  BY DEF Live!SetWatchFiles, Told
<1>2. Live!OwnFiles \in SUBSET Live!Files
  BY DEF Live!OwnFiles, LiveInv, LiveType
<1>3. watchFiles' \in BOOLEAN
  BY <1>1
<1>4. watch' \in AnyWatch /\ watch'.on = watchFiles'
  <2>1. CASE ~watchFiles'
    BY <1>1, <1>3, <2>1 DEF Live!NoWatch, AnyWatch
  <2>2. CASE watchFiles' /\ watch.on
    BY <1>1, <1>3, <2>2 DEF LiveInv, LiveType, AnyWatch
  <2>3. CASE watchFiles' /\ ~watch.on
    BY <1>1, <1>2, <1>3, <2>3 DEF Live!WatchOf, AnyWatch
  <2> QED BY <2>1, <2>2, <2>3
<1>5. LiveType'
  BY <1>1, <1>3, <1>4 DEF LiveInv, LiveType
<1> QED BY <1>1, <1>4, <1>5, ToldStays DEF LiveInv

LEMMA NextLive == LiveInv /\ [Live!Next]_(Live!liveVars) => LiveInv'
<1> SUFFICES ASSUME LiveInv, [Live!Next]_(Live!liveVars) PROVE LiveInv'
  OBVIOUS
<1>1. CASE \E f \in Live!Files : Live!Truncate(f) \/ (\E t \in Live!Texts(f) : Live!Fill(f, t) \/ Live!Replace(f, t)) \/ Live!Delete(f)
  BY <1>1, EditKeeps
<1>2. CASE Live!UserReload \/ \E f \in Live!Files : Live!FileChanged(f) \/ Live!FileGone(f) \/ Live!DirectoryChanged(f)
  <2>1. "root" \in Live!Files
    BY DEF Live!Files
  <2> QED BY <1>2, <2>1, NoticeKeeps
<1>3. CASE Live!ToggleIni \/ Live!OtherEnds
  BY <1>3, LinksKeep
<1>4. CASE Live!ToolingChanged
  BY <1>4, ToolingKeeps
<1>5. CASE Live!Scan
  BY <1>5, ScanKeeps
<1>6. CASE Live!Loaded
  BY <1>6, LoadedKeeps
<1>7. CASE Live!Failed
  BY <1>7, FailedKeeps
<1>8. CASE Live!SetWatchFiles
  BY <1>8, SetWatchFilesKeeps
<1>9. CASE UNCHANGED Live!liveVars
  <2>1. UNCHANGED <<disk, gen, watch, notices, watchFiles, load, tooling, lost>>
    BY <1>9 DEF Live!liveVars
  <2> QED BY <2>1 DEF LiveInv, LiveType, LinksAreTold, NoLinks, Told
<1> QED BY <1>1, <1>2, <1>3, <1>4, <1>5, <1>6, <1>7, <1>8, <1>9 DEF Live!Next

LEMMA LiveIs == LiveInv => Live!WatchesAsSet
BY DEF LiveInv, Live!WatchesAsSet, Live!AtRest, LinksAreTold, NoLinks, Told

-----------------------------------------------------------------------------
(* Processes and instances                                                   *)

LEMMA InstanceSteps == Spec => Instance!Init /\ [][Instance!Next]_(Instance!instanceVars)
<1>1. Init => Instance!Init
  BY DEF Init
<1>2. [Next]_vars => [Instance!Next]_(Instance!instanceVars)
  BY DEF Next, vars, procVars, Instance!instanceVars
<1> QED BY <1>1, <1>2, PTL DEF Spec

\* A process that has its instance, and the last of the steps of launching it.
Works    == {"linked", "opened", "locked", "written", "running"}
AnyStep  == {"ended", "checked", "restart"} \cup Works
AnyPath  == Instance!Paths \cup {<<>>}
AnyShell == Instance!ShellIds \cup {<<>>}
AnyProc  == [step : AnyStep, id : Instance!Ids \cup {0}, config : AnyPath, display : Instance!Displays,
             noDuplicate : BOOLEAN, restarted : BOOLEAN, env : Seq(Instance!Ids), tells : BOOLEAN, holds : BOOLEAN]
AnyInst  == [pid : Pids \cup {0}, config : AnyPath, shell : AnyShell, display : Instance!Displays,
             young : BOOLEAN, dir : BOOLEAN, lock : {"none", "free", "held"}, written : BOOLEAN]
AnyLinks == [pid : [Pids -> Instance!Ids \cup {0}], shell : [Instance!ShellIds -> SUBSET Instance!Ids],
             path : [Instance!Paths -> AnyShell]]
PlaceType == proc \in [Pids -> AnyProc] /\ insts \in [Instance!Ids -> AnyInst] /\ links \in AnyLinks

\* A process and its instance know each other, and what it was started for.
ProcsFit ==
  \A p \in Pids : LET r == proc[p] IN
    /\ r.id # 0 => insts[r.id].pid = p
    /\ r.step \in {"ended", "restart"} => r.id = 0
    /\ r.step \in Works \cup {"checked"} => r.config \in Instance!Paths
    /\ r.step \in Works => r.id # 0 /\ insts[r.id].config = r.config /\ insts[r.id].display = r.display
\* If no directory fails, the lock is there, held and written as far as the launch has come.
LocksFit ==
  fails = {} => \A p \in Pids : LET r == proc[p]  i == proc[p].id IN
    r.step \in Works => /\ r.step # "linked" => insts[i].lock # "none"
                        /\ r.step \in {"locked", "written", "running"} => insts[i].lock = "held"
                        /\ r.step \in {"written", "running"} => insts[i].written
\* A lock is held by the process of the instance, and each that was launched has its configuration.
InstsFit ==
  \A i \in Instance!Ids : LET a == insts[i] IN
    /\ a.lock = "held" => a.pid \in Pids /\ proc[a.pid].id = i
    /\ a.pid = 0 => a.lock = "none" /\ ~a.written
    /\ a.written => a.lock # "none"
    /\ a.pid # 0 => a.config \in Instance!Paths /\ a.shell \in Instance!ShellIds /\ (fails = {} => a.dir)
InOrder == \E n \in 0..MaxInstances : \A i \in Instance!Ids : insts[i].pid # 0 <=> i <= n
\* The links by process id; those by configuration, unless a ShellId changed or is shared.
PidsLink ==
  /\ \A p \in Pids : links.pid[p] # 0 => insts[links.pid[p]].pid = p
  /\ fails = {} => /\ \A p \in Pids : proc[p].step \in Works => links.pid[p] = proc[p].id
                   /\ "reused" \notin amiss => \A i \in Instance!Ids : insts[i].pid # 0 => links.pid[insts[i].pid] = i
PathsLink ==
  fails = {} /\ amiss \cap {"moved", "shared", "again"} = {} =>
    /\ \A i \in Instance!Ids : insts[i].pid # 0 => links.path[insts[i].config] = insts[i].shell /\ i \in links.shell[insts[i].shell]
    /\ \A s \in Instance!ShellIds : \A i \in links.shell[s] : insts[i].pid # 0 /\ insts[i].shell = s
    /\ \A c, d \in Instance!Paths : links.path[c] = links.path[d] /\ links.path[c] # <<>> => c = d
\* Only a shell that quits after a restart is launched with the instance it has.
Agains == \A p \in Pids : proc[p].step = "checked" /\ proc[p].id # 0 => "again" \in amiss
Doubles(a, b) == a.noDuplicate /\ b.noDuplicate /\ a.config = b.config /\ a.display = b.display
Dups ==
  fails = {} /\ amiss \cap {"raced", "restarted", "inherited", "moved", "shared", "again"} = {} =>
    \A p, q \in Pids : p # q /\ proc[p].step # "ended" /\ proc[q].step # "ended" => ~Doubles(proc[p], proc[q])
\* What is inherited are instances that were launched, the last of them first, and a process that was
\* restarted was not so soon.
EnvFits(r) ==
  /\ \A k \in 1..Len(r.env) : /\ insts[r.env[k]].pid # 0 /\ r.env[k] <= r.env[1]
                              /\ r.id # 0 => r.env[k] < r.id
  /\ r.restarted \/ r.step = "restart" => r.env # <<>>
  /\ r.restarted => ~insts[r.env[1]].young
EnvsFit == \A p \in Pids : EnvFits(proc[p])
Placed ==
  PlaceType /\ ProcsFit /\ LocksFit /\ InstsFit /\ InOrder /\ PidsLink /\ PathsLink /\ Agains /\ Dups /\ EnvsFit

\* What fits the commands that ended, the processes that wait, the reports, and the files.
QuitsFit ==
  /\ quits \subseteq Instance!Ids /\ \A i \in quits : insts[i].pid # 0
  /\ "again" \notin amiss => \A p \in Pids : proc[p].id \notin quits
DaemonsFit ==
  /\ daemon \in [Pids -> {"none", "failed", "up", "waits", "closed"}]
  /\ "early" \notin amiss => \A p \in Pids :
       /\ daemon[p] # "closed"
       /\ daemon[p] = "waits" => /\ proc[p].step \in {"checked", "linked", "opened", "locked", "written"}
                                 /\ proc[p].tells /\ proc[p].holds
ReportsFit == reports \in [Instance!Ids -> Instance!Ids \cup {0}] /\ \A i \in Instance!Ids : reports[i] \in {0, i}
FilesFit ==
  /\ tree \subseteq Instance!Paths /\ pragma \in [Instance!Paths -> Instance!ShellIds]
  /\ reporter \in [Pids -> [open : BOOLEAN, holds : BOOLEAN]]
InstanceInv == Placed /\ QuitsFit /\ DaemonsFit /\ ReportsFit /\ FilesFit

LEMMA InitInstance == Instance!Init => InstanceInv
<1> SUFFICES ASSUME Instance!Init PROVE InstanceInv
  OBVIOUS
<1>1. /\ proc = [p \in Pids |-> Instance!Ended] /\ insts = [i \in Instance!Ids |-> Instance!NoInst]
      /\ links = [pid |-> [p \in Pids |-> 0], shell |-> [s \in Instance!ShellIds |-> {}],
                  path |-> [c \in Instance!Paths |-> <<>>]]
  BY DEF Instance!Init
<1>2. Instance!Ended \in AnyProc /\ Instance!NoInst \in AnyInst /\ Instance!Ended.id = 0 /\ Instance!Ended.env = <<>>
      /\ Instance!Ended.step = "ended" /\ ~Instance!Ended.restarted /\ Instance!NoInst.pid = 0
      /\ Instance!NoInst.lock = "none" /\ ~Instance!NoInst.written
  <2>1. <<>> \in Seq(Instance!Ids)
    OBVIOUS
  <2> QED BY <2>1 DEF Instance!Ended, Instance!NoInst, AnyProc, AnyInst, AnyStep, Works, AnyPath, AnyShell, Instance!Displays
<1>3. links \in AnyLinks /\ (\A p \in Pids : links.pid[p] = 0) /\ (\A s \in Instance!ShellIds : links.shell[s] = {})
      /\ \A c \in Instance!Paths : links.path[c] = <<>>
  BY <1>1 DEF AnyLinks, AnyShell
<1>4. PlaceType
  BY <1>1, <1>2, <1>3 DEF PlaceType
<1>5. ProcsFit /\ LocksFit /\ Agains /\ Dups
  BY <1>1, <1>2 DEF ProcsFit, LocksFit, Agains, Dups, Works
<1>6. InstsFit
  BY <1>1, <1>2 DEF InstsFit
<1>7. InOrder
  <2>1. 0 \in 0..MaxInstances /\ \A i \in Instance!Ids : i \in Nat /\ ~(i <= 0)
    BY ProcessesAreNumbered DEF Instance!Ids
  <2> QED BY <1>1, <1>2, <2>1 DEF InOrder
<1>8. PidsLink /\ PathsLink
  BY <1>1, <1>2, <1>3 DEF PidsLink, PathsLink
<1>9. EnvsFit
  BY <1>1, <1>2 DEF EnvsFit, EnvFits
<1>10. QuitsFit /\ ReportsFit
  BY DEF Instance!Init, QuitsFit, ReportsFit
<1>11. DaemonsFit
  BY DEF Instance!Init, DaemonsFit
<1>12. FilesFit
  <2>1. tree \subseteq Instance!Paths
    BY DEF Instance!Init, Instance!Trees, Instance!Paths, Instance!Dirs
  <2> QED BY <2>1 DEF Instance!Init, FilesFit, Instance!ShellIds
<1> QED BY <1>4, <1>5, <1>6, <1>7, <1>8, <1>9, <1>10, <1>11, <1>12 DEF InstanceInv, Placed

-----------------------------------------------------------------------------
\* What stays of an instance that is launched.
Same(a, b) == /\ a.pid = b.pid /\ a.config = b.config /\ a.shell = b.shell /\ a.display = b.display
              /\ a.dir = b.dir /\ a.young = b.young
Freed(p) == [i \in Instance!Ids |-> IF insts[i].pid = p /\ Instance!Locked(i) THEN [insts[i] EXCEPT !.lock = "free"] ELSE insts[i]]
\* A process that was, and now is none, or is to be restarted.
IsOver(r) == r \in AnyProc /\ r.id = 0 /\ r.step \in {"ended", "restart"} /\ ~r.restarted /\ ~r.noDuplicate

LEMMA OverKeeps ==
  ASSUME Placed, NEW p \in Pids, NEW r, IsOver(r), EnvFits(r),
         proc' = [proc EXCEPT ![p] = r], insts' = Freed(p), UNCHANGED <<links, fails>>, amiss \subseteq amiss'
  PROVE  Placed'
<1>1. proc \in [Pids -> AnyProc] /\ insts \in [Instance!Ids -> AnyInst] /\ links \in AnyLinks
  BY DEF Placed, PlaceType
<1>2. \A q \in Pids : proc'[q] = IF q = p THEN r ELSE proc[q]
  BY <1>1
<1>3. \A i \in Instance!Ids : /\ insts'[i] \in AnyInst /\ Same(insts'[i], insts[i]) /\ insts'[i].written = insts[i].written
                              /\ insts'[i].lock = IF insts[i].pid = p /\ insts[i].lock = "held" THEN "free" ELSE insts[i].lock
  <2> SUFFICES ASSUME NEW i \in Instance!Ids
               PROVE  /\ insts'[i] \in AnyInst /\ Same(insts'[i], insts[i]) /\ insts'[i].written = insts[i].written
                      /\ insts'[i].lock = IF insts[i].pid = p /\ insts[i].lock = "held" THEN "free" ELSE insts[i].lock
    OBVIOUS
  <2>1. insts[i] \in AnyInst
    BY <1>1
  <2>2. insts'[i] = IF insts[i].pid = p /\ insts[i].lock = "held" THEN [insts[i] EXCEPT !.lock = "free"] ELSE insts[i]
    BY DEF Freed, Instance!Locked
  <2> QED BY <2>1, <2>2 DEF AnyInst, Same
<1>4. \A q \in Pids : proc[q].id \in Instance!Ids \cup {0} /\ proc[q].env \in Seq(Instance!Ids)
  BY <1>1 DEF AnyProc
<1>5. PlaceType'
  <2>1. proc' \in [Pids -> AnyProc]
    BY <1>1 DEF IsOver
  <2>2. insts' \in [Instance!Ids -> AnyInst]
    BY <1>3 DEF Freed
  <2> QED BY <1>1, <2>1, <2>2 DEF PlaceType
<1>6. ProcsFit'
  BY <1>2, <1>3, <1>4 DEF Placed, ProcsFit, IsOver, Works, Same
<1>7. LocksFit'
  BY <1>2, <1>3, <1>4 DEF Placed, ProcsFit, LocksFit, IsOver, Works, Same
<1>8. InstsFit'
  BY <1>2, <1>3 DEF Placed, InstsFit, Same
<1>9. InOrder'
  BY <1>3 DEF Placed, InOrder, Same
<1>10. PidsLink'
  <2>1. \A q \in Pids : links.pid[q] \in Instance!Ids \cup {0}
    BY <1>1 DEF AnyLinks
  <2> QED BY <1>2, <1>3, <2>1 DEF Placed, PidsLink, IsOver, Works, Same
<1>11. PathsLink'
  <2>1. \A s \in Instance!ShellIds : links.shell[s] \subseteq Instance!Ids
    BY <1>1 DEF AnyLinks
  <2> QED BY <1>3, <2>1 DEF Placed, PathsLink, Same
<1>12. Agains' /\ Dups'
  BY <1>2 DEF Placed, Agains, Dups, IsOver, Doubles
<1>13. EnvsFit'
  <2> SUFFICES ASSUME NEW q \in Pids PROVE EnvFits(proc[q])'
    BY DEF EnvsFit
  <2>1. EnvFits(proc'[q]) /\ proc'[q].env \in Seq(Instance!Ids)
    BY <1>2, <1>4 DEF Placed, EnvsFit, IsOver, AnyProc
  <2>2. \A k \in 1..Len(proc'[q].env) : proc'[q].env[k] \in Instance!Ids
    BY <2>1
  <2>3. proc'[q].env # <<>> => proc'[q].env[1] \in Instance!Ids
    BY <2>1, <2>2, EmptySeq
  <2>4. proc'[q].restarted => proc'[q].env # <<>>
    BY <2>1 DEF EnvFits
  <2> QED BY <1>3, <2>1, <2>2, <2>3, <2>4 DEF EnvFits, Same
<1> QED BY <1>5, <1>6, <1>7, <1>8, <1>9, <1>10, <1>11, <1>12, <1>13 DEF Placed

\* What stays of a process that goes on.
Alike(r, s) == /\ r.id = s.id /\ r.config = s.config /\ r.display = s.display /\ r.noDuplicate = s.noDuplicate
               /\ r.restarted = s.restarted /\ r.env = s.env
\* The lock is as it should be at a step of the launch.
LockedAt(step, a) ==
  /\ step # "linked" => a.lock # "none"
  /\ step \in {"locked", "written", "running"} => a.lock = "held"
  /\ step \in {"written", "running"} => a.written

LEMMA StepKeeps ==
  ASSUME Placed, NEW p \in Pids, NEW r \in AnyProc, NEW a \in AnyInst, proc[p].step \in Works, r.step \in Works,
         Alike(r, proc[p]), Same(a, insts[proc[p].id]), a.written => a.lock # "none", fails = {} => LockedAt(r.step, a),
         proc' = [proc EXCEPT ![p] = r], insts' = [insts EXCEPT ![proc[p].id] = a], UNCHANGED <<links, fails, amiss>>
  PROVE  Placed'
<1> DEFINE n == proc[p].id
<1>1. proc \in [Pids -> AnyProc] /\ insts \in [Instance!Ids -> AnyInst] /\ links \in AnyLinks
  BY DEF Placed, PlaceType
<1>2. \A q \in Pids : proc'[q] = IF q = p THEN r ELSE proc[q]
  BY <1>1
<1>3. n \in Instance!Ids /\ insts[n].pid = p /\ p # 0
  BY <1>1, ProcessesAreNumbered DEF Placed, ProcsFit, AnyProc
<1>4. \A i \in Instance!Ids : insts'[i] = IF i = n THEN a ELSE insts[i]
  BY <1>1
<1>5. \A q \in Pids : proc[q].id \in Instance!Ids \cup {0} /\ proc[q].env \in Seq(Instance!Ids)
  BY <1>1 DEF AnyProc
<1>6. \A i \in Instance!Ids : Same(insts'[i], insts[i])
  BY <1>4 DEF Same
<1>7. \A q \in Pids : Alike(proc'[q], proc[q]) /\ (proc'[q].step \in Works <=> proc[q].step \in Works)
                      /\ (proc[q].step \notin Works => proc'[q] = proc[q])
  BY <1>2 DEF Alike
<1> HIDE DEF n
<1>8. PlaceType'
  BY <1>1 DEF PlaceType
<1>9. ProcsFit'
  BY <1>5, <1>6, <1>7 DEF Placed, ProcsFit, Works, Same, Alike
<1>10. LocksFit'
  <2> SUFFICES ASSUME fails = {}, NEW q \in Pids, proc'[q].step \in Works
               PROVE  LockedAt(proc'[q].step, insts'[proc'[q].id])
    BY DEF LocksFit, LockedAt
  <2>1. CASE q = p
    BY <1>2, <1>3, <1>4, <2>1 DEF Alike, n
  <2>2. CASE q # p
    <3>1. proc'[q] = proc[q] /\ proc[q].id # 0 /\ insts[proc[q].id].pid = q
      BY <1>2, <2>2 DEF Placed, ProcsFit
    <3>2. proc[q].id # n /\ proc[q].id \in Instance!Ids
      BY <1>3, <1>5, <2>2, <3>1
    <3> QED BY <1>4, <3>1, <3>2 DEF Placed, LocksFit, LockedAt
  <2> QED BY <2>1, <2>2
<1>11. InstsFit'
  <2> SUFFICES ASSUME NEW i \in Instance!Ids
               PROVE  /\ insts'[i].lock = "held" => insts'[i].pid \in Pids /\ proc'[insts'[i].pid].id = i
                      /\ insts'[i].pid = 0 => insts'[i].lock = "none" /\ ~insts'[i].written
                      /\ insts'[i].written => insts'[i].lock # "none"
                      /\ insts'[i].pid # 0 => /\ insts'[i].config \in Instance!Paths /\ insts'[i].shell \in Instance!ShellIds
                                              /\ fails = {} => insts'[i].dir
    BY DEF InstsFit
  <2>1. CASE i = n
    BY <1>2, <1>3, <1>4, <2>1 DEF Placed, InstsFit, Same, Alike, n
  <2>2. CASE i # n
    BY <1>4, <1>7, <2>2 DEF Placed, InstsFit, Alike
  <2> QED BY <2>1, <2>2
<1>12. InOrder'
  BY <1>6 DEF Placed, InOrder, Same
<1>13. PidsLink'
  <2>1. \A q \in Pids : links.pid[q] \in Instance!Ids \cup {0}
    BY <1>1 DEF AnyLinks
  <2> QED BY <1>6, <1>7, <2>1 DEF Placed, PidsLink, Same, Alike
<1>14. PathsLink'
  <2>1. \A s \in Instance!ShellIds : links.shell[s] \subseteq Instance!Ids
    BY <1>1 DEF AnyLinks
  <2> QED BY <1>6, <2>1 DEF Placed, PathsLink, Same
<1>15. Agains'
  BY <1>7 DEF Placed, Agains, Works
<1>16. Dups'
  <2>1. \A q \in Pids : proc'[q].step # "ended" => proc[q].step # "ended"
    BY <1>7 DEF Works
  <2> QED BY <1>7, <2>1 DEF Placed, Dups, Doubles, Alike
<1>17. EnvsFit'
  <2> SUFFICES ASSUME NEW q \in Pids PROVE EnvFits(proc[q])'
    BY DEF EnvsFit
  <2>1. EnvFits(proc[q]) /\ proc[q].env \in Seq(Instance!Ids) /\ Alike(proc'[q], proc[q])
        /\ (proc'[q].step = "restart" => proc[q].step = "restart")
    BY <1>5, <1>7 DEF Placed, EnvsFit, Works
  <2>2. \A k \in 1..Len(proc[q].env) : proc[q].env[k] \in Instance!Ids
    BY <2>1
  <2>3. proc[q].env # <<>> => proc[q].env[1] \in Instance!Ids
    BY <2>1, <2>2, EmptySeq
  <2> QED BY <1>6, <2>1, <2>2, <2>3 DEF EnvFits, Same, Alike
<1> QED BY <1>8, <1>9, <1>10, <1>11, <1>12, <1>13, <1>14, <1>15, <1>16, <1>17 DEF Placed

\* A process begins, or begins again, as r.
BeginsAs(r, p) ==
  /\ r \in AnyProc /\ r.id = proc[p].id /\ r.step \in {"checked", "restart"} /\ EnvFits(r)
  /\ r.step = "restart" => r.id = 0
  /\ r.step = "checked" => r.config \in Instance!Paths /\ (r.id # 0 => "again" \in amiss')
  /\ fails = {} /\ amiss' \cap {"raced", "restarted", "inherited", "moved", "shared", "again"} = {} =>
       \A q \in Pids \ {p} : proc[q].step # "ended" => ~Doubles(r, proc[q])

LEMMA BeginKeeps ==
  ASSUME Placed, NEW p \in Pids, NEW r, BeginsAs(r, p), amiss \subseteq amiss',
         proc' = [proc EXCEPT ![p] = r], UNCHANGED <<insts, links, fails>>
  PROVE  Placed'
<1>1. proc \in [Pids -> AnyProc]
  BY DEF Placed, PlaceType
<1>2. \A q \in Pids : proc'[q] = IF q = p THEN r ELSE proc[q]
  BY <1>1
<1>3. PlaceType'
  BY <1>1 DEF Placed, PlaceType, BeginsAs
<1>4. ProcsFit'
  BY <1>2 DEF Placed, ProcsFit, BeginsAs, Works
<1>5. LocksFit'
  BY <1>2 DEF Placed, LocksFit, BeginsAs, Works
<1>6. InstsFit'
  BY <1>2 DEF Placed, InstsFit, BeginsAs
<1>7. InOrder'
  BY DEF Placed, InOrder
<1>8. PidsLink' /\ PathsLink'
  BY <1>2 DEF Placed, PidsLink, PathsLink, BeginsAs, Works
<1>9. Agains'
  BY <1>2 DEF Placed, Agains, BeginsAs
<1>10. Dups'
  <2> SUFFICES ASSUME fails = {}, amiss' \cap {"raced", "restarted", "inherited", "moved", "shared", "again"} = {},
                      NEW a \in Pids, NEW b \in Pids, a # b, proc'[a].step # "ended", proc'[b].step # "ended"
               PROVE  ~Doubles(proc'[a], proc'[b])
    BY DEF Dups
  <2>1. CASE a = p
    BY <1>2, <2>1 DEF BeginsAs, Doubles
  <2>2. CASE b = p
    BY <1>2, <2>2 DEF BeginsAs, Doubles
  <2>3. CASE a # p /\ b # p
    BY <1>2, <2>3 DEF Placed, Dups
  <2> QED BY <2>1, <2>2, <2>3
<1>11. EnvsFit'
  BY <1>2 DEF Placed, EnvsFit, EnvFits, BeginsAs
<1> QED BY <1>3, <1>4, <1>5, <1>6, <1>7, <1>8, <1>9, <1>10, <1>11 DEF Placed

\* The module's own name for the library's operator.
LEMMA CountIs == ASSUME NEW S PROVE Instance!Cardinality(S) = Cardinality(S)
BY DEF Instance!Cardinality, Cardinality

\* Instances are numbered as they are launched.
LEMMA NextIdIs ==
  ASSUME Placed
  PROVE  \E n \in 0..MaxInstances : Instance!NextId = n + 1 /\ \A i \in Instance!Ids : insts[i].pid # 0 <=> i <= n
<1>1. PICK n \in 0..MaxInstances : \A i \in Instance!Ids : insts[i].pid # 0 <=> i <= n
  BY DEF Placed, InOrder
<1>2. {i \in Instance!Ids : insts[i].pid # 0} = 1..n
  BY <1>1, ProcessesAreNumbered DEF Instance!Ids
<1>3. Cardinality(1..n) = n
  BY ProcessesAreNumbered, FS_Interval
<1>4. Instance!NextId = n + 1
  BY <1>2, <1>3, CountIs DEF Instance!NextId
<1> QED BY <1>1, <1>4

\* Any number of a process that is launched is its own or a new one.
LEMMA LinkedIdIs ==
  ASSUME Placed, NEW p \in Pids, NEW i \in Instance!Ids, i = IF proc[p].id # 0 THEN proc[p].id ELSE Instance!NextId
  PROVE  /\ insts[i].pid = IF proc[p].id # 0 THEN p ELSE 0
         /\ \A k \in Instance!Ids : insts[k].pid # 0 /\ proc[p].id = 0 => k < i
         /\ \E n \in 0..MaxInstances : \A k \in Instance!Ids : (insts[k].pid # 0 \/ k = i) <=> k <= n
<1>1. PICK n \in 0..MaxInstances : Instance!NextId = n + 1 /\ \A k \in Instance!Ids : insts[k].pid # 0 <=> k <= n
  BY NextIdIs
<1>2. \A k \in Instance!Ids : k \in Nat /\ k >= 1 /\ k <= MaxInstances
  BY ProcessesAreNumbered DEF Instance!Ids
<1>3. CASE proc[p].id # 0
  <2>1. insts[i].pid = p
    BY <1>3 DEF Placed, ProcsFit
  <2> QED BY <1>1, <1>3, <2>1, ProcessesAreNumbered
<1>4. CASE proc[p].id = 0
  <2>1. i = n + 1 /\ n + 1 <= MaxInstances /\ n \in Nat
    BY <1>1, <1>2, <1>4, ProcessesAreNumbered
  <2>2. insts[i].pid = 0
    BY <1>1, <2>1
  <2>3. n + 1 \in 0..MaxInstances /\ \A k \in Instance!Ids : (insts[k].pid # 0 \/ k = i) <=> k <= n + 1
    BY <1>1, <1>2, <2>1, ProcessesAreNumbered
  <2>4. \A k \in Instance!Ids : insts[k].pid # 0 => k < i
    BY <1>1, <1>2, <2>1
  <2> QED BY <1>4, <2>2, <2>3, <2>4
<1> QED BY <1>3, <1>4

\* The process and the instance, when its directory and links are made.
LinkedProc(p, i) ==
  [step |-> "linked", id |-> i, config |-> proc[p].config, display |-> proc[p].display,
   noDuplicate |-> proc[p].noDuplicate, restarted |-> proc[p].restarted, env |-> proc[p].env,
   tells |-> proc[p].tells, holds |-> proc[p].holds]
LinkedInst(p, i, dir) ==
  [pid |-> p, config |-> proc[p].config, shell |-> pragma[proc[p].config], display |-> proc[p].display,
   young |-> (proc[p].id = 0), dir |-> dir, lock |-> insts[i].lock, written |-> FALSE]
LEMMA LinkIs ==
  ASSUME Placed, FilesFit, NEW p \in Pids, Instance!Link(p)
  PROVE  /\ proc[p].step = "checked" /\ UNCHANGED <<tree, pragma, fails, daemon, reporter, reports, quits>>
         /\ \E i \in Instance!Ids, dir \in BOOLEAN :
              /\ i = IF proc[p].id # 0 THEN proc[p].id ELSE Instance!NextId
              /\ LinkedProc(p, i) \in AnyProc /\ proc' = [proc EXCEPT ![p] = LinkedProc(p, i)]
              /\ LinkedInst(p, i, dir) \in AnyInst /\ insts' = [insts EXCEPT ![i] = LinkedInst(p, i, dir)]
              /\ dir = (Instance!InstanceDir(FALSE) /\ "instance" \notin fails)
              /\ Instance!Linked(p, i)
<1> DEFINE i == IF proc[p].id # 0 THEN proc[p].id ELSE Instance!NextId
           dir == Instance!InstanceDir(FALSE) /\ "instance" \notin fails
<1>1. /\ proc[p].step = "checked" /\ UNCHANGED <<tree, pragma, fails, daemon, reporter, reports, quits>>
      /\ proc[p].config \in tree /\ i \in Instance!Ids
      /\ proc' = [proc EXCEPT ![p].step = "linked", ![p].id = i] /\ Instance!Linked(p, i)
  BY DEF Instance!Link
<1>2. insts' = [insts EXCEPT ![i] = [@ EXCEPT !.pid = p, !.config = proc[p].config, !.shell = pragma[proc[p].config],
                                         !.dir = dir, !.written = FALSE, !.display = proc[p].display,
                                         !.young = (proc[p].id = 0)]]
  BY <1>1 DEF Instance!Linked
<1>3. dir \in BOOLEAN /\ proc[p].config \in Instance!Paths /\ pragma[proc[p].config] \in Instance!ShellIds
  BY <1>1 DEF FilesFit, Instance!InstanceDir, Instance!ShellDir
<1> HIDE DEF i, dir
<1>4. proc \in [Pids -> AnyProc] /\ insts \in [Instance!Ids -> AnyInst] /\ proc[p] \in AnyProc /\ insts[i] \in AnyInst
  BY <1>1 DEF Placed, PlaceType
<1>5. proc' = [proc EXCEPT ![p] = LinkedProc(p, i)]
  <2>1. PICK r : r = [proc[p] EXCEPT !.step = "linked", !.id = i]
    OBVIOUS
  <2>2. r = LinkedProc(p, i)
    BY <1>4, <2>1 DEF AnyProc, LinkedProc
  <2>3. proc' = [proc EXCEPT ![p] = r]
    BY <1>1, <2>1, Zenon
  <2> QED BY <2>2, <2>3
<1>6. insts' = [insts EXCEPT ![i] = LinkedInst(p, i, dir)]
  <2>1. PICK a : a = [insts[i] EXCEPT !.pid = p, !.config = proc[p].config, !.shell = pragma[proc[p].config],
                                      !.dir = dir, !.written = FALSE, !.display = proc[p].display,
                                      !.young = (proc[p].id = 0)]
    OBVIOUS
  <2>2. a = LinkedInst(p, i, dir)
    BY <1>4, <2>1 DEF AnyInst, LinkedInst
  <2>3. insts' = [insts EXCEPT ![i] = a]
    BY <1>2, <2>1, Zenon
  <2> QED BY <2>2, <2>3
<1>7. LinkedProc(p, i) \in AnyProc
  BY <1>1, <1>4 DEF AnyProc, LinkedProc, AnyStep, Works
<1>8. LinkedInst(p, i, dir) \in AnyInst
  BY <1>1, <1>3, <1>4 DEF AnyInst, LinkedInst, AnyPath, AnyShell, AnyProc
<1> QED BY <1>1, <1>3, <1>5, <1>6, <1>7, <1>8 DEF i, dir

\* No path and no shell is nothing.
LEMMA PathsAreNamed == <<>> \notin Instance!ShellIds /\ <<>> \notin Instance!Paths
BY DEF Instance!ShellIds, Instance!Paths

\* What is linked, of a process, its instance, its configuration and the shell this has.
LinkedTo(p, i, c, s) ==
  /\ links' \in AnyLinks
  /\ \A q \in Pids \ {p} : links'.pid[q] = links.pid[q]
  /\ links'.pid[p] \in {links.pid[p], i, 0}
  /\ amiss \subseteq amiss' /\ ("reused" \notin amiss' => links.pid[p] \in {0, i})
  /\ fails = {} =>
       /\ links'.pid[p] = i
       /\ \A t \in Instance!ShellIds : links'.shell[t] = IF t = s THEN links.shell[t] \cup {i} ELSE links.shell[t]
       /\ \A d \in Instance!Paths : links'.path[d] = IF d = c THEN s ELSE links.path[d]
  /\ "moved" \notin amiss' => links.path[c] \in {<<>>, s}
  /\ "shared" \notin amiss' => \A d \in Instance!Paths \ {c} : links.path[d] # s
LEMMA LinksAre ==
  ASSUME Placed, FilesFit, NEW p \in Pids, NEW i \in Instance!Ids, proc[p].config \in Instance!Paths, Instance!Linked(p, i)
  PROVE  LinkedTo(p, i, proc[p].config, pragma[proc[p].config])
<1> DEFINE c   == proc[p].config
           s   == pragma[c]
           dir == Instance!InstanceDir(FALSE) /\ "instance" \notin fails
           pid == [links.pid EXCEPT ![p] = IF dir THEN i ELSE 0]
           shell == IF Instance!ShellDir /\ dir THEN [links.shell EXCEPT ![s] = @ \cup {i}] ELSE links.shell
           path  == IF Instance!ShellDir THEN [links.path EXCEPT ![c] = s] ELSE links.path
<1>1. links' = IF "base" \in fails THEN links ELSE [pid |-> pid, shell |-> shell, path |-> path]
  BY DEF Instance!Linked
<1>2. /\ amiss \subseteq amiss' /\ ("reused" \notin amiss' => links.pid[p] \in {0, i})
      /\ "moved" \notin amiss' => links.path[c] \in {<<>>, s}
      /\ "shared" \notin amiss' => \A d \in Instance!Paths \ {c} : links.path[d] # s
  BY DEF Instance!Linked, Instance!Odd
<1>3. links \in AnyLinks /\ s \in Instance!ShellIds /\ c \in Instance!Paths /\ dir \in BOOLEAN
  BY DEF Placed, PlaceType, FilesFit, Instance!InstanceDir
<1>4. fails = {} => dir /\ Instance!ShellDir /\ "base" \notin fails
  BY DEF Instance!InstanceDir, Instance!ShellDir
<1> HIDE DEF dir, c, s
<1>5. pid \in [Pids -> Instance!Ids \cup {0}] /\ \A q \in Pids : pid[q] = IF q = p THEN IF dir THEN i ELSE 0 ELSE links.pid[q]
  BY <1>3 DEF AnyLinks
<1>6. /\ shell \in [Instance!ShellIds -> SUBSET Instance!Ids]
      /\ fails = {} => \A t \in Instance!ShellIds : shell[t] = IF t = s THEN links.shell[t] \cup {i} ELSE links.shell[t]
  BY <1>3, <1>4 DEF AnyLinks
<1>7. /\ path \in [Instance!Paths -> AnyShell]
      /\ fails = {} => \A d \in Instance!Paths : path[d] = IF d = c THEN s ELSE links.path[d]
  BY <1>3, <1>4 DEF AnyLinks, AnyShell
<1> HIDE DEF pid, shell, path
<1>8. CASE "base" \in fails
  BY <1>1, <1>2, <1>3, <1>8 DEF LinkedTo, c, s
<1>9. CASE "base" \notin fails
  <2>1. links' \in AnyLinks /\ links'.pid = pid /\ links'.shell = shell /\ links'.path = path
    BY <1>1, <1>5, <1>6, <1>7, <1>9 DEF AnyLinks
  <2> QED BY <1>2, <1>4, <1>5, <1>6, <1>7, <2>1 DEF LinkedTo, c, s
<1> QED BY <1>8, <1>9

LEMMA LinkKeeps == ASSUME Placed, FilesFit, NEW p \in Pids, Instance!Link(p) PROVE Placed'
<1>1. PICK i \in Instance!Ids, dir \in BOOLEAN :
        /\ i = IF proc[p].id # 0 THEN proc[p].id ELSE Instance!NextId
        /\ LinkedProc(p, i) \in AnyProc /\ proc' = [proc EXCEPT ![p] = LinkedProc(p, i)]
        /\ LinkedInst(p, i, dir) \in AnyInst /\ insts' = [insts EXCEPT ![i] = LinkedInst(p, i, dir)]
        /\ dir = (Instance!InstanceDir(FALSE) /\ "instance" \notin fails)
        /\ Instance!Linked(p, i)
  BY LinkIs
<1> DEFINE r == LinkedProc(p, i)
           a == LinkedInst(p, i, dir)
           c == proc[p].config
           s == pragma[c]
<1>2. proc[p].step = "checked" /\ fails' = fails
  BY LinkIs
<1>3. /\ insts[i].pid = IF proc[p].id # 0 THEN p ELSE 0
      /\ \A k \in Instance!Ids : insts[k].pid # 0 /\ proc[p].id = 0 => k < i
      /\ \E n \in 0..MaxInstances : \A k \in Instance!Ids : (insts[k].pid # 0 \/ k = i) <=> k <= n
  BY <1>1, LinkedIdIs
<1>4. c \in Instance!Paths /\ s \in Instance!ShellIds
  BY <1>2 DEF Placed, ProcsFit, FilesFit
<1>5. LinkedTo(p, i, c, s)
  BY <1>1, <1>4, LinksAre
<1>6. proc \in [Pids -> AnyProc] /\ insts \in [Instance!Ids -> AnyInst] /\ links \in AnyLinks
  BY DEF Placed, PlaceType
<1>7. \A q \in Pids : proc'[q] = IF q = p THEN r ELSE proc[q]
  BY <1>1, <1>6
<1>8. \A k \in Instance!Ids : insts'[k] = IF k = i THEN a ELSE insts[k]
  BY <1>1, <1>6
<1>9. /\ r.step = "linked" /\ r.id = i /\ r.config = c /\ r.display = proc[p].display /\ r.env = proc[p].env
      /\ r.noDuplicate = proc[p].noDuplicate /\ r.restarted = proc[p].restarted
  BY DEF LinkedProc
<1>10. /\ a.pid = p /\ a.config = c /\ a.shell = s /\ a.display = proc[p].display /\ a.lock = insts[i].lock
       /\ ~a.written /\ a.dir = dir /\ a.young = (proc[p].id = 0)
  BY DEF LinkedInst
<1>11. \A q \in Pids : q # 0 /\ proc[q].id \in Instance!Ids \cup {0} /\ proc[q].env \in Seq(Instance!Ids)
  BY <1>6, ProcessesAreNumbered DEF AnyProc
<1>12. \A k \in Instance!Ids : k # 0 /\ k \in Nat
  BY DEF Instance!Ids
<1>13. \A k \in Instance!Ids : insts[k].pid # 0 => insts'[k].pid = insts[k].pid
  BY <1>3, <1>8, <1>10
<1>14. fails = {} => dir
  BY <1>1 DEF Instance!InstanceDir, Instance!ShellDir
<1>15. \A q \in Pids : q # p /\ proc[q].id # 0 => proc[q].id # i
  BY <1>3, <1>11 DEF Placed, ProcsFit
<1>16. PlaceType'
  BY <1>1, <1>5, <1>6 DEF PlaceType, LinkedTo
<1> HIDE DEF r, a, c, s
<1>17. ProcsFit'
  <2> SUFFICES ASSUME NEW q \in Pids
               PROVE  /\ proc'[q].id # 0 => insts'[proc'[q].id].pid = q
                      /\ proc'[q].step \in {"ended", "restart"} => proc'[q].id = 0
                      /\ proc'[q].step \in Works \cup {"checked"} => proc'[q].config \in Instance!Paths
                      /\ proc'[q].step \in Works => /\ proc'[q].id # 0 /\ insts'[proc'[q].id].config = proc'[q].config
                                                    /\ insts'[proc'[q].id].display = proc'[q].display
    BY DEF ProcsFit
  <2>1. CASE q = p
    BY <1>4, <1>7, <1>8, <1>9, <1>10, <1>12, <2>1
  <2>2. CASE q # p
    BY <1>7, <1>8, <1>11, <1>15, <2>2 DEF Placed, ProcsFit
  <2> QED BY <2>1, <2>2
<1>18. LocksFit'
  <2> SUFFICES ASSUME fails = {}, NEW q \in Pids, proc'[q].step \in Works
               PROVE  LockedAt(proc'[q].step, insts'[proc'[q].id])
    BY <1>2 DEF LocksFit, LockedAt
  <2>1. CASE q = p
    BY <1>7, <1>9, <2>1 DEF LockedAt
  <2>2. CASE q # p
    <3>1. proc'[q] = proc[q] /\ proc[q].id # 0
      BY <1>7, <2>2 DEF Placed, ProcsFit
    <3>2. insts'[proc[q].id] = insts[proc[q].id]
      BY <1>8, <1>11, <1>15, <2>2, <3>1
    <3> QED BY <3>1, <3>2 DEF Placed, LocksFit, LockedAt
  <2> QED BY <2>1, <2>2
<1>19. InstsFit'
  <2> SUFFICES ASSUME NEW k \in Instance!Ids
               PROVE  /\ insts'[k].lock = "held" => insts'[k].pid \in Pids /\ proc'[insts'[k].pid].id = k
                      /\ insts'[k].pid = 0 => insts'[k].lock = "none" /\ ~insts'[k].written
                      /\ insts'[k].written => insts'[k].lock # "none"
                      /\ insts'[k].pid # 0 => /\ insts'[k].config \in Instance!Paths /\ insts'[k].shell \in Instance!ShellIds
                                              /\ fails = {} => insts'[k].dir
    BY <1>2 DEF InstsFit
  <2>1. CASE k = i
    BY <1>4, <1>7, <1>8, <1>9, <1>10, <1>11, <1>14, <2>1
  <2>2. CASE k # i
    <3>1. insts'[k] = insts[k]
      BY <1>8, <2>2
    <3>2. ASSUME insts[k].lock = "held" PROVE insts[k].pid \in Pids /\ proc'[insts[k].pid].id = k
      <4>1. insts[k].pid \in Pids /\ proc[insts[k].pid].id = k
        BY <3>2 DEF Placed, InstsFit
      <4>2. insts[k].pid # p
        BY <1>1, <1>12, <2>2, <4>1
      <4> QED BY <1>7, <4>1, <4>2
    <3> QED BY <3>1, <3>2 DEF Placed, InstsFit
  <2> QED BY <2>1, <2>2
<1>20. InOrder'
  BY <1>3, <1>8, <1>10, <1>11 DEF InOrder
<1>21. PidsLink'
  <2>1. \A q \in Pids : links.pid[q] \in Instance!Ids \cup {0}
    BY <1>6 DEF AnyLinks
  <2>2. ASSUME NEW q \in Pids, links'.pid[q] # 0 PROVE insts'[links'.pid[q]].pid = q
    <3>1. CASE links'.pid[q] = i /\ q = p
      BY <1>8, <1>10, <3>1
    <3>2. CASE ~(links'.pid[q] = i /\ q = p)
      <4>1. links'.pid[q] = links.pid[q]
        BY <1>5, <2>2, <3>2 DEF LinkedTo
      <4>2. insts[links.pid[q]].pid = q
        BY <2>2, <4>1 DEF Placed, PidsLink
      <4> QED BY <1>11, <1>13, <2>1, <2>2, <4>1, <4>2
    <3> QED BY <3>1, <3>2
  <2>3. ASSUME fails = {}, NEW q \in Pids, proc'[q].step \in Works PROVE links'.pid[q] = proc'[q].id
    <3>1. CASE q = p
      BY <1>5, <1>7, <1>9, <2>3, <3>1 DEF LinkedTo
    <3>2. CASE q # p
      BY <1>5, <1>7, <2>3, <3>2 DEF LinkedTo, Placed, PidsLink
    <3> QED BY <3>1, <3>2
  <2>4. ASSUME fails = {}, "reused" \notin amiss', NEW k \in Instance!Ids, insts'[k].pid # 0 PROVE links'.pid[insts'[k].pid] = k
    <3>1. CASE k = i
      BY <1>5, <1>8, <1>10, <2>4, <3>1 DEF LinkedTo
    <3>2. CASE k # i
      <4>1. insts'[k] = insts[k] /\ insts[k].pid \in Pids
        BY <1>6, <1>8, <2>4, <3>2 DEF AnyInst
      <4>2. links.pid[insts[k].pid] = k
        BY <1>5, <2>4, <4>1 DEF Placed, PidsLink, LinkedTo
      <4>3. insts[k].pid # p
        BY <1>5, <1>12, <2>4, <3>2, <4>2 DEF LinkedTo
      <4> QED BY <1>5, <4>1, <4>2, <4>3 DEF LinkedTo
    <3> QED BY <3>1, <3>2
  <2> QED BY <1>2, <2>2, <2>3, <2>4 DEF PidsLink
<1>22. PathsLink'
  <2> SUFFICES ASSUME fails = {}, amiss' \cap {"moved", "shared", "again"} = {}
               PROVE  /\ \A k \in Instance!Ids : insts'[k].pid # 0 =>
                           links'.path[insts'[k].config] = insts'[k].shell /\ k \in links'.shell[insts'[k].shell]
                      /\ \A t \in Instance!ShellIds : \A k \in links'.shell[t] : insts'[k].pid # 0 /\ insts'[k].shell = t
                      /\ \A d, e \in Instance!Paths : links'.path[d] = links'.path[e] /\ links'.path[d] # <<>> => d = e
    BY <1>2 DEF PathsLink
  <2>1. /\ \A t \in Instance!ShellIds : links'.shell[t] = IF t = s THEN links.shell[t] \cup {i} ELSE links.shell[t]
        /\ \A d \in Instance!Paths : links'.path[d] = IF d = c THEN s ELSE links.path[d]
        /\ links.path[c] \in {<<>>, s} /\ (\A d \in Instance!Paths \ {c} : links.path[d] # s)
        /\ amiss \subseteq amiss'
    BY <1>5 DEF LinkedTo
  <2>2. /\ \A k \in Instance!Ids : insts[k].pid # 0 => links.path[insts[k].config] = insts[k].shell /\ k \in links.shell[insts[k].shell]
        /\ \A t \in Instance!ShellIds : \A k \in links.shell[t] : insts[k].pid # 0 /\ insts[k].shell = t
        /\ \A d, e \in Instance!Paths : links.path[d] = links.path[e] /\ links.path[d] # <<>> => d = e
    BY <2>1 DEF Placed, PathsLink
  <2>3. proc[p].id = 0 /\ insts[i].pid = 0
    BY <1>2, <1>3, <2>1 DEF Placed, Agains
  <2>4. \A k \in Instance!Ids : insts[k].pid # 0 => insts[k].config \in Instance!Paths /\ insts[k].shell \in Instance!ShellIds
    BY DEF Placed, InstsFit
  <2>5. ASSUME NEW k \in Instance!Ids, insts'[k].pid # 0
        PROVE  links'.path[insts'[k].config] = insts'[k].shell /\ k \in links'.shell[insts'[k].shell]
    <3>1. CASE k = i
      BY <1>4, <1>8, <1>10, <2>1, <3>1, Zenon
    <3>2. CASE k # i
      <4>1. insts'[k] = insts[k] /\ insts[k].pid # 0
        BY <1>8, <2>5, <3>2
      <4>2. links.path[insts[k].config] = insts[k].shell /\ k \in links.shell[insts[k].shell] /\ insts[k].shell # <<>>
        BY <2>2, <2>4, <4>1, PathsAreNamed
      <4>3. insts[k].config = c => insts[k].shell = s
        BY <2>1, <4>2
      <4> QED BY <2>1, <2>4, <4>1, <4>2, <4>3, Zenon
    <3> QED BY <3>1, <3>2
  <2>6. ASSUME NEW t \in Instance!ShellIds, NEW k \in links'.shell[t] PROVE insts'[k].pid # 0 /\ insts'[k].shell = t
    <3>1. links.shell[t] \subseteq Instance!Ids
      BY <1>6 DEF AnyLinks
    <3>2. CASE k \in links.shell[t]
      <4>1. insts[k].pid # 0 /\ insts[k].shell = t /\ k # i
        BY <2>2, <2>3, <3>2
      <4> QED BY <1>8, <3>1, <3>2, <4>1
    <3>3. CASE k = i /\ t = s
      BY <1>8, <1>10, <1>11, <3>3
    <3> QED BY <2>1, <2>6, <3>2, <3>3
  <2>7. \A d, e \in Instance!Paths : links'.path[d] = links'.path[e] /\ links'.path[d] # <<>> => d = e
    BY <2>1, <2>2
  <2> QED BY <2>5, <2>6, <2>7
<1>23. Agains'
  BY <1>5, <1>7, <1>9 DEF Placed, Agains, LinkedTo
<1>24. Dups'
  <2>1. \A q \in Pids : /\ proc'[q].noDuplicate = proc[q].noDuplicate /\ proc'[q].config = proc[q].config
                        /\ proc'[q].display = proc[q].display
                        /\ proc'[q].step # "ended" => proc[q].step # "ended"
    BY <1>2, <1>7, <1>9 DEF c
  <2>2. amiss \subseteq amiss'
    BY <1>5 DEF LinkedTo
  <2> QED BY <1>2, <2>1, <2>2 DEF Placed, Dups, Doubles
<1>25. EnvsFit'
  <2> SUFFICES ASSUME NEW q \in Pids PROVE EnvFits(proc[q])'
    BY DEF EnvsFit
  <2>1. EnvFits(proc[q]) /\ proc'[q].env = proc[q].env /\ proc'[q].restarted = proc[q].restarted
        /\ (proc'[q].step = "restart" => proc[q].step = "restart")
    BY <1>7, <1>9 DEF Placed, EnvsFit
  <2>2. \A k \in 1..Len(proc[q].env) : proc[q].env[k] \in Instance!Ids
    BY <1>11
  <2>3. ASSUME NEW k \in 1..Len(proc[q].env)
        PROVE  /\ insts'[proc[q].env[k]].pid # 0 /\ proc[q].env[k] <= proc[q].env[1]
               /\ proc'[q].id # 0 => proc[q].env[k] < proc'[q].id
    <3>1. insts[proc[q].env[k]].pid # 0 /\ proc[q].env[k] <= proc[q].env[1] /\ (proc[q].id # 0 => proc[q].env[k] < proc[q].id)
      BY <2>1 DEF EnvFits
    <3>2. insts'[proc[q].env[k]].pid # 0
      BY <1>13, <2>2, <3>1
    <3>3. CASE q = p
      <4>1. proc'[q].id = i
        BY <1>7, <1>9, <3>3
      <4>2. proc[q].env[k] < i
        BY <1>1, <1>3, <2>2, <3>1, <3>3
      <4> QED BY <3>1, <3>2, <4>1, <4>2
    <3>4. CASE q # p
      BY <1>7, <3>1, <3>2, <3>4
    <3> QED BY <3>3, <3>4
  <2>4. ASSUME proc[q].restarted PROVE ~insts'[proc[q].env[1]].young
    <3>1. proc[q].env # <<>> /\ ~insts[proc[q].env[1]].young
      BY <2>1, <2>4 DEF EnvFits
    <3>2. 1 \in 1..Len(proc[q].env)
      BY <1>11, <3>1, EmptySeq
    <3>3. insts[proc[q].env[1]].pid # 0 /\ proc[q].env[1] \in Instance!Ids
      BY <2>1, <2>2, <3>2 DEF EnvFits
    <3> QED BY <1>3, <1>8, <1>10, <3>1, <3>3
  <2> QED BY <2>1, <2>3, <2>4 DEF EnvFits
<1> QED BY <1>16, <1>17, <1>18, <1>19, <1>20, <1>21, <1>22, <1>23, <1>24, <1>25 DEF Placed

LEMMA LocateIs == ASSUME FilesFit, NEW opt \in Instance!Options PROVE Instance!Locate(opt) \in Instance!Paths \cup {<<>>}
<1>1. ASSUME NEW name \in {"default", "other"} PROVE Instance!LocateNamed(tree, name) \in Instance!Paths \cup {<<>>}
  <2> DEFINE has == {d \in Instance!Dirs : IF Instance!Shells(tree, d) THEN name = "default" ELSE <<d, name>> \in tree}
             d   == Instance!Min(has)
  <2>1. Instance!LocateNamed(tree, name) = IF has = {} THEN <<>> ELSE <<d, IF Instance!Shells(tree, d) THEN "shell" ELSE name>>
    BY DEF Instance!LocateNamed
  <2>2. ASSUME has # {} PROVE d \in Instance!Dirs
    <3>1. \A x \in has : x \in {1, 2}
      BY DEF Instance!Dirs
    <3>2. \E x \in has : \A y \in has : x <= y
      <4>1. CASE 1 \in has
        BY <3>1, <4>1
      <4>2. CASE 1 \notin has
        BY <2>2, <3>1, <4>2
      <4> QED BY <4>1, <4>2
    <3> HIDE DEF has
    <3>3. Instance!Min(has) \in has
      BY <3>2 DEF Instance!Min
    <3> QED BY <3>3 DEF has
  <2> HIDE DEF has, d
  <2> QED BY <1>1, <2>1, <2>2 DEF Instance!Paths
<1>2. \A x \in tree : x \in Instance!Paths
  BY DEF FilesFit
<1>3. CASE opt \in {Instance!ByName("default"), Instance!ByName("other")}
  BY <1>1, <1>3 DEF Instance!Locate, Instance!ByName
<1>4. CASE opt = Instance!ByPath(<<2, "shell">>)
  BY <1>2, <1>4 DEF Instance!Locate, Instance!ByPath
<1> QED BY <1>3, <1>4 DEF Instance!Options

\* What an instance is launched with: what is told of a lock, of the instances that are linked.
LEMMA SmallestIs ==
  ASSUME NEW S \in SUBSET Nat, S # {}
  PROVE  Instance!Min(S) \in S /\ \A k \in S : Instance!Min(S) <= k
<1> DEFINE Less == OpToRel(<, Nat)
<1>1. IsWellFoundedOn(Less, Nat)
  BY NatLessThanWellFounded, Zenon
<1>2. \A j, k \in Nat : <<j, k>> \in Less <=> j < k
  BY DEF OpToRel
<1> HIDE DEF Less
<1>3. PICK m \in S : \A k \in S : <<k, m>> \notin Less
  <2>1. \E m \in S : \A k \in S : <<k, m>> \notin Less
    BY <1>1, WFMin
  <2> QED BY <2>1
<1>4. ASSUME NEW k \in S PROVE m <= k
  <2>1. m \in Nat /\ k \in Nat
    OBVIOUS
  <2>2. ~(k < m)
    BY <1>2, <1>3, <2>1
  <2> QED BY <2>1, <2>2
<1> QED BY <1>3, <1>4 DEF Instance!Min

\* A shell that runs is found by its configuration, and what is found has a number.
LEMMA RunningIsFound ==
  ASSUME Placed, NEW q \in Pids, proc[q].step = "running", NEW display \in Instance!Displays, display = proc[q].display,
         fails = {}, amiss \cap {"moved", "shared", "again"} = {}
  PROVE  Instance!SelectConfig(proc[q].config, display, FALSE, FALSE) # 0
<1> DEFINE c     == proc[q].config
           n     == proc[q].id
           found == Instance!Collect(Instance!LinkedPath(c), display)
           live  == Instance!OfLife(found, TRUE)
           ids   == {x.id : x \in live}
<1>1. proc[q] \in AnyProc /\ insts \in [Instance!Ids -> AnyInst] /\ links \in AnyLinks
  BY DEF Placed, PlaceType
<1>2. /\ c \in Instance!Paths /\ n \in Instance!Ids /\ insts[n].config = c /\ insts[n].display = display
      /\ insts[n].lock = "held" /\ insts[n].written /\ insts[n].pid # 0
  BY <1>1, ProcessesAreNumbered DEF Placed, ProcsFit, LocksFit, Works, AnyProc
<1>3. links.path[c] = insts[n].shell /\ n \in links.shell[insts[n].shell] /\ insts[n].shell # <<>> /\ insts[n].dir
  BY <1>2, PathsAreNamed DEF Placed, PathsLink, InstsFit
<1>4. n \in Instance!LinkedPath(c)
  BY <1>3 DEF Instance!LinkedPath
<1>5. Instance!InfoOf(n) = [id |-> n, live |-> TRUE, display |-> display]
  BY <1>2 DEF Instance!InfoOf, Instance!Locked
<1>6. Instance!InfoOf(n) \in found
  BY <1>2, <1>3, <1>4, <1>5 DEF Instance!Collect, Instance!HasLock
<1>7. Instance!InfoOf(n) \in live
  BY <1>5, <1>6 DEF Instance!OfLife
<1>8. n \in ids
  <2> HIDE DEF live
  <2>1. Instance!InfoOf(n).id = n
    BY <1>5
  <2> QED BY <1>7, <2>1
<1>9. links.shell[links.path[c]] \subseteq Instance!Ids
  BY <1>1, <1>2, <1>3 DEF AnyLinks, Placed, InstsFit
<1>10. \A x \in ids : x \in Nat /\ x # 0
  <2> SUFFICES ASSUME NEW x \in live PROVE x.id \in Nat /\ x.id # 0
    OBVIOUS
  <2>1. PICK i \in Instance!LinkedPath(c) : x = Instance!InfoOf(i) /\ display \in {"any", x.display}
    BY DEF Instance!OfLife, Instance!Collect
  <2>2. i \in Instance!Ids
    BY <1>3, <1>9, <2>1 DEF Instance!LinkedPath
  <2>3. insts[i].written
    BY <2>1 DEF Instance!InfoOf, Instance!Displays
  <2> QED BY <2>1, <2>2, <2>3 DEF Instance!InfoOf, Instance!Ids
<1>11. Instance!First(live, FALSE) = Instance!Min(ids)
  BY <1>7 DEF Instance!First
<1>12. Instance!SelectConfig(c, display, FALSE, FALSE) = Instance!First(live, FALSE)
  BY <1>2, PathsAreNamed DEF Instance!SelectConfig
<1> HIDE DEF live, ids
<1>13. Instance!Min(ids) \in ids
  BY <1>8, <1>10, SmallestIs
<1> QED BY <1>10, <1>11, <1>12, <1>13

\* What a step leaves of the rest of the invariant.
AnyDaemon == {"none", "failed", "up", "waits", "closed"}
Calm(x)   == "early" \notin amiss' => x \notin {"closed", "waits"}

\* A process is over.
LEMMA OverLeaves ==
  ASSUME InstanceInv, NEW p \in Pids, NEW r, IsOver(r), EnvFits(r),
         proc' = [proc EXCEPT ![p] = r], insts' = Freed(p), UNCHANGED <<links, fails, tree, pragma>>, amiss \subseteq amiss',
         NEW x \in AnyDaemon, daemon' = [daemon EXCEPT ![p] = x], Calm(x),
         quits' = quits \/ (proc[p].id # 0 /\ quits' = quits \cup {proc[p].id}),
         reporter' \in [Pids -> [open : BOOLEAN, holds : BOOLEAN]], ReportsFit'
  PROVE  InstanceInv'
<1>1. Placed'
  BY OverKeeps DEF InstanceInv
<1>2. proc \in [Pids -> AnyProc] /\ \A q \in Pids : proc'[q] = IF q = p THEN r ELSE proc[q]
  BY DEF InstanceInv, Placed, PlaceType
<1>3. \A i \in Instance!Ids : insts'[i].pid = insts[i].pid
  <2>1. \A i \in Instance!Ids : insts[i] \in AnyInst
    BY DEF InstanceInv, Placed, PlaceType
  <2> SUFFICES ASSUME NEW i \in Instance!Ids PROVE insts'[i].pid = insts[i].pid
    OBVIOUS
  <2>2. insts'[i] = IF insts[i].pid = p /\ insts[i].lock = "held" THEN [insts[i] EXCEPT !.lock = "free"] ELSE insts[i]
    BY DEF Freed, Instance!Locked
  <2> QED BY <2>1, <2>2 DEF AnyInst
<1>4. \A q \in Pids : proc[q].id \in Instance!Ids \cup {0} /\ (proc[q].id # 0 => insts[proc[q].id].pid = q)
  BY <1>2 DEF InstanceInv, Placed, ProcsFit, AnyProc
<1>5. 0 \notin Instance!Ids /\ p # 0
  BY ProcessesAreNumbered DEF Instance!Ids
<1>6. QuitsFit'
  <2>1. quits' \subseteq Instance!Ids
    BY <1>4 DEF InstanceInv, QuitsFit
  <2>2. \A i \in quits' : insts'[i].pid # 0
    BY <1>3, <1>4, <1>5, <2>1 DEF InstanceInv, QuitsFit
  <2>3. ASSUME "again" \notin amiss', NEW q \in Pids PROVE proc'[q].id \notin quits'
    <3>1. CASE q = p
      BY <1>2, <1>5, <2>1, <3>1 DEF IsOver
    <3>2. CASE q # p
      <4>1. proc[q].id \notin quits /\ proc'[q] = proc[q]
        BY <1>2, <2>3, <3>2 DEF InstanceInv, QuitsFit
      <4>2. proc[p].id # 0 => proc[q].id # proc[p].id
        BY <1>4, <3>2
      <4> QED BY <4>1, <4>2
    <3> QED BY <3>1, <3>2
  <2> QED BY <2>1, <2>2, <2>3 DEF QuitsFit
<1>7. DaemonsFit'
  BY <1>2 DEF InstanceInv, DaemonsFit, Calm, AnyDaemon
<1>8. FilesFit'
  BY DEF InstanceInv, FilesFit
<1> QED BY <1>1, <1>6, <1>7, <1>8 DEF InstanceInv

\* A process begins.
LEMMA BeginLeaves ==
  ASSUME InstanceInv, NEW p \in Pids, NEW r, BeginsAs(r, p), amiss \subseteq amiss',
         proc' = [proc EXCEPT ![p] = r], UNCHANGED <<insts, links, fails, tree, pragma, reporter, reports>>,
         NEW x \in AnyDaemon, daemon' = [daemon EXCEPT ![p] = x],
         "early" \notin amiss' => x # "closed" /\ (x = "waits" => r.step = "checked" /\ r.tells /\ r.holds),
         quits' = quits \/ (proc[p].id # 0 /\ quits' = quits \cup {proc[p].id} /\ "again" \in amiss')
  PROVE  InstanceInv'
<1>1. Placed'
  BY BeginKeeps DEF InstanceInv
<1>2. proc \in [Pids -> AnyProc] /\ \A q \in Pids : proc'[q] = IF q = p THEN r ELSE proc[q]
  BY DEF InstanceInv, Placed, PlaceType
<1>3. proc[p].id # 0 => proc[p].id \in Instance!Ids /\ insts[proc[p].id].pid = p /\ p # 0
  BY <1>2, ProcessesAreNumbered DEF InstanceInv, Placed, ProcsFit, AnyProc
<1>4. QuitsFit'
  <2>1. quits' \subseteq Instance!Ids /\ \A i \in quits' : insts'[i].pid # 0
    BY <1>3 DEF InstanceInv, QuitsFit
  <2>2. ASSUME "again" \notin amiss' PROVE \A q \in Pids : proc'[q].id \notin quits'
    BY <1>2, <2>2 DEF InstanceInv, QuitsFit, BeginsAs
  <2> QED BY <2>1, <2>2 DEF QuitsFit
<1>5. DaemonsFit'
  BY <1>2 DEF InstanceInv, DaemonsFit, AnyDaemon
<1>6. ReportsFit' /\ FilesFit'
  BY DEF InstanceInv, ReportsFit, FilesFit
<1> QED BY <1>1, <1>4, <1>5, <1>6 DEF InstanceInv

\* A process goes on.
LEMMA StepLeaves ==
  ASSUME InstanceInv, NEW p \in Pids, NEW r \in AnyProc, NEW a \in AnyInst, proc[p].step \in Works, r.step \in Works,
         Alike(r, proc[p]), Same(a, insts[proc[p].id]), a.written => a.lock # "none", fails = {} => LockedAt(r.step, a),
         proc' = [proc EXCEPT ![p] = r], insts' = [insts EXCEPT ![proc[p].id] = a],
         UNCHANGED <<links, fails, amiss, tree, pragma, reporter, reports, quits>>,
         NEW x \in AnyDaemon, daemon' = [daemon EXCEPT ![p] = x],
         "early" \notin amiss' =>
           x # "closed" /\ (x = "waits" => r.step # "running" /\ r.tells = proc[p].tells /\ r.holds = proc[p].holds /\ x = daemon[p])
  PROVE  InstanceInv'
<1>1. Placed'
  BY StepKeeps DEF InstanceInv
<1>2. /\ proc \in [Pids -> AnyProc] /\ \A q \in Pids : proc'[q] = IF q = p THEN r ELSE proc[q]
      /\ insts \in [Instance!Ids -> AnyInst]
  BY DEF InstanceInv, Placed, PlaceType
<1>3. \A i \in Instance!Ids : insts'[i].pid = insts[i].pid
  BY <1>2 DEF Same
<1>4. QuitsFit'
  BY <1>2, <1>3 DEF InstanceInv, QuitsFit, Alike
<1>5. DaemonsFit'
  <2>1. daemon \in [Pids -> AnyDaemon] /\ daemon' \in [Pids -> AnyDaemon] /\ \A q \in Pids : daemon'[q] = IF q = p THEN x ELSE daemon[q]
    BY DEF InstanceInv, DaemonsFit, AnyDaemon
  <2>2. ASSUME "early" \notin amiss', NEW q \in Pids
        PROVE  /\ daemon'[q] # "closed"
               /\ daemon'[q] = "waits" => /\ proc'[q].step \in {"checked", "linked", "opened", "locked", "written"}
                                          /\ proc'[q].tells /\ proc'[q].holds
    <3>1. daemon[q] # "closed" /\ (daemon[q] = "waits" => proc[q].tells /\ proc[q].holds
             /\ proc[q].step \in {"checked", "linked", "opened", "locked", "written"})
      BY <2>2 DEF InstanceInv, DaemonsFit
    <3>2. CASE q = p
      BY <1>2, <2>1, <2>2, <3>1, <3>2 DEF Works
    <3>3. CASE q # p
      BY <1>2, <2>1, <3>1, <3>3
    <3> QED BY <3>2, <3>3
  <2> QED BY <2>1, <2>2 DEF DaemonsFit, AnyDaemon
<1>6. ReportsFit' /\ FilesFit'
  BY DEF InstanceInv, ReportsFit, FilesFit
<1> QED BY <1>1, <1>4, <1>5, <1>6 DEF InstanceInv

\* The processes, and their instances, stay.
LEMMA StillLeaves ==
  ASSUME InstanceInv, UNCHANGED <<proc, insts, links, fails, reports, quits>>, amiss \subseteq amiss', DaemonsFit', FilesFit'
  PROVE  InstanceInv'
<1>1. ProcsFit' /\ LocksFit' /\ InstsFit' /\ PlaceType' /\ InOrder'
  BY DEF InstanceInv, Placed, ProcsFit, LocksFit, InstsFit, PlaceType, InOrder
<1>2. PidsLink' /\ PathsLink' /\ Agains' /\ Dups'
  BY DEF InstanceInv, Placed, PidsLink, PathsLink, Agains, Dups
<1>3. EnvsFit' /\ QuitsFit' /\ ReportsFit'
  BY DEF InstanceInv, Placed, EnvsFit, EnvFits, QuitsFit, ReportsFit
<1> QED BY <1>1, <1>2, <1>3 DEF InstanceInv, Placed

\* What a process is when it has ended, and what those that wait hear of it.
LEMMA EndedIs ==
  /\ IsOver(Instance!Ended) /\ EnvFits(Instance!Ended) /\ Instance!Ended.step = "ended"
  /\ \A p : Instance!EndOf(p) => proc' = [proc EXCEPT ![p] = Instance!Ended] /\ insts' = Freed(p)
<1>1. <<>> \in Seq(Instance!Ids)
  OBVIOUS
<1>2. IsOver(Instance!Ended) /\ Instance!Ended.step = "ended"
  BY <1>1 DEF Instance!Ended, IsOver, AnyProc, AnyStep, AnyPath, Works, Instance!Displays
<1>3. EnvFits(Instance!Ended)
  BY DEF Instance!Ended, EnvFits
<1>4. \A p : Instance!EndOf(p) => proc' = [proc EXCEPT ![p] = Instance!Ended] /\ insts' = Freed(p)
  BY DEF Instance!EndOf, Freed
<1> QED BY <1>2, <1>3, <1>4

LEMMA WaitingIs ==
  ASSUME InstanceInv, NEW p \in Pids
  PROVE  /\ daemon[p] \in AnyDaemon
         /\ \A held \in BOOLEAN : Instance!Hear(daemon[p], held) \in AnyDaemon
         /\ \A ok \in BOOLEAN : Instance!Told(daemon[p], ok) \in AnyDaemon
         /\ "early" \notin amiss => /\ daemon[p] # "closed"
                                    /\ daemon[p] = "waits" => proc[p].step \notin {"ended", "restart", "running"} /\ proc[p].tells
BY DEF InstanceInv, DaemonsFit, AnyDaemon, Instance!Hear, Instance!Told

\* The process returns from main().
LEMMA ReturnKeeps ==
  ASSUME InstanceInv, NEW p \in Pids, NEW ok \in BOOLEAN, Instance!Return(p, ok), amiss \subseteq amiss',
         UNCHANGED <<links, fails, tree, pragma, reporter, reports>>,
         quits' = quits \/ (proc[p].id # 0 /\ quits' = quits \cup {proc[p].id})
  PROVE  InstanceInv'
<1> DEFINE x == IF proc[p].tells THEN Instance!Told(daemon[p], ok) ELSE Instance!Hear(daemon[p], reporter[p].holds)
<1>1. Instance!EndOf(p) /\ daemon' = [daemon EXCEPT ![p] = x]
  BY DEF Instance!Return
<1>2. reporter[p].holds \in BOOLEAN
  BY DEF InstanceInv, FilesFit
<1>3. x \in AnyDaemon
  BY <1>2, WaitingIs
<1>4. Calm(x)
  BY WaitingIs DEF Calm, Instance!Told, Instance!Hear
<1>5. ReportsFit' /\ reporter' \in [Pids -> [open : BOOLEAN, holds : BOOLEAN]]
  BY DEF InstanceInv, ReportsFit, FilesFit
<1> HIDE DEF x
<1> QED BY <1>1, <1>3, <1>4, <1>5, EndedIs, OverLeaves

LEMMA DieKeeps == ASSUME InstanceInv, NEW p \in Pids, Instance!Die(p) PROVE InstanceInv'
<1> DEFINE x == Instance!Hear(daemon[p], reporter[p].holds)
<1>1. /\ Instance!EndOf(p) /\ daemon' = [daemon EXCEPT ![p] = x] /\ proc[p].step # "ended"
      /\ amiss \subseteq amiss' /\ (Instance!Launching(p) => "early" \in amiss')
      /\ UNCHANGED <<links, fails, tree, pragma, reporter, reports, quits>>
  BY DEF Instance!Die, Instance!Odd
<1>2. reporter[p].holds \in BOOLEAN
  BY DEF InstanceInv, FilesFit
<1>3. x \in AnyDaemon
  BY <1>2, WaitingIs
<1>4. Calm(x)
  BY <1>1, WaitingIs DEF Calm, Instance!Hear, Instance!Launching
<1>5. ReportsFit' /\ reporter' \in [Pids -> [open : BOOLEAN, holds : BOOLEAN]]
  BY <1>1 DEF InstanceInv, ReportsFit, FilesFit
<1> HIDE DEF x
<1> QED BY <1>1, <1>3, <1>4, <1>5, EndedIs, OverLeaves

\* What was told comes before what was inherited.
LEMMA CrashKeeps == ASSUME InstanceInv, NEW p \in Pids, Instance!Crash(p) PROVE InstanceInv'
<1> DEFINE n   == proc[p].id
           earlier == proc[p].env
           env == Instance!Environment(n, earlier)
<1>1. /\ proc[p].step \in Works
      /\ proc' = [proc EXCEPT ![p] = [Instance!Ended EXCEPT !.step = "restart", !.display = proc[p].display,
                                                         !.env = env, !.holds = proc[p].holds]]
      /\ insts' = Freed(p)
      /\ reporter' = [reporter EXCEPT ![p] = [open |-> TRUE, holds |-> proc[p].holds]]
      /\ reports' = [reports EXCEPT ![n] = Head(env)]
      /\ amiss \subseteq amiss' /\ (Instance!Launching(p) => "early" \in amiss')
      /\ UNCHANGED <<links, tree, pragma, fails, daemon, quits>>
  BY DEF Instance!Crash, Works, Instance!Odd, Freed
<1>2. proc \in [Pids -> AnyProc] /\ proc[p] \in AnyProc
  BY DEF InstanceInv, Placed, PlaceType
<1>3. /\ n \in Instance!Ids /\ insts[n].pid = p /\ p # 0 /\ EnvFits(proc[p]) /\ n # 0
      /\ earlier \in Seq(Instance!Ids) /\ proc[p].display \in Instance!Displays /\ proc[p].holds \in BOOLEAN
  BY <1>1, <1>2, ProcessesAreNumbered DEF InstanceInv, Placed, ProcsFit, EnvsFit, AnyProc
<1>4. env = <<n>> \o earlier
  BY DEF Instance!Environment
<1>5. /\ env \in Seq(Instance!Ids) /\ Len(env) = Len(earlier) + 1 /\ Head(env) = n /\ env[1] = n /\ env # <<>>
      /\ \A k \in 1..Len(env) : env[k] = IF k = 1 THEN n ELSE earlier[k - 1]
  BY <1>3, <1>4
<1> HIDE DEF env, earlier, n
<1>6. PICK r : r = [Instance!Ended EXCEPT !.step = "restart", !.display = proc[p].display, !.env = env, !.holds = proc[p].holds]
  OBVIOUS
<1>7. r = [step |-> "restart", id |-> 0, config |-> <<>>, display |-> proc[p].display, noDuplicate |-> FALSE,
           restarted |-> FALSE, env |-> env, tells |-> FALSE, holds |-> proc[p].holds]
  BY <1>6 DEF Instance!Ended
<1>8. proc' = [proc EXCEPT ![p] = r]
  BY <1>1, <1>6, Zenon
<1>9. IsOver(r)
  BY <1>3, <1>5, <1>7 DEF IsOver, AnyProc, AnyStep, AnyPath
<1>10. EnvFits(r)
  <2>1. r.env = env /\ r.id = 0 /\ ~r.restarted
    BY <1>7
  <2>2. ASSUME NEW k \in 1..Len(env) PROVE insts[env[k]].pid # 0 /\ env[k] <= env[1]
    <3>1. CASE k = 1
      BY <1>3, <1>5, <3>1 DEF Instance!Ids
    <3>2. CASE k # 1
      <4>1. k - 1 \in 1..Len(earlier) /\ env[k] = earlier[k - 1]
        BY <1>3, <1>5, <2>2, <3>2
      <4>2. insts[earlier[k - 1]].pid # 0 /\ earlier[k - 1] < n /\ earlier[k - 1] \in Instance!Ids
        BY <1>3, <4>1 DEF EnvFits, earlier, n
      <4> QED BY <1>3, <1>5, <4>1, <4>2 DEF Instance!Ids
    <3> QED BY <3>1, <3>2
  <2> QED BY <1>5, <2>1, <2>2 DEF EnvFits
<1>11. ReportsFit'
  BY <1>1, <1>3, <1>5 DEF InstanceInv, ReportsFit
<1>12. reporter' \in [Pids -> [open : BOOLEAN, holds : BOOLEAN]]
  BY <1>1, <1>3 DEF InstanceInv, FilesFit
<1>13. daemon' = [daemon EXCEPT ![p] = daemon[p]] /\ daemon[p] \in AnyDaemon
  BY <1>1 DEF InstanceInv, DaemonsFit, AnyDaemon
<1>14. Calm(daemon[p])
  BY <1>1, WaitingIs DEF Calm, Instance!Launching, Works
<1> QED BY <1>1, <1>8, <1>9, <1>10, <1>11, <1>12, <1>13, <1>14, OverLeaves

\* The ways in which the program is run.
LEMMA StartsAre ==
  ASSUME NEW s \in Instance!Starts
  PROVE  /\ s.opt \in Instance!Options /\ s.display \in Instance!Displays
         /\ s.noDuplicate \in BOOLEAN /\ s.daemonize \in BOOLEAN
<1>1. \A opt, display, noDuplicate, daemonize :
        LET t == Instance!Started(opt, display, noDuplicate, daemonize) IN
        t.opt = opt /\ t.display = display /\ t.noDuplicate = noDuplicate /\ t.daemonize = daemonize
  BY DEF Instance!Started
<1>2. \E opt \in Instance!Options, display \in Instance!Displays, noDuplicate \in BOOLEAN, daemonize \in BOOLEAN :
        s = Instance!Started(opt, display, noDuplicate, daemonize)
  <2>1. "x" \in Instance!Displays /\ "y" \in Instance!Displays
    BY DEF Instance!Displays
  <2>2. Instance!ByName("default") \in Instance!Options /\ Instance!ByName("other") \in Instance!Options
        /\ Instance!ByPath(<<2, "shell">>) \in Instance!Options
    BY DEF Instance!Options
  <2> QED BY <2>1, <2>2 DEF Instance!Starts
<1> QED BY <1>1, <1>2

LEMMA StartKeeps == ASSUME InstanceInv, NEW p \in Pids, NEW s \in Instance!Starts, Instance!Start(p, s) PROVE InstanceInv'
<1> DEFINE c     == Instance!Locate(s.opt)
           other == s.noDuplicate /\ Instance!SelectConfig(c, s.display, FALSE, FALSE) # 0
           x     == IF ~s.daemonize THEN "none" ELSE IF c = <<>> THEN "failed" ELSE IF other THEN "up" ELSE "waits"
<1>1. /\ proc[p].step = "ended"
      /\ proc' = IF c = <<>> \/ other THEN proc
                 ELSE [proc EXCEPT ![p] = [Instance!Ended EXCEPT !.step = "checked", !.config = c, !.display = s.display,
                                             !.noDuplicate = s.noDuplicate, !.tells = s.daemonize, !.holds = s.daemonize]]
      /\ daemon' = [daemon EXCEPT ![p] = x]
      /\ amiss \subseteq amiss'
      /\ c # <<>> /\ ~other /\ (\E q \in Instance!Beside(p, c, s.display) : Instance!Launching(q)) => "raced" \in amiss'
      /\ UNCHANGED <<insts, links, tree, pragma, fails, reporter, reports, quits>>
  BY DEF Instance!Start, Instance!Odd
<1>2. s.opt \in Instance!Options /\ s.display \in Instance!Displays /\ s.noDuplicate \in BOOLEAN /\ s.daemonize \in BOOLEAN
  BY StartsAre
<1>3. c \in Instance!Paths \cup {<<>>}
  BY <1>2, LocateIs DEF InstanceInv
<1>4. x \in AnyDaemon
  BY DEF AnyDaemon
<1>5. proc[p].id = 0
  BY <1>1 DEF InstanceInv, Placed, ProcsFit
<1>6. CASE c = <<>> \/ other
  <2>1. x \notin {"waits", "closed"} /\ proc' = proc
    BY <1>1, <1>6
  <2>2. DaemonsFit'
    <3> HIDE DEF x
    <3> QED BY <1>1, <1>4, <2>1 DEF InstanceInv, DaemonsFit, AnyDaemon
  <2>3. FilesFit'
    BY <1>1 DEF InstanceInv, FilesFit
  <2> QED BY <1>1, <2>1, <2>2, <2>3, StillLeaves
<1>7. CASE c # <<>> /\ ~other
  <2>1. PICK r : r = [Instance!Ended EXCEPT !.step = "checked", !.config = c, !.display = s.display,
                                             !.noDuplicate = s.noDuplicate, !.tells = s.daemonize, !.holds = s.daemonize]
    OBVIOUS
  <2>2. proc' = [proc EXCEPT ![p] = r]
    <3>1. proc' = [proc EXCEPT ![p] = [Instance!Ended EXCEPT !.step = "checked", !.config = c, !.display = s.display,
                                             !.noDuplicate = s.noDuplicate, !.tells = s.daemonize, !.holds = s.daemonize]]
      BY <1>1, <1>7, Zenon
    <3> QED BY <2>1, <3>1, Zenon
  <2> HIDE DEF c
  <2>3. r = [step |-> "checked", id |-> 0, config |-> c, display |-> s.display, noDuplicate |-> s.noDuplicate,
             restarted |-> FALSE, env |-> <<>>, tells |-> s.daemonize, holds |-> s.daemonize]
    BY <2>1 DEF Instance!Ended
  <2>4. r \in AnyProc /\ EnvFits(r)
    <3>1. <<>> \in Seq(Instance!Ids)
      OBVIOUS
    <3>2. r \in AnyProc
      BY <1>2, <1>3, <2>3, <3>1 DEF AnyProc, AnyStep, AnyPath
    <3>3. EnvFits(r)
      BY <2>3 DEF EnvFits
    <3> QED BY <3>2, <3>3
  <2>5. ASSUME fails = {}, amiss' \cap {"raced", "restarted", "inherited", "moved", "shared", "again"} = {},
               NEW q \in Pids \ {p}, proc[q].step # "ended", Doubles(r, proc[q])
        PROVE  FALSE
    <3>1. s.noDuplicate /\ proc[q].config = c /\ proc[q].display = s.display
      BY <2>3, <2>5 DEF Doubles
    <3>2. q \in Instance!Beside(p, c, s.display)
      BY <2>5, <3>1 DEF Instance!Beside
    <3>3. "raced" \notin amiss' /\ amiss \cap {"moved", "shared", "again"} = {}
      BY <1>1, <2>5
    <3>4. ~Instance!Launching(q)
      BY <1>1, <1>7, <3>2, <3>3 DEF c
    <3>5. proc[q].step = "running"
      BY <2>5, <3>4 DEF Instance!Launching
    <3>6. Instance!SelectConfig(proc[q].config, s.display, FALSE, FALSE) # 0
      BY <1>2, <2>5, <3>1, <3>3, <3>5, RunningIsFound DEF InstanceInv
    <3> QED BY <1>7, <3>1, <3>6
  <2>6. BeginsAs(r, p)
    BY <1>3, <1>5, <1>7, <2>3, <2>4, <2>5 DEF BeginsAs
  <2>7. x # "closed" /\ (x = "waits" => r.step = "checked" /\ r.tells /\ r.holds)
    BY <1>2, <2>3
  <2> HIDE DEF x
  <2> QED BY <1>1, <1>4, <2>2, <2>6, <2>7, BeginLeaves
<1> QED BY <1>6, <1>7

LEMMA StartedByShellKeeps == ASSUME InstanceInv, NEW p \in Pids, NEW q \in Pids, Instance!StartedByShell(p, q) PROVE InstanceInv'
<1>1. /\ proc[p].step = "ended" /\ proc[q].env # <<>>
      /\ proc' = [proc EXCEPT ![p] = [Instance!Ended EXCEPT !.step = "restart", !.display = proc[q].display, !.env = proc[q].env]]
      /\ daemon' = [daemon EXCEPT ![p] = "none"] /\ amiss \subseteq amiss' /\ "inherited" \in amiss'
      /\ UNCHANGED <<insts, links, tree, pragma, fails, reporter, reports, quits>>
  BY DEF Instance!StartedByShell, Instance!Odd
<1>2. proc[q] \in AnyProc
  BY DEF InstanceInv, Placed, PlaceType
<1>3. PICK r : r = [Instance!Ended EXCEPT !.step = "restart", !.display = proc[q].display, !.env = proc[q].env]
  OBVIOUS
<1>4. r = [step |-> "restart", id |-> 0, config |-> <<>>, display |-> proc[q].display, noDuplicate |-> FALSE,
           restarted |-> FALSE, env |-> proc[q].env, tells |-> FALSE, holds |-> FALSE]
  BY <1>3 DEF Instance!Ended
<1>5. proc' = [proc EXCEPT ![p] = r]
  BY <1>1, <1>3, Zenon
<1>6. r \in AnyProc
  BY <1>2, <1>4 DEF AnyProc, AnyStep, AnyPath
<1>7. EnvFits(r)
  <2>1. EnvFits(proc[q])
    BY DEF InstanceInv, Placed, EnvsFit
  <2> QED BY <1>1, <1>4, <2>1 DEF EnvFits
<1>8. BeginsAs(r, p)
  <2>1. proc[p].id = 0
    BY <1>1 DEF InstanceInv, Placed, ProcsFit
  <2> QED BY <1>1, <1>4, <1>6, <1>7, <2>1 DEF BeginsAs
<1>9. "none" \in AnyDaemon
  BY DEF AnyDaemon
<1> QED BY <1>1, <1>5, <1>8, <1>9, BeginLeaves

\* A shell that was told of its crash is launched again, if it had been there for a while.
LEMMA RestartKeeps == ASSUME InstanceInv, NEW p \in Pids, Instance!Restart(p) PROVE InstanceInv'
<1> DEFINE i == Head(proc[p].env)
           c == insts[i].config
<1>1. proc[p] \in AnyProc /\ EnvFits(proc[p]) /\ proc[p].step = "restart" /\ proc[p].id = 0 /\ proc[p].env # <<>>
  BY DEF InstanceInv, Placed, PlaceType, ProcsFit, EnvsFit, EnvFits, Instance!Restart
<1>2. 1 \in 1..Len(proc[p].env) /\ i = proc[p].env[1] /\ i \in Instance!Ids
  <2>1. proc[p].env \in Seq(Instance!Ids) /\ proc[p].env # <<>>
    BY <1>1 DEF AnyProc
  <2> QED BY <2>1, EmptySeq
<1>3. insts[i].pid # 0 /\ c \in Instance!Paths
  BY <1>1, <1>2 DEF EnvFits, InstanceInv, Placed, InstsFit
<1>4. CASE insts[i].young
  <2>1. Instance!Return(p, FALSE) /\ UNCHANGED <<links, tree, pragma, fails, reporter, reports, quits, amiss>>
    BY <1>4 DEF Instance!Restart
  <2> QED BY <2>1, ReturnKeeps
<1>5. CASE ~insts[i].young
  <2>1. /\ proc' = [proc EXCEPT ![p].step = "checked", ![p].config = c, ![p].restarted = TRUE]
        /\ amiss \subseteq amiss' /\ (Instance!Beside(p, c, proc[p].display) # {} => "restarted" \in amiss')
        /\ UNCHANGED <<insts, daemon, links, tree, pragma, fails, reporter, reports, quits>>
    BY <1>5 DEF Instance!Restart, Instance!Odd
  <2> HIDE DEF c
  <2>2. PICK r : r = [proc[p] EXCEPT !.step = "checked", !.config = c, !.restarted = TRUE]
    OBVIOUS
  <2>3. r = [step |-> "checked", id |-> proc[p].id, config |-> c, display |-> proc[p].display,
             noDuplicate |-> proc[p].noDuplicate, restarted |-> TRUE, env |-> proc[p].env,
             tells |-> proc[p].tells, holds |-> proc[p].holds]
    BY <1>1, <2>2 DEF AnyProc
  <2>4. proc' = [proc EXCEPT ![p] = r]
    BY <2>1, <2>2, Zenon
  <2>5. r \in AnyProc
    BY <1>1, <1>3, <2>3 DEF AnyProc, AnyStep, AnyPath
  <2>6. EnvFits(r)
    BY <1>1, <1>2, <1>5, <2>3 DEF EnvFits
  <2>7. ASSUME amiss' \cap {"raced", "restarted", "inherited", "moved", "shared", "again"} = {},
               NEW q \in Pids \ {p}, proc[q].step # "ended"
        PROVE  ~Doubles(r, proc[q])
    BY <2>1, <2>3, <2>7 DEF Instance!Beside, Doubles
  <2>8. BeginsAs(r, p)
    BY <1>1, <1>3, <2>3, <2>5, <2>6, <2>7 DEF BeginsAs
  <2>9. daemon' = [daemon EXCEPT ![p] = daemon[p]]
    BY <2>1 DEF InstanceInv, DaemonsFit
  <2>10. "early" \notin amiss' => daemon[p] # "closed" /\ daemon[p] # "waits"
    BY <1>1, <2>1, WaitingIs
  <2>11. daemon[p] \in AnyDaemon
    BY WaitingIs
  <2> QED BY <2>1, <2>4, <2>8, <2>9, <2>10, <2>11, BeginLeaves
<1> QED BY <1>4, <1>5

LEMMA QuitKeeps == ASSUME InstanceInv, NEW p \in Pids, Instance!Quit(p) PROVE InstanceInv'
<1> DEFINE c == Instance!Locate(Instance!ByName("default"))
<1>1. proc[p] \in AnyProc /\ EnvFits(proc[p]) /\ proc[p].step = "running" /\ proc[p].id # 0
  BY DEF InstanceInv, Placed, PlaceType, ProcsFit, EnvsFit, Works, Instance!Quit, Instance!Runs
<1>2. quits' = quits \cup {proc[p].id} /\ UNCHANGED <<links, tree, pragma, fails, reporter, reports>>
  BY DEF Instance!Quit
<1>3. c \in Instance!Paths \cup {<<>>}
  BY LocateIs DEF InstanceInv, Instance!Options
<1>4. CASE proc[p].restarted /\ c # <<>>
  <2>1. /\ proc' = [proc EXCEPT ![p].step = "checked", ![p].config = c, ![p].restarted = FALSE]
        /\ amiss \subseteq amiss' /\ "again" \in amiss' /\ UNCHANGED <<insts, daemon>>
    BY <1>4 DEF Instance!Quit, Instance!Odd
  <2> HIDE DEF c
  <2>2. PICK r : r = [proc[p] EXCEPT !.step = "checked", !.config = c, !.restarted = FALSE]
    OBVIOUS
  <2>3. r = [step |-> "checked", id |-> proc[p].id, config |-> c, display |-> proc[p].display,
             noDuplicate |-> proc[p].noDuplicate, restarted |-> FALSE, env |-> proc[p].env,
             tells |-> proc[p].tells, holds |-> proc[p].holds]
    BY <1>1, <2>2 DEF AnyProc
  <2>4. proc' = [proc EXCEPT ![p] = r]
    BY <2>1, <2>2, Zenon
  <2>5. r \in AnyProc
    BY <1>1, <1>3, <2>3 DEF AnyProc, AnyStep, AnyPath
  <2>6. EnvFits(r)
    BY <1>1, <2>3 DEF EnvFits
  <2>7. BeginsAs(r, p)
    BY <1>3, <1>4, <2>1, <2>3, <2>5, <2>6 DEF BeginsAs
  <2>8. daemon' = [daemon EXCEPT ![p] = daemon[p]]
    BY <2>1 DEF InstanceInv, DaemonsFit
  <2>9. "early" \notin amiss' => daemon[p] # "closed" /\ daemon[p] # "waits"
    BY <1>1, <2>1, WaitingIs
  <2>10. daemon[p] \in AnyDaemon
    BY WaitingIs
  <2> QED BY <1>1, <1>2, <2>1, <2>4, <2>7, <2>8, <2>9, <2>10, BeginLeaves
<1>5. CASE ~(proc[p].restarted /\ c # <<>>)
  <2>1. Instance!Return(p, TRUE) /\ UNCHANGED amiss
    BY <1>5 DEF Instance!Quit
  <2> QED BY <1>1, <1>2, <2>1, ReturnKeeps
<1> QED BY <1>4, <1>5

LEMMA LinkLeaves == ASSUME InstanceInv, NEW p \in Pids, Instance!Link(p) PROVE InstanceInv'
<1>1. Placed'
  BY LinkKeeps DEF InstanceInv
<1>2. PICK i \in Instance!Ids, dir \in BOOLEAN :
        /\ i = IF proc[p].id # 0 THEN proc[p].id ELSE Instance!NextId
        /\ proc' = [proc EXCEPT ![p] = LinkedProc(p, i)]
        /\ insts' = [insts EXCEPT ![i] = LinkedInst(p, i, dir)]
        /\ Instance!Linked(p, i)
  BY LinkIs, Zenon DEF InstanceInv
<1>3. proc[p].step = "checked" /\ UNCHANGED <<tree, pragma, daemon, reporter, reports, quits>> /\ amiss \subseteq amiss'
  BY <1>2, LinkIs, Zenon DEF InstanceInv, Instance!Linked, Instance!Odd
<1>4. insts[i].pid = IF proc[p].id # 0 THEN p ELSE 0
  BY <1>2, LinkedIdIs DEF InstanceInv
<1>5. proc \in [Pids -> AnyProc] /\ insts \in [Instance!Ids -> AnyInst] /\ p # 0
  BY ProcessesAreNumbered DEF InstanceInv, Placed, PlaceType
<1>6. \A q \in Pids : proc'[q] = IF q = p THEN LinkedProc(p, i) ELSE proc[q]
  BY <1>2, <1>5
<1>7. \A k \in Instance!Ids : insts[k].pid # 0 => insts'[k].pid # 0
  BY <1>2, <1>5 DEF LinkedInst
<1>8. QuitsFit'
  <2>1. ASSUME "again" \notin amiss', NEW q \in Pids PROVE proc'[q].id \notin quits
    <3>1. CASE q = p
      <4>1. proc[p].id = 0
        BY <1>3, <2>1 DEF InstanceInv, Placed, Agains
      <4>2. i \notin quits
        BY <1>4, <4>1 DEF InstanceInv, QuitsFit
      <4> QED BY <1>6, <3>1, <4>2 DEF LinkedProc
    <3>2. CASE q # p
      BY <1>3, <1>6, <2>1, <3>2 DEF InstanceInv, QuitsFit
    <3> QED BY <3>1, <3>2
  <2> QED BY <1>3, <1>7, <2>1 DEF InstanceInv, QuitsFit
<1>9. DaemonsFit'
  BY <1>3, <1>6 DEF InstanceInv, DaemonsFit, LinkedProc
<1>10. ReportsFit' /\ FilesFit'
  BY <1>3 DEF InstanceInv, ReportsFit, FilesFit
<1> QED BY <1>1, <1>8, <1>9, <1>10 DEF InstanceInv

\* The lock is made, held and written, and then the shell runs.
LEMMA LaunchKeeps ==
  ASSUME InstanceInv, NEW p \in Pids, Instance!Open(p) \/ Instance!Lock(p) \/ Instance!Write(p) \/ Instance!Run(p)
  PROVE  InstanceInv'
<1> DEFINE n == proc[p].id
<1>1. /\ proc[p].step \in Works /\ UNCHANGED <<links, fails, amiss, tree, pragma, reporter, reports, quits>>
      /\ proc[p].step \in {"linked", "opened", "locked", "written"}
  BY DEF Instance!Open, Instance!Lock, Instance!Write, Instance!Run, Works
<1>2. /\ proc[p] \in AnyProc /\ n \in Instance!Ids /\ n # 0 /\ insts[n].pid = p /\ p # 0 /\ insts[n] \in AnyInst
      /\ proc \in [Pids -> AnyProc] /\ insts \in [Instance!Ids -> AnyInst]
  BY <1>1, ProcessesAreNumbered DEF InstanceInv, Placed, PlaceType, ProcsFit, AnyProc
<1>3. daemon \in [Pids -> AnyDaemon]
  BY DEF InstanceInv, DaemonsFit, AnyDaemon
<1>4. fails = {} => LockedAt(proc[p].step, insts[n]) /\ insts[n].dir
  BY <1>1, <1>2 DEF InstanceInv, Placed, LocksFit, InstsFit, LockedAt
<1>5. insts[n].written => insts[n].lock # "none"
  BY <1>2 DEF InstanceInv, Placed, InstsFit
<1>6. "early" \notin amiss => daemon[p] # "closed"
  BY WaitingIs
<1> HIDE DEF n
<1>7. ASSUME NEW step \in {"opened", "locked", "written"}, proc' = [proc EXCEPT ![p].step = step], daemon' = daemon,
             NEW a \in AnyInst, insts' = [insts EXCEPT ![n] = a], Same(a, insts[n]),
             a.written => a.lock # "none", fails = {} => LockedAt(step, a)
      PROVE  InstanceInv'
  <2>1. PICK r : r = [proc[p] EXCEPT !.step = step]
    OBVIOUS
  <2>2. r = [step |-> step, id |-> n, config |-> proc[p].config, display |-> proc[p].display,
             noDuplicate |-> proc[p].noDuplicate, restarted |-> proc[p].restarted, env |-> proc[p].env,
             tells |-> proc[p].tells, holds |-> proc[p].holds]
    BY <1>2, <2>1 DEF AnyProc, n
  <2>3. proc' = [proc EXCEPT ![p] = r]
    BY <1>7, <2>1, Zenon
  <2>4. r \in AnyProc /\ r.step \in Works /\ Alike(r, proc[p]) /\ r.step = step /\ r.tells = proc[p].tells /\ r.holds = proc[p].holds
    BY <1>2, <2>2 DEF AnyProc, AnyStep, Works, Alike, n
  <2>5. daemon' = [daemon EXCEPT ![p] = daemon[p]] /\ daemon[p] \in AnyDaemon
    BY <1>3, <1>7
  <2>6. "early" \notin amiss' => /\ daemon[p] # "closed" /\ r.step # "running"
                                /\ r.tells = proc[p].tells /\ r.holds = proc[p].holds
    BY <1>1, <1>6, <2>4
  <2>7. /\ insts' = [insts EXCEPT ![proc[p].id] = a] /\ Same(a, insts[proc[p].id])
        /\ fails = {} => LockedAt(r.step, a)
    BY <1>7, <2>4 DEF n
  <2> QED BY <1>1, <1>7, <2>3, <2>4, <2>5, <2>6, <2>7, StepLeaves
<1>8. CASE Instance!Open(p)
  <2> DEFINE to == IF Instance!InstanceDir(TRUE) /\ insts[n].dir /\ insts[n].lock # "held" THEN "free" ELSE insts[n].lock
  <2>1. insts' = [insts EXCEPT ![n].lock = to] /\ proc' = [proc EXCEPT ![p].step = "opened"] /\ daemon' = daemon
    BY <1>8 DEF Instance!Open, n
  <2>2. fails = {} => Instance!InstanceDir(TRUE)
    BY DEF Instance!InstanceDir, Instance!ShellDir
  <2>3. /\ to \in {"none", "free", "held"} /\ (insts[n].lock # "none" => to # "none")
        /\ fails = {} => to # "none"
    BY <1>2, <1>4, <2>2 DEF AnyInst
  <2> HIDE DEF to
  <2>4. PICK a : a = [insts[n] EXCEPT !.lock = to]
    OBVIOUS
  <2>5. insts' = [insts EXCEPT ![n] = a]
    BY <2>1, <2>4, Zenon
  <2>6. a \in AnyInst /\ Same(a, insts[n]) /\ a.written = insts[n].written /\ a.lock = to
    BY <1>2, <2>3, <2>4 DEF AnyInst, Same
  <2>7. (a.written => a.lock # "none") /\ (fails = {} => LockedAt("opened", a))
    BY <1>5, <2>3, <2>6 DEF LockedAt
  <2> QED BY <1>7, <2>1, <2>5, <2>6, <2>7
<1>9. CASE Instance!Lock(p)
  <2> DEFINE to == IF insts[n].lock = "none" THEN insts[n].lock ELSE "held"
  <2>1. insts' = [insts EXCEPT ![n].lock = to] /\ proc' = [proc EXCEPT ![p].step = "locked"] /\ daemon' = daemon
        /\ proc[p].step = "opened"
    BY <1>9 DEF Instance!Lock, n
  <2>2. to \in {"none", "free", "held"} /\ (to = "none" <=> insts[n].lock = "none") /\ (to # "none" => to = "held")
    OBVIOUS
  <2> HIDE DEF to
  <2>3. PICK a : a = [insts[n] EXCEPT !.lock = to]
    OBVIOUS
  <2>4. insts' = [insts EXCEPT ![n] = a]
    BY <2>1, <2>3, Zenon
  <2>5. a \in AnyInst /\ Same(a, insts[n]) /\ a.written = insts[n].written /\ a.lock = to
    BY <1>2, <2>2, <2>3 DEF AnyInst, Same
  <2>6. (a.written => a.lock # "none") /\ (fails = {} => LockedAt("locked", a))
    BY <1>4, <1>5, <2>1, <2>2, <2>5 DEF LockedAt
  <2> QED BY <1>7, <2>1, <2>4, <2>5, <2>6
<1>10. CASE Instance!Write(p)
  <2>1. insts' = [insts EXCEPT ![n].written = Instance!Locked(n)] /\ proc' = [proc EXCEPT ![p].step = "written"] /\ daemon' = daemon
        /\ proc[p].step = "locked"
    BY <1>10 DEF Instance!Write, n
  <2>2. PICK a : a = [insts[n] EXCEPT !.written = Instance!Locked(n)]
    OBVIOUS
  <2>3. insts' = [insts EXCEPT ![n] = a]
    BY <2>1, <2>2, Zenon
  <2>4. Instance!Locked(n) \in BOOLEAN /\ (Instance!Locked(n) <=> insts[n].lock = "held")
    BY DEF Instance!Locked
  <2>5. a \in AnyInst /\ Same(a, insts[n]) /\ a.written = Instance!Locked(n) /\ a.lock = insts[n].lock
    BY <1>2, <2>2, <2>4 DEF AnyInst, Same
  <2>6. (a.written => a.lock # "none") /\ (fails = {} => LockedAt("written", a))
    BY <1>4, <2>1, <2>4, <2>5 DEF LockedAt
  <2> QED BY <1>7, <2>1, <2>3, <2>5, <2>6
<1>11. CASE Instance!Run(p)
  <2>1. /\ proc[p].step = "written" /\ insts' = insts
        /\ proc' = [proc EXCEPT ![p].step = "running", ![p].tells = FALSE, ![p].holds = @ /\ ~proc[p].tells]
        /\ daemon' = [daemon EXCEPT ![p] = Instance!Told(daemon[p], TRUE /\ proc[p].tells)]
    BY <1>11 DEF Instance!Run, Instance!ExitDaemon
  <2> DEFINE holds == proc[p].holds /\ ~proc[p].tells
             x     == Instance!Told(daemon[p], TRUE /\ proc[p].tells)
  <2>2. holds \in BOOLEAN
    OBVIOUS
  <2>3. proc' = [proc EXCEPT ![p].step = "running", ![p].tells = FALSE, ![p].holds = holds]
    BY <2>1
  <2>4. x \in AnyDaemon /\ ("early" \notin amiss' => x # "closed" /\ x # "waits")
    <3>1. (TRUE /\ proc[p].tells) \in BOOLEAN
      OBVIOUS
    <3> QED BY <1>1, <3>1, WaitingIs DEF Instance!Told, AnyDaemon
  <2> HIDE DEF holds, x
  <2>5. PICK r : r = [proc[p] EXCEPT !.step = "running", !.tells = FALSE, !.holds = holds]
    OBVIOUS
  <2>6. r = [step |-> "running", id |-> n, config |-> proc[p].config, display |-> proc[p].display,
             noDuplicate |-> proc[p].noDuplicate, restarted |-> proc[p].restarted, env |-> proc[p].env,
             tells |-> FALSE, holds |-> holds]
    BY <1>2, <2>5 DEF AnyProc, n
  <2>7. proc' = [proc EXCEPT ![p] = r]
    BY <2>3, <2>5, Zenon
  <2>8. r \in AnyProc /\ r.step \in Works /\ Alike(r, proc[p]) /\ r.step = "running"
    BY <1>2, <2>2, <2>6 DEF AnyProc, AnyStep, Works, Alike, n
  <2>9. insts' = [insts EXCEPT ![n] = insts[n]] /\ Same(insts[n], insts[n]) /\ (fails = {} => LockedAt("running", insts[n]))
    BY <1>2, <1>4, <2>1 DEF Same, LockedAt
  <2>10. daemon' = [daemon EXCEPT ![p] = x]
    BY <2>1 DEF x
  <2> QED BY <1>1, <1>2, <1>5, <2>4, <2>7, <2>8, <2>9, <2>10, StepLeaves DEF n
<1> QED BY <1>8, <1>9, <1>10, <1>11

\* A report is closed, and time passes.
LEMMA CloseReportKeeps == ASSUME InstanceInv, NEW p \in Pids, Instance!CloseReport(p) PROVE InstanceInv'
<1>1. /\ reporter' = [reporter EXCEPT ![p] = [open |-> FALSE, holds |-> FALSE]]
      /\ daemon' = [daemon EXCEPT ![p] = Instance!Hear(daemon[p], proc[p].holds)]
      /\ UNCHANGED <<proc, insts, links, tree, pragma, fails, reports, quits, amiss>>
  BY DEF Instance!CloseReport
<1>2. proc[p].holds \in BOOLEAN
  BY DEF InstanceInv, Placed, PlaceType, AnyProc
<1>3. Instance!Hear(daemon[p], proc[p].holds) \in AnyDaemon /\ ("early" \notin amiss => Instance!Hear(daemon[p], proc[p].holds) = daemon[p])
  BY <1>2, WaitingIs DEF InstanceInv, DaemonsFit, Instance!Hear
<1>4. DaemonsFit'
  BY <1>1, <1>3 DEF InstanceInv, DaemonsFit, AnyDaemon
<1>5. FilesFit'
  BY <1>1 DEF InstanceInv, FilesFit
<1> QED BY <1>1, <1>4, <1>5, StillLeaves

LEMMA AgeKeeps == ASSUME InstanceInv, NEW i \in Instance!Ids, Instance!Age(i) PROVE InstanceInv'
<1>1. insts' = [insts EXCEPT ![i].young = FALSE] /\ UNCHANGED <<proc, links, tree, pragma, fails, daemon, reporter, reports, quits, amiss>>
  BY DEF Instance!Age
<1>2. insts \in [Instance!Ids -> AnyInst] /\ insts[i] \in AnyInst
  BY DEF InstanceInv, Placed, PlaceType
<1>3. PICK a : a = [insts[i] EXCEPT !.young = FALSE]
  OBVIOUS
<1>4. insts' = [insts EXCEPT ![i] = a]
  BY <1>1, <1>3, Zenon
<1>5. /\ a \in AnyInst /\ a.pid = insts[i].pid /\ a.config = insts[i].config /\ a.shell = insts[i].shell
      /\ a.display = insts[i].display /\ a.dir = insts[i].dir /\ a.lock = insts[i].lock /\ a.written = insts[i].written
      /\ ~a.young
  BY <1>2, <1>3 DEF AnyInst
<1>6. \A k \in Instance!Ids :
        /\ insts'[k].pid = insts[k].pid /\ insts'[k].config = insts[k].config /\ insts'[k].shell = insts[k].shell
        /\ insts'[k].display = insts[k].display /\ insts'[k].dir = insts[k].dir /\ insts'[k].lock = insts[k].lock
        /\ insts'[k].written = insts[k].written /\ (insts'[k].young => insts[k].young)
  BY <1>2, <1>4, <1>5
<1>7. \A q \in Pids : proc[q].id \in Instance!Ids \cup {0} /\ proc[q].env \in Seq(Instance!Ids) /\ links.pid[q] \in Instance!Ids \cup {0}
  BY DEF InstanceInv, Placed, PlaceType, AnyProc, AnyLinks
<1>8. PlaceType'
  BY <1>1, <1>2, <1>4, <1>5 DEF InstanceInv, Placed, PlaceType
<1>9. ProcsFit' /\ LocksFit'
  BY <1>1, <1>6, <1>7 DEF InstanceInv, Placed, ProcsFit, LocksFit
<1>10. InstsFit' /\ InOrder'
  BY <1>1, <1>6 DEF InstanceInv, Placed, InstsFit, InOrder
<1>11. PidsLink' /\ Agains' /\ Dups'
  BY <1>1, <1>6, <1>7 DEF InstanceInv, Placed, PidsLink, Agains, Dups
<1>12. PathsLink'
  <2>1. \A s \in Instance!ShellIds : links.shell[s] \subseteq Instance!Ids
    BY DEF InstanceInv, Placed, PlaceType, AnyLinks
  <2> QED BY <1>1, <1>6, <2>1 DEF InstanceInv, Placed, PathsLink
<1>13. EnvsFit'
  <2> SUFFICES ASSUME NEW q \in Pids PROVE EnvFits(proc[q])'
    BY DEF EnvsFit
  <2>1. EnvFits(proc[q]) /\ proc'[q] = proc[q]
    BY <1>1 DEF InstanceInv, Placed, EnvsFit
  <2>2. \A k \in 1..Len(proc[q].env) : proc[q].env[k] \in Instance!Ids
    BY <1>7
  <2>3. proc[q].env # <<>> => proc[q].env[1] \in Instance!Ids
    BY <1>7, <2>2, EmptySeq
  <2> QED BY <1>6, <2>1, <2>2, <2>3 DEF EnvFits
<1>14. QuitsFit' /\ DaemonsFit' /\ ReportsFit' /\ FilesFit'
  BY <1>1, <1>6 DEF InstanceInv, QuitsFit, DaemonsFit, ReportsFit, FilesFit
<1> QED BY <1>8, <1>9, <1>10, <1>11, <1>12, <1>13, <1>14 DEF InstanceInv, Placed

LEMMA EditsKeep ==
  ASSUME InstanceInv, Instance!EditTree \/ (\E c \in Instance!Paths : Instance!EditShellId(c)) \/ UNCHANGED Instance!instanceVars
  PROVE  InstanceInv'
<1>1. UNCHANGED <<proc, insts, links, fails, daemon, reporter, reports, quits, amiss>>
  BY DEF Instance!EditTree, Instance!EditShellId, Instance!instanceVars
<1>2. tree' \subseteq Instance!Paths
  <2>1. <<1, "shell">> \in Instance!Paths
    BY DEF Instance!Paths, Instance!Dirs
  <2> QED BY <2>1 DEF InstanceInv, FilesFit, Instance!EditTree, Instance!EditShellId, Instance!instanceVars
<1>3. pragma' \in [Instance!Paths -> Instance!ShellIds]
  BY DEF InstanceInv, FilesFit, Instance!EditTree, Instance!EditShellId, Instance!instanceVars, Instance!ShellIds
<1>4. FilesFit' /\ DaemonsFit'
  BY <1>1, <1>2, <1>3 DEF InstanceInv, FilesFit, DaemonsFit
<1> QED BY <1>1, <1>4, StillLeaves

LEMMA NextInstance == InstanceInv /\ [Instance!Next]_(Instance!instanceVars) => InstanceInv'
<1> SUFFICES ASSUME InstanceInv, [Instance!Next]_(Instance!instanceVars) PROVE InstanceInv'
  OBVIOUS
<1>1. CASE \E p \in Pids, s \in Instance!Starts : Instance!Start(p, s)
  BY <1>1, StartKeeps
<1>2. CASE \E p, q \in Pids : Instance!StartedByShell(p, q)
  BY <1>2, StartedByShellKeeps
<1>3. CASE \E p \in Pids : Instance!Link(p)
  BY <1>3, LinkLeaves
<1>4. CASE \E p \in Pids : Instance!LinkFails(p)
  <2>1. PICK p \in Pids : Instance!LinkFails(p)
    BY <1>4
  <2>2. Instance!Return(p, FALSE) /\ UNCHANGED <<links, tree, pragma, fails, reporter, reports, quits, amiss>>
    BY <2>1 DEF Instance!LinkFails
  <2> QED BY <2>2, ReturnKeeps
<1>5. CASE \E p \in Pids : Instance!Open(p) \/ Instance!Lock(p) \/ Instance!Write(p) \/ Instance!Run(p)
  BY <1>5, LaunchKeeps
<1>6. CASE \E p \in Pids : Instance!Quit(p)
  BY <1>6, QuitKeeps
<1>7. CASE \E p \in Pids : Instance!Die(p)
  BY <1>7, DieKeeps
<1>8. CASE \E p \in Pids : Instance!Crash(p)
  BY <1>8, CrashKeeps
<1>9. CASE \E p \in Pids : Instance!Restart(p)
  BY <1>9, RestartKeeps
<1>10. CASE \E p \in Pids : Instance!CloseReport(p)
  BY <1>10, CloseReportKeeps
<1>11. CASE \E i \in Instance!Ids : Instance!Age(i)
  BY <1>11, AgeKeeps
<1>12. CASE Instance!EditTree \/ (\E c \in Instance!Paths : Instance!EditShellId(c)) \/ UNCHANGED Instance!instanceVars
  BY <1>12, EditsKeep
<1> QED BY <1>1, <1>2, <1>3, <1>4, <1>5, <1>6, <1>7, <1>8, <1>9, <1>10, <1>11, <1>12 DEF Instance!Next

\* What a command finds, by the numbers of the instances.
Numbers(found) == {x.id : x \in found}
Shown(i, d)    == d \in {"any", IF insts[i].written THEN insts[i].display ELSE "none"}
LEMMA CollectIs ==
  ASSUME NEW S, NEW d, NEW live \in BOOLEAN, NEW k
  PROVE  k \in Numbers(Instance!OfLife(Instance!Collect(S, d), live)) <=>
           \E i \in S : /\ Instance!HasLock(i) /\ (Instance!Locked(i) <=> live) /\ Shown(i, d)
                        /\ k = IF insts[i].written THEN i ELSE 0
<1> DEFINE found == Instance!Collect(S, d)
<1>1. \A i : /\ Instance!InfoOf(i).id = IF insts[i].written THEN i ELSE 0
             /\ Instance!InfoOf(i).live = Instance!Locked(i)
             /\ Instance!InfoOf(i).display = IF insts[i].written THEN insts[i].display ELSE "none"
  BY DEF Instance!InfoOf
<1>2. \A x : x \in found <=> \E i \in S : Instance!HasLock(i) /\ x = Instance!InfoOf(i) /\ Shown(i, d)
  BY <1>1 DEF Instance!Collect, Shown
<1>3. \A i : Instance!Locked(i) \in BOOLEAN
  BY DEF Instance!Locked
<1> HIDE DEF found
<1>4. \A x : x \in Instance!OfLife(found, live) <=> x \in found /\ x.live = live
  BY DEF Instance!OfLife
<1>5. ASSUME NEW i \in S, Instance!HasLock(i), Instance!Locked(i) <=> live, Shown(i, d), k = IF insts[i].written THEN i ELSE 0
      PROVE  k \in Numbers(Instance!OfLife(found, live))
  <2>1. Instance!InfoOf(i) \in Instance!OfLife(found, live)
    BY <1>1, <1>2, <1>3, <1>4, <1>5
  <2>2. k = Instance!InfoOf(i).id
    BY <1>1, <1>5
  <2> QED BY <2>1, <2>2 DEF Numbers
<1>6. ASSUME k \in Numbers(Instance!OfLife(found, live))
      PROVE  \E i \in S : /\ Instance!HasLock(i) /\ (Instance!Locked(i) <=> live) /\ Shown(i, d)
                          /\ k = IF insts[i].written THEN i ELSE 0
  <2>1. PICK x \in Instance!OfLife(found, live) : k = x.id
    BY <1>6 DEF Numbers
  <2>2. x \in found /\ x.live = live
    BY <1>4, <2>1
  <2>3. PICK i \in S : Instance!HasLock(i) /\ x = Instance!InfoOf(i) /\ Shown(i, d)
    BY <1>2, <2>2
  <2> QED BY <1>1, <1>3, <2>1, <2>2, <2>3
<1> QED BY <1>5, <1>6 DEF found

\* None is just being launched, and the links by configuration are right.
Rested == Instance!Settled /\ fails = {} /\ amiss \cap {"moved", "shared", "again"} = {}
LEMMA RestedIs ==
  ASSUME Placed, Rested
  PROVE  /\ \A p \in Pids : proc[p].step \in {"ended", "running"} /\ (Instance!Runs(p) <=> proc[p].step = "running")
         /\ \A p \in Pids : Instance!Runs(p) =>
              /\ proc[p].id \in Instance!Ids /\ proc[p].id \in Instance!Running /\ insts[proc[p].id].pid = p
              /\ links.pid[p] = proc[p].id
         /\ Instance!Running \subseteq Instance!Ids
         /\ \A i \in Instance!Ids : /\ i \in Instance!Running <=> Instance!Locked(i)
                                    /\ Instance!Locked(i) => insts[i].written
                                    /\ insts[i].written => Instance!HasLock(i) /\ insts[i].pid # 0
                                    /\ insts[i].pid # 0 => insts[i].pid \in Pids
<1>1. \A p \in Pids : proc[p].step \in {"ended", "running"} /\ (Instance!Runs(p) <=> proc[p].step = "running")
  BY DEF Rested, Instance!Settled, Instance!Launching, Instance!Runs
<1>2. ASSUME NEW p \in Pids, Instance!Runs(p)
      PROVE  /\ proc[p].id \in Instance!Ids /\ proc[p].id \in Instance!Running /\ insts[proc[p].id].pid = p
             /\ links.pid[p] = proc[p].id /\ insts[proc[p].id].lock = "held" /\ insts[proc[p].id].written
  <2>1. proc[p].step = "running" /\ proc[p].step \in Works /\ proc[p] \in AnyProc
    BY <1>2 DEF Instance!Runs, Works, Placed, PlaceType
  <2>2. proc[p].id # 0 /\ proc[p].id \in Instance!Ids
    BY <2>1 DEF Placed, ProcsFit, AnyProc
  <2>3. proc[p].id \in Instance!Running
    BY <1>2 DEF Instance!Running
  <2> QED BY <2>1, <2>2, <2>3 DEF Placed, ProcsFit, LocksFit, PidsLink, Rested
<1>3. Instance!Running \subseteq Instance!Ids /\ \A i \in Instance!Running : insts[i].lock = "held"
  BY <1>2 DEF Instance!Running
<1>4. ASSUME NEW i \in Instance!Ids
      PROVE  /\ i \in Instance!Running <=> Instance!Locked(i)
             /\ Instance!Locked(i) => insts[i].written
             /\ insts[i].written => Instance!HasLock(i) /\ insts[i].pid # 0
             /\ insts[i].pid # 0 => insts[i].pid \in Pids
  <2>1. ASSUME Instance!Locked(i) PROVE i \in Instance!Running /\ insts[i].written
    <3>1. insts[i].pid \in Pids /\ proc[insts[i].pid].id = i /\ i # 0
      BY <2>1 DEF Placed, InstsFit, Instance!Locked, Instance!Ids
    <3>2. proc[insts[i].pid].step # "ended"
      BY <3>1 DEF Placed, ProcsFit
    <3>3. Instance!Runs(insts[i].pid)
      BY <1>1, <3>1, <3>2
    <3> QED BY <1>2, <3>1, <3>3
  <2>2. i \in Instance!Running => Instance!Locked(i)
    BY <1>3 DEF Instance!Locked
  <2>3. insts[i].written => Instance!HasLock(i) /\ insts[i].pid # 0
    BY DEF Placed, InstsFit, Instance!HasLock, Rested
  <2>4. insts[i].pid # 0 => insts[i].pid \in Pids
    BY DEF Placed, PlaceType, AnyInst
  <2> QED BY <2>1, <2>2, <2>3, <2>4
<1> QED BY <1>1, <1>2, <1>3, <1>4

\* The links of a configuration lead to its instances.
LEMMA LinkedPathIs ==
  ASSUME Placed, Rested, NEW c \in Instance!Paths
  PROVE  Instance!LinkedPath(c) = {i \in Instance!Ids : insts[i].pid # 0 /\ insts[i].config = c}
<1> DEFINE s == links.path[c]
<1>1. Instance!LinkedPath(c) = IF s = <<>> THEN {} ELSE links.shell[s]
  BY DEF Instance!LinkedPath
<1>2. /\ \A i \in Instance!Ids : insts[i].pid # 0 => links.path[insts[i].config] = insts[i].shell /\ i \in links.shell[insts[i].shell]
      /\ \A t \in Instance!ShellIds : \A i \in links.shell[t] : insts[i].pid # 0 /\ insts[i].shell = t
      /\ \A d, e \in Instance!Paths : links.path[d] = links.path[e] /\ links.path[d] # <<>> => d = e
  BY DEF Placed, PathsLink, Rested
<1>3. \A i \in Instance!Ids : insts[i].pid # 0 => insts[i].config \in Instance!Paths /\ insts[i].shell \in Instance!ShellIds
  BY DEF Placed, InstsFit
<1>4. s \in AnyShell /\ \A t \in Instance!ShellIds : links.shell[t] \subseteq Instance!Ids
  BY DEF Placed, PlaceType, AnyLinks
<1> HIDE DEF s
<1>5. ASSUME NEW i \in Instance!Ids, insts[i].pid # 0, insts[i].config = c PROVE i \in Instance!LinkedPath(c)
  <2>1. s = insts[i].shell /\ i \in links.shell[s] /\ s # <<>>
    BY <1>2, <1>3, <1>5, PathsAreNamed DEF s
  <2> QED BY <1>1, <2>1
<1>6. ASSUME NEW i \in Instance!LinkedPath(c) PROVE i \in Instance!Ids /\ insts[i].pid # 0 /\ insts[i].config = c
  <2>1. s # <<>> /\ i \in links.shell[s] /\ s \in Instance!ShellIds
    BY <1>1, <1>4, <1>6 DEF AnyShell
  <2>2. i \in Instance!Ids /\ insts[i].pid # 0 /\ insts[i].shell = s
    BY <1>2, <1>4, <2>1
  <2>3. links.path[insts[i].config] = links.path[c] /\ insts[i].config \in Instance!Paths
    BY <1>2, <1>3, <2>2 DEF s
  <2> QED BY <1>2, <2>1, <2>2, <2>3 DEF s
<1> QED BY <1>5, <1>6

\* By process id: the instance that runs in it.
LEMMA ByPidIs ==
  ASSUME Placed, Rested, NEW p \in Pids
  PROVE  Instance!SelectPid(p, FALSE) = IF Instance!Runs(p) THEN proc[p].id ELSE 0
<1> DEFINE i == links.pid[p]
<1>1. Instance!SelectPid(p, FALSE) = IF i = 0 \/ ~Instance!HasLock(i) \/ ~Instance!Locked(i) THEN 0 ELSE Instance!InfoOf(i).id
  BY DEF Instance!SelectPid
<1>2. i \in Instance!Ids \cup {0} /\ 0 \notin Instance!Ids
  BY DEF Placed, PlaceType, AnyLinks, Instance!Ids
<1> HIDE DEF i
<1>3. CASE Instance!Runs(p)
  <2>1. i = proc[p].id /\ i \in Instance!Ids /\ Instance!Locked(i) /\ insts[i].written /\ Instance!HasLock(i)
    BY <1>3, RestedIs DEF i
  <2>2. Instance!InfoOf(i).id = i
    BY <2>1 DEF Instance!InfoOf
  <2> QED BY <1>1, <1>2, <1>3, <2>1, <2>2
<1>4. CASE ~Instance!Runs(p)
  <2>1. ASSUME i # 0, Instance!Locked(i) PROVE FALSE
    <3>1. i \in Instance!Ids /\ insts[i].pid = p
      BY <1>2, <2>1 DEF Placed, PidsLink, i
    <3>2. proc[p].id = i
      BY <2>1, <3>1 DEF Placed, InstsFit, Instance!Locked
    <3>3. proc[p].step # "ended"
      BY <2>1, <3>2 DEF Placed, ProcsFit
    <3> QED BY <1>4, <3>3, RestedIs
  <2> QED BY <1>1, <1>4, <2>1
<1> QED BY <1>3, <1>4

LEMMA GreatestIs ==
  ASSUME NEW S \in SUBSET Nat, NEW m \in S, \A k \in S : k <= m
  PROVE  Instance!Max(S) = m
<1>1. m \in Nat /\ \A k \in S : k \in Nat
  OBVIOUS
<1>2. Instance!Max(S) \in S /\ \A k \in S : Instance!Max(S) >= k
  BY <1>1 DEF Instance!Max
<1> DEFINE max == Instance!Max(S)
<1>3. max \in Nat /\ max <= m /\ max >= m
  BY <1>1, <1>2
<1> QED BY <1>1, <1>3
LEMMA BoundedHasGreatest ==
  ASSUME NEW n \in Nat, NEW S \in SUBSET (0..n), S # {}
  PROVE  \E m \in S : \A k \in S : k <= m
<1> DEFINE T == {n - k : k \in S}
<1>1. T \in SUBSET Nat /\ T # {}
  <2>1. \A k \in S : k \in 0..n /\ n - k \in Nat
    OBVIOUS
  <2> QED BY <2>1
<1>2. Instance!Min(T) \in T /\ \A k \in T : Instance!Min(T) <= k
  BY <1>1, SmallestIs
<1>3. PICK m \in S : Instance!Min(T) = n - m
  BY <1>2
<1>4. ASSUME NEW k \in S PROVE k <= m
  <2>1. n - k \in T /\ k \in 0..n /\ m \in 0..n
    BY <1>4
  <2>2. n - m <= n - k
    BY <1>2, <1>3, <2>1
  <2> QED BY <2>1, <2>2
<1> QED BY <1>4
LEMMA OnlyIs == ASSUME NEW a \in Nat, NEW x, x.id = a PROVE Instance!First({x}, FALSE) = a
<1>1. {y.id : y \in {x}} = {a}
  OBVIOUS
<1>2. Instance!Min({a}) = a
  BY SmallestIs
<1>3. Instance!First({x}, FALSE) = Instance!Min({y.id : y \in {x}})
  BY DEF Instance!First
<1> QED BY <1>1, <1>2, <1>3

\* By the id of an instance.
LEMMA ByIdIs ==
  ASSUME Placed, Rested, NEW i \in Instance!Ids
  PROVE  /\ Instance!SelectId({i}, "any", FALSE) = IF i \in Instance!Running THEN i ELSE 0
         /\ "reused" \notin amiss /\ i \in Instance!Dead => Instance!SelectId({i}, "any", TRUE) = i
<1> DEFINE x     == Instance!InfoOf(i)
           found == {y \in Instance!Collect(Instance!LinkedPids, "any") : y.id \in {i}}
           live  == Instance!OfLife(found, TRUE)
           dead  == Instance!OfLife(found, FALSE)
           There == i \in Instance!LinkedPids /\ insts[i].written
<1>1. i # 0 /\ i \in Nat
  BY DEF Instance!Ids
<1>2. \A j : Instance!InfoOf(j).id = (IF insts[j].written THEN j ELSE 0) /\ Instance!InfoOf(j).live = Instance!Locked(j)
  BY DEF Instance!InfoOf
<1>3. insts[i].written => Instance!HasLock(i)
  BY RestedIs
<1>4. There => x \in found
  <2> SUFFICES ASSUME There PROVE x \in found
    OBVIOUS
  <2>1. x \in Instance!Collect(Instance!LinkedPids, "any")
    BY <1>3 DEF Instance!Collect
  <2> QED BY <1>2, <2>1
<1>5. \A y \in found : y = x /\ There
  <2> SUFFICES ASSUME NEW y \in Instance!Collect(Instance!LinkedPids, "any"), y.id = i PROVE y = x /\ There
    OBVIOUS
  <2>1. PICK j \in Instance!LinkedPids : y = Instance!InfoOf(j)
    BY DEF Instance!Collect
  <2>2. insts[j].written /\ j = i
    BY <1>1, <1>2, <2>1
  <2> QED BY <2>1, <2>2
<1> HIDE DEF There
<1>6. found = IF There THEN {x} ELSE {}
  BY <1>4, <1>5
<1> HIDE DEF found, x
<1>7. x.live = Instance!Locked(i) /\ (Instance!Locked(i) <=> i \in Instance!Running) /\ (There => x.id = i)
  BY <1>2, RestedIs DEF x, There
<1>8. Instance!Locked(i) \in BOOLEAN
  BY DEF Instance!Locked
<1>9. /\ live = IF There /\ i \in Instance!Running THEN {x} ELSE {}
      /\ dead = IF There /\ i \notin Instance!Running THEN {x} ELSE {}
  BY <1>6, <1>7, <1>8 DEF Instance!OfLife
<1>10. Instance!SelectId({i}, "any", FALSE) = IF Instance!Cardinality(live) = 1 THEN Instance!First(live, FALSE) ELSE 0
  BY DEF Instance!SelectId, found
<1>11. live = {} => Instance!SelectId({i}, "any", TRUE) = IF Instance!Cardinality(dead) = 1 THEN Instance!First(dead, FALSE) ELSE 0
  BY DEF Instance!SelectId, found
<1> HIDE DEF live, dead
<1>12. Instance!Cardinality({x}) = 1 /\ Instance!Cardinality({}) = 0
  BY CountIs, FS_Singleton, FS_EmptySet
<1>13. There => Instance!First({x}, FALSE) = i
  BY <1>1, <1>7, OnlyIs
<1>14. i \in Instance!Running => There
  <2> SUFFICES ASSUME i \in Instance!Running PROVE There
    OBVIOUS
  <2>1. PICK p \in Pids : Instance!Runs(p) /\ proc[p].id = i
    BY DEF Instance!Running
  <2>2. links.pid[p] = i /\ insts[i].written
    BY <2>1, RestedIs
  <2> QED BY <1>1, <2>2 DEF There, Instance!LinkedPids
<1>15. ASSUME "reused" \notin amiss, i \in Instance!Dead PROVE There /\ i \notin Instance!Running
  <2>1. insts[i].written /\ i \notin Instance!Running
    BY <1>15 DEF Instance!Dead
  <2>2. insts[i].pid # 0 /\ insts[i].pid \in Pids
    BY <2>1, RestedIs
  <2>3. links.pid[insts[i].pid] = i
    BY <1>15, <2>2 DEF Placed, PidsLink, Rested
  <2> QED BY <1>1, <2>1, <2>2, <2>3 DEF There, Instance!LinkedPids
<1>16. Instance!SelectId({i}, "any", FALSE) = IF i \in Instance!Running THEN i ELSE 0
  <2>1. CASE i \in Instance!Running
    BY <1>9, <1>10, <1>12, <1>13, <1>14, <2>1
  <2>2. CASE i \notin Instance!Running
    <3>1. live = {} /\ Instance!Cardinality(live) # 1
      BY <1>9, <1>12, <2>2
    <3> QED BY <1>10, <2>2, <3>1
  <2> QED BY <2>1, <2>2
<1>17. "reused" \notin amiss /\ i \in Instance!Dead => Instance!SelectId({i}, "any", TRUE) = i
  BY <1>9, <1>11, <1>12, <1>13, <1>15
<1> QED BY <1>16, <1>17

\* By a configuration, on a display or on any.
GoneAs(c, d) == {i \in Instance!Dead : insts[i].config = c /\ (d = "any" \/ insts[i].display = d)}
LEMMA ByConfigIs ==
  ASSUME Placed, Rested, NEW c \in Instance!Paths, NEW d \in Instance!Displays \cup {"any"}
  PROVE  LET live == Instance!RunningAs(c, d)  gone == GoneAs(c, d) IN
         /\ Instance!Listed(FALSE, c, d, FALSE) = live /\ Instance!Listed(FALSE, c, d, TRUE) \ {0} = live \cup gone
         /\ live # {} => /\ Instance!SelectConfig(c, d, FALSE, TRUE) = Instance!Min(live)
                         /\ Instance!SelectConfig(c, d, TRUE, TRUE) = Instance!Max(live)
         /\ live = {} /\ gone # {} => /\ Instance!SelectConfig(c, d, FALSE, FALSE) = 0
                                      /\ Instance!SelectConfig(c, d, FALSE, TRUE) = Instance!Max(gone)
<1> DEFINE S     == Instance!LinkedPath(c)
           found == Instance!Collect(S, d)
           onL   == Instance!OfLife(found, TRUE)
           offL  == Instance!OfLife(found, FALSE)
           live  == Instance!RunningAs(c, d)
           gone  == GoneAs(c, d)
<1>1. S = {i \in Instance!Ids : insts[i].pid # 0 /\ insts[i].config = c} /\ c # <<>>
  BY LinkedPathIs, PathsAreNamed
<1>2. \A i \in Instance!Ids : i # 0 /\ i \in 0..MaxInstances /\ i \in Nat
  BY ProcessesAreNumbered DEF Instance!Ids
<1>3. \A i \in Instance!Ids : insts[i].written => (Shown(i, d) <=> d = "any" \/ insts[i].display = d)
  BY DEF Shown
<1>4. \A i \in Instance!Ids : ~insts[i].written /\ Shown(i, d) => d = "any"
  BY DEF Shown, Instance!Displays
<1>5. Numbers(onL) = live
  <2> SUFFICES ASSUME NEW k PROVE k \in Numbers(onL) <=> k \in live
    OBVIOUS
  <2>1. k \in Numbers(onL) <=> \E i \in S : /\ Instance!HasLock(i) /\ Instance!Locked(i) /\ Shown(i, d)
                                            /\ k = IF insts[i].written THEN i ELSE 0
    <3>1. PICK yes \in BOOLEAN : yes = TRUE
      OBVIOUS
    <3>2. k \in Numbers(Instance!OfLife(found, yes)) <=>
            \E i \in S : /\ Instance!HasLock(i) /\ (Instance!Locked(i) <=> yes) /\ Shown(i, d)
                         /\ k = IF insts[i].written THEN i ELSE 0
      BY CollectIs
    <3> QED BY <3>1, <3>2
  <2>2. k \in live <=> k \in Instance!Running /\ insts[k].config = c /\ (d = "any" \/ insts[k].display = d)
    BY DEF Instance!RunningAs
  <2> HIDE DEF S, live, onL
  <2>3. ASSUME k \in Numbers(onL) PROVE k \in live
    <3>1. PICK i \in S : Instance!HasLock(i) /\ Instance!Locked(i) /\ Shown(i, d) /\ k = IF insts[i].written THEN i ELSE 0
      BY <2>1, <2>3
    <3>2. i \in Instance!Ids /\ insts[i].config = c
      BY <1>1
    <3>3. insts[i].written /\ i \in Instance!Running
      BY <3>1, <3>2, RestedIs
    <3> QED BY <1>3, <2>2, <3>1, <3>2, <3>3
  <2>4. ASSUME k \in live PROVE k \in Numbers(onL)
    <3>1. k \in Instance!Running /\ k \in Instance!Ids /\ Instance!Locked(k) /\ insts[k].written /\ Instance!HasLock(k) /\ insts[k].pid # 0
      BY <2>2, <2>4, RestedIs
    <3>2. k \in S
      BY <1>1, <2>2, <2>4, <3>1
    <3>3. Shown(k, d)
      BY <1>3, <2>2, <2>4, <3>1
    <3> QED BY <2>1, <3>1, <3>2, <3>3
  <2> QED BY <2>3, <2>4
<1>6. Numbers(offL) \ {0} = gone
  <2> SUFFICES ASSUME NEW k PROVE k \in Numbers(offL) /\ k # 0 <=> k \in gone
    OBVIOUS
  <2>1. k \in Numbers(offL) <=> \E i \in S : /\ Instance!HasLock(i) /\ ~Instance!Locked(i) /\ Shown(i, d)
                                             /\ k = IF insts[i].written THEN i ELSE 0
    <3>1. PICK no \in BOOLEAN : no = FALSE
      OBVIOUS
    <3>2. k \in Numbers(Instance!OfLife(found, no)) <=>
            \E i \in S : /\ Instance!HasLock(i) /\ (Instance!Locked(i) <=> no) /\ Shown(i, d)
                         /\ k = IF insts[i].written THEN i ELSE 0
      BY CollectIs
    <3> QED BY <3>1, <3>2
  <2>2. k \in gone <=> /\ k \in Instance!Ids /\ insts[k].written /\ k \notin Instance!Running
                       /\ insts[k].config = c /\ (d = "any" \/ insts[k].display = d)
    BY DEF GoneAs, Instance!Dead
  <2> HIDE DEF S, gone, offL
  <2>3. ASSUME k \in Numbers(offL), k # 0 PROVE k \in gone
    <3>1. PICK i \in S : Instance!HasLock(i) /\ ~Instance!Locked(i) /\ Shown(i, d) /\ k = IF insts[i].written THEN i ELSE 0
      BY <2>1, <2>3
    <3>2. i \in Instance!Ids /\ insts[i].config = c /\ insts[i].written /\ k = i
      BY <1>1, <2>3, <3>1
    <3>3. i \notin Instance!Running
      BY <3>1, <3>2, RestedIs
    <3> QED BY <1>3, <2>2, <3>1, <3>2, <3>3
  <2>4. ASSUME k \in gone PROVE k \in Numbers(offL) /\ k # 0
    <3>1. k \in Instance!Ids /\ insts[k].written /\ ~Instance!Locked(k) /\ Instance!HasLock(k) /\ insts[k].pid # 0
      BY <2>2, <2>4, RestedIs
    <3>2. k \in S
      BY <1>1, <2>2, <2>4, <3>1
    <3>3. Shown(k, d)
      BY <1>3, <2>2, <2>4, <3>1
    <3> QED BY <1>2, <2>1, <3>1, <3>2, <3>3
  <2> QED BY <2>3, <2>4
<1>7. Numbers(found) = Numbers(onL) \cup Numbers(offL)
  <2>1. \A y \in found : y.live \in BOOLEAN
    <3> SUFFICES ASSUME NEW y \in found PROVE y.live \in BOOLEAN
      OBVIOUS
    <3>1. PICK i : y = Instance!InfoOf(i)
      BY DEF Instance!Collect
    <3>2. Instance!Locked(i) \in BOOLEAN
      BY DEF Instance!Locked
    <3> QED BY <3>1, <3>2 DEF Instance!InfoOf
  <2> HIDE DEF found
  <2>2. \A y : /\ y \in onL <=> y \in found /\ y.live = TRUE
               /\ y \in offL <=> y \in found /\ y.live = FALSE
    BY DEF Instance!OfLife
  <2> HIDE DEF onL, offL
  <2>3. \A y : y \in found <=> y \in onL \/ y \in offL
    BY <2>1, <2>2
  <2> QED BY <2>3 DEF Numbers
<1>8. /\ Instance!Listed(FALSE, c, d, FALSE) = Numbers(onL)
      /\ Instance!Listed(FALSE, c, d, TRUE) = Numbers(found)
  BY <1>1 DEF Instance!Listed, Numbers
<1>9. /\ Instance!SelectConfig(c, d, FALSE, FALSE) = Instance!First(onL, FALSE)
      /\ onL # {} => /\ Instance!SelectConfig(c, d, FALSE, TRUE) = Instance!First(onL, FALSE)
                     /\ Instance!SelectConfig(c, d, TRUE, TRUE) = Instance!First(onL, TRUE)
      /\ onL = {} => Instance!SelectConfig(c, d, FALSE, TRUE) = Instance!First(offL, TRUE)
  BY <1>1 DEF Instance!SelectConfig
<1>10. \A T, newest : Instance!First(T, newest) = IF T = {} THEN 0 ELSE IF newest THEN Instance!Max(Numbers(T)) ELSE Instance!Min(Numbers(T))
  BY DEF Instance!First, Numbers
<1>11. \A T : T = {} <=> Numbers(T) = {}
  BY DEF Numbers
<1>12. gone \in SUBSET (0..MaxInstances) /\ 0 \notin live /\ 0 \notin gone
  <2>1. live \subseteq Instance!Ids
    BY RestedIs DEF Instance!RunningAs
  <2>2. gone \subseteq Instance!Ids
    BY DEF GoneAs, Instance!Dead
  <2> HIDE DEF live, gone
  <2> QED BY <1>2, <2>1, <2>2
<1>13. Numbers(offL) = gone \/ Numbers(offL) = gone \cup {0}
  BY <1>6, <1>12
<1> HIDE DEF S, found, onL, offL, live, gone
<1>14. Instance!Listed(FALSE, c, d, FALSE) = live /\ Instance!Listed(FALSE, c, d, TRUE) \ {0} = live \cup gone
  <2>1. Instance!Listed(FALSE, c, d, FALSE) = live
    BY <1>5, <1>8
  <2>2. Instance!Listed(FALSE, c, d, TRUE) = live \cup Numbers(offL)
    BY <1>5, <1>7, <1>8
  <2>3. (live \cup Numbers(offL)) \ {0} = live \cup gone
    BY <1>6, <1>12
  <2> QED BY <2>1, <2>2, <2>3
<1>15. live # {} => /\ Instance!SelectConfig(c, d, FALSE, TRUE) = Instance!Min(live)
                    /\ Instance!SelectConfig(c, d, TRUE, TRUE) = Instance!Max(live)
  BY <1>5, <1>9, <1>10, <1>11
<1>16. ASSUME live = {}, gone # {}
       PROVE  /\ Instance!SelectConfig(c, d, FALSE, FALSE) = 0
              /\ Instance!SelectConfig(c, d, FALSE, TRUE) = Instance!Max(gone)
  <2>1. onL = {}
    BY <1>5, <1>11, <1>16
  <2>2. PICK m \in gone : \A k \in gone : k <= m
    BY <1>12, <1>16, BoundedHasGreatest, ProcessesAreNumbered
  <2>3. Instance!Max(gone) = m
    <3>1. gone \in SUBSET Nat
      BY <1>12
    <3> QED BY <2>2, <3>1, GreatestIs
  <2>4. Instance!Max(gone \cup {0}) = m
    <3>1. gone \cup {0} \in SUBSET Nat /\ m \in gone \cup {0} /\ m \in Nat
      BY <1>12
    <3>2. \A k \in gone \cup {0} : k <= m
      BY <2>2, <3>1
    <3> QED BY <3>1, <3>2, GreatestIs
  <2>5. offL # {}
    BY <1>11, <1>13, <1>16
  <2> QED BY <1>9, <1>10, <1>13, <2>1, <2>3, <2>4, <2>5
<1> QED BY <1>14, <1>15, <1>16 DEF live, gone

LEMMA CommandsFind == ASSUME Placed PROVE Instance!CommandsFindThem
<1> SUFFICES ASSUME Rested PROVE Instance!CommandsFindThem
  BY DEF Rested, Instance!CommandsFindThem
<1>1. \A p \in Pids : Instance!SelectPid(p, FALSE) = IF Instance!Runs(p) THEN proc[p].id ELSE 0
  BY ByPidIs
<1>2. \A i \in Instance!Ids : Instance!SelectId({i}, "any", FALSE) = IF i \in Instance!Running THEN i ELSE 0
  BY ByIdIs
<1>3. "reused" \notin amiss => \A i \in Instance!Dead : Instance!SelectId({i}, "any", TRUE) = i
  BY ByIdIs DEF Instance!Dead
<1>4. ASSUME NEW c \in Instance!Paths, NEW d \in Instance!Displays \cup {"any"}
      PROVE  LET live == Instance!RunningAs(c, d)
                 gone == {i \in Instance!Dead : insts[i].config = c /\ (d = "any" \/ insts[i].display = d)}
             IN /\ Instance!Listed(FALSE, c, d, FALSE) = live /\ Instance!Listed(FALSE, c, d, TRUE) \ {0} = live \cup gone
                /\ live # {} => /\ Instance!SelectConfig(c, d, FALSE, TRUE) = Instance!Min(live)
                                /\ Instance!SelectConfig(c, d, TRUE, TRUE) = Instance!Max(live)
                /\ live = {} /\ gone # {} => /\ Instance!SelectConfig(c, d, FALSE, FALSE) = 0
                                             /\ Instance!SelectConfig(c, d, FALSE, TRUE) = Instance!Max(gone)
  BY ByConfigIs, Zenon DEF GoneAs
<1> QED BY <1>1, <1>2, <1>3, <1>4, Zenon DEF Instance!CommandsFindThem

LEMMA InstancesAre == InstanceInv => Instance!InstancesHold
<1> SUFFICES ASSUME InstanceInv PROVE Instance!InstancesHold
  OBVIOUS
<1> USE DEF InstanceInv
<1>1. Instance!FoundIsAlive
  BY DEF Placed, InstsFit, Instance!FoundIsAlive, Instance!Locked
<1>2. Instance!CommandsFindThem
  BY CommandsFind
<1>3. Instance!NoDuplicates
  <2> SUFFICES ASSUME fails = {}, amiss \cap {"raced", "restarted", "inherited", "moved", "shared", "again"} = {},
                      NEW p \in Pids, NEW q \in Pids, Instance!Runs(p), Instance!Runs(q), p # q
               PROVE  ~Doubles(proc[p], proc[q])
    BY DEF Instance!NoDuplicates, Doubles
  <2>1. proc[p].step # "ended" /\ proc[q].step # "ended"
    BY DEF Instance!Runs
  <2> QED BY <2>1 DEF Placed, Dups
<1>4. Instance!DaemonIsAwaited
  BY DEF DaemonsFit, Instance!DaemonIsAwaited, Instance!Launching
<1>5. Instance!CrashesEnd
  <2>1. \A i \in Instance!Ids : reports[i] \in {0, i}
    BY DEF ReportsFit
  <2>2. ASSUME NEW p \in Pids, proc[p].restarted PROVE ~insts[Instance!Max(Instance!Range(proc[p].env))].young
    <3> DEFINE env == proc[p].env
    <3>1. env \in Seq(Instance!Ids)
      BY DEF Placed, PlaceType, AnyProc
    <3>2. EnvFits(proc[p])
      BY DEF Placed, EnvsFit
    <3>3. env # <<>> /\ ~insts[env[1]].young /\ \A k \in 1..Len(env) : env[k] <= env[1]
      BY <2>2, <3>2 DEF EnvFits
    <3> HIDE DEF env
    <3>4. Instance!Range(env) = {env[k] : k \in 1..Len(env)}
      BY <3>1 DEF Instance!Range
    <3>5. 1 \in 1..Len(env) /\ \A k \in 1..Len(env) : env[k] \in Instance!Ids
      BY <3>1, <3>3
    <3>6. Instance!Range(env) \in SUBSET Nat /\ env[1] \in Instance!Range(env)
      BY <3>4, <3>5 DEF Instance!Ids
    <3>7. \A n \in Instance!Range(env) : n <= env[1]
      BY <3>3, <3>4
    <3>8. Instance!Max(Instance!Range(env)) = env[1]
      BY <3>6, <3>7, GreatestIs
    <3> QED BY <3>3, <3>8 DEF env
  <2> QED BY <2>1, <2>2 DEF Instance!CrashesEnd
<1>6. Instance!QuitIsQuit
  BY DEF QuitsFit, Instance!QuitIsQuit, Instance!Running
<1> QED BY <1>1, <1>2, <1>3, <1>4, <1>5, <1>6 DEF Instance!InstancesHold

-----------------------------------------------------------------------------
(* The theorems                                                              *)

\* What was dropped and is retained has a lock that is on or an explicit one, and no lock points to what
\* is deleted: of locks that are switched on before they get their object (RetainableHook::ref(), unref()).
THEOREM RetainedAreLocked == Spec => []Retain!RetainedByLocks
<1>1. RetainInv /\ [Retain!Next]_(Retain!lockVars) => RetainInv'
  BY NextRetain
<1> QED BY <1>1, InitRetain, RetainHolds, RetainSteps, PTL

\* No lock that is on holds an object that is destroyed, but for forceUnlock(): of locks that are
\* switched on before they get their object (RetainableHook::unref(), unlocked()).
THEOREM LockedAreSpared == Spec => NotWhileLocked
<1>1. RetainInv /\ [Retain!Next]_(Retain!lockVars) => RetainInv' /\ Spares
  BY NextRetain
<1>2. [Spares]_(Retain!lockVars) =>
        [\A o \in Held : hook[o].fate = "lives" /\ hook'[o].fate = "doomed" =>
           o \in forced' \/ uneven' # {} \/ ~hook[o].there
           \/ (hook'[o].explicit = 0 /\ \A l \in Locks : lock'[l].enabled => lock'[l].object # o)]_(Retain!lockVars)
  BY DEF Spares
<1> QED BY <1>1, <1>2, InitRetain, RetainSteps, PTL DEF NotWhileLocked, Retain!NotWhileLocked

\* A loader that is wanted at once has its item, unless a load failed, and has no other; what was dropped and
\* is retained is held by a lock; of the handlers of a target there are, the first that came is called; files
\* are watched as the setting says, and links of the tooling are there only with a .qmlls.ini; a directory is
\* locked by the living process of its instance, commands find the instances that run and no others, none is
\* twice, who waits for a daemon is told, and a crash is reported for who crashed (LazyLoader, RetainableHook,
\* IpcHandlerRegistry, EngineGeneration, ToolSupport, QsPaths, launch(), command.cpp, checkCrashRelaunch()).
THEOREM ProgramKeeps == Spec => []ProgramHolds
<1>1. LoaderInv /\ [Loader!Next]_(Loader!loaderVars) => LoaderInv'
  BY NextLoader
<1>2. RetainInv /\ [Retain!Next]_(Retain!lockVars) => RetainInv'
  BY NextRetain
<1>3. RegistryInv /\ [Calls!Next]_(Calls!ipcVars) => RegistryInv'
  BY NextRegistry
<1>4. LiveInv /\ [Live!Next]_(Live!liveVars) => LiveInv'
  BY NextLive
<1>5. InstanceInv /\ [Instance!Next]_(Instance!instanceVars) => InstanceInv'
  BY NextInstance
<1>6. LoaderInv /\ RetainInv /\ RegistryInv /\ LiveInv /\ InstanceInv => ProgramHolds
  BY LoaderIs, RetainHolds, RegistryIs, LiveIs, InstancesAre DEF ProgramHolds
<1> QED BY <1>1, <1>2, <1>3, <1>4, <1>5, <1>6, InitLoader, InitRetain, InitRegistry, InitLive, InitInstance,
           LoaderSteps, RetainSteps, CallSteps, LiveSteps, InstanceSteps, PTL
=============================================================================
