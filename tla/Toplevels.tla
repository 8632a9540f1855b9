------------------------------- MODULE Toplevels -------------------------------
(* The windows of other programs: src/src/wayland/toplevel_management.  The   *)
(* compositor tells of each by a handle, whose state comes in parts before    *)
(* the first `done' shows it to the configuration.                            *)
EXTENDS Naturals, Sequences, FiniteSets, SequencesExt, ObjectModel, TLAPS

CONSTANTS
  Tops,       \* toplevels of the compositor
  NoTop,      \* a null pointer
  MaxTopActs  \* bound: what the compositor does by itself

VARIABLES
  focus,      \* the compositor: the toplevel that is activated, or is going to be
  handles,    \* impl::ToplevelHandle
  manager,    \* impl::ToplevelManager's mToplevels and mReadyToplevels
  shown,      \* ToplevelManager's mToplevels and mActiveToplevel
  topActs     \* bound

toplevelVars == <<focus, handles, manager, shown, topActs>>

NoHandle == [ready |-> FALSE, activated |-> FALSE, parent |-> NoTop]
There    == ToSet(manager.tops)

\* A handle is that of a toplevel that is known.
HandleFor(t) == IF t \in There THEN t ELSE NoTop

-----------------------------------------------------------------------------
(* Events of the compositor, which come in their order                       *)

Act == topActs < MaxTopActs /\ topActs' = topActs + 1

TopAppears(t) ==
  /\ Act /\ t \notin There
  /\ manager' = [manager EXCEPT !.tops = Append(@, t)] /\ handles' = [handles EXCEPT ![t] = NoHandle]
  /\ UNCHANGED <<focus, shown>>

\* The parent may go at any time; it is told of as the null object.
ParentTold(t, p) ==
  /\ Act /\ t \in There /\ p \in (There \ {t}) \cup {NoTop} /\ handles[t].parent # HandleFor(p)
  /\ \A q \in There : handles[q].parent # t   \* no cycles
  /\ handles' = [handles EXCEPT ![t].parent = HandleFor(p)]
  /\ UNCHANGED <<focus, manager, shown>>

\* One toplevel is to be activated next, once the last change is told, up to its `done'.
Settled == \A t \in There : /\ handles[t].activated <=> t = focus
                            /\ handles[t].activated => handles[t].ready
Focus(t) == /\ Act /\ Settled /\ focus # t /\ (t \in There \/ t = NoTop) /\ focus' = t
            /\ UNCHANGED <<handles, manager, shown>>

\* onToplevelActiveChanged()
OnActiveChanged(t, activated) ==
  shown' = IF t \notin ToSet(shown.tops) THEN shown
           ELSE IF activated THEN [shown EXCEPT !.active = t]
           ELSE IF shown.active = t THEN [shown EXCEPT !.active = NoTop] ELSE shown
\* The state of either of the two toplevels comes first.
StateTold(t) ==
  /\ t \in There /\ handles[t].activated # (t = focus)
  /\ handles' = [handles EXCEPT ![t].activated = ~@] /\ OnActiveChanged(t, t = focus)
  /\ UNCHANGED <<focus, manager, topActs>>

\* done(), onToplevelReady() twice.
Done(t) ==
  /\ t \in There /\ ~handles[t].ready
  /\ handles' = [handles EXCEPT ![t].ready = TRUE]
  /\ manager' = [manager EXCEPT !.ready = Append(@, t)]
  /\ shown' = [tops |-> AppendObject(shown.tops, t), active |-> IF handles[t].activated THEN t ELSE shown.active]
  /\ UNCHANGED <<focus, topActs>>

\* Mutant: the active toplevel is left as it was when it closes.
ClosedStaysActive(t) ==
  /\ Act /\ t \in There /\ focus' = (IF focus = t THEN NoTop ELSE focus)
  /\ manager' = [tops |-> RemoveObject(manager.tops, t), ready |-> RemoveObject(manager.ready, t)]
  /\ shown' = [shown EXCEPT !.tops = RemoveObject(@, t)]
  /\ handles' = [s \in Tops |-> IF handles[s].parent = t THEN [handles[s] EXCEPT !.parent = NoTop] ELSE handles[s]]
\* closed(): of the manager, of its children, and of the Toplevel.
Closed(t) ==
  /\ Act /\ t \in There /\ focus' = (IF focus = t THEN NoTop ELSE focus)
  /\ manager' = [tops |-> RemoveObject(manager.tops, t), ready |-> RemoveObject(manager.ready, t)]
  /\ shown' = [tops |-> RemoveObject(shown.tops, t), active |-> IF shown.active = t THEN NoTop ELSE shown.active]
  /\ handles' = [s \in Tops |-> IF handles[s].parent = t THEN [handles[s] EXCEPT !.parent = NoTop] ELSE handles[s]]

-----------------------------------------------------------------------------
Init ==
  /\ focus = NoTop /\ handles = [t \in Tops |-> NoHandle] /\ topActs = 0
  /\ manager = [tops |-> <<>>, ready |-> <<>>] /\ shown = [tops |-> <<>>, active |-> NoTop]

Next == \E t \in Tops :
  \/ TopAppears(t) \/ StateTold(t) \/ Done(t) \/ Closed(t)
  \/ \E p \in Tops \cup {NoTop} : ParentTold(t, p)
  \/ \E f \in {t, NoTop} : Focus(f)

-----------------------------------------------------------------------------
\* What is shown is ready and there, each once; a parent is there; the active toplevel is
\* shown (handle.cpp:192, :213, manager.cpp:62, qml.cpp:155, :164).
TopsHold ==
  /\ shown.tops = manager.ready /\ IsInjective(shown.tops) /\ ToSet(shown.tops) \subseteq There
  /\ \A t \in There : handles[t].parent \in There \cup {NoTop}
  /\ shown.active \in ToSet(shown.tops) \cup {NoTop}

\* When the compositor has told of the activation that was and that is, in either order, the
\* active toplevel is the activated one (qml.cpp:143, :151, :155).
ActiveFollowsFocus ==
  Settled => shown.active = focus

-----------------------------------------------------------------------------
(* The proof.  A window that is activated before it is shown is the one in    *)
(* focus: so of two that are activated, the one that was is shown already,    *)
(* and cannot become active by being shown late.                              *)

Handles == [ready : BOOLEAN, activated : BOOLEAN, parent : Tops \cup {NoTop}]

ListsAgree ==
  /\ manager \in [tops : Seq(Tops), ready : Seq(Tops)] /\ IsInjective(manager.tops)
  /\ shown \in [tops : Seq(Tops), active : Tops \cup {NoTop}]
  /\ shown.tops = manager.ready /\ IsInjective(shown.tops)
  /\ ToSet(shown.tops) = {t \in There : handles[t].ready}

ParentsAreThere ==
  /\ handles \in [Tops -> Handles]
  /\ \A t \in There : handles[t].parent \in There \cup {NoTop}

ActiveIsActivated ==
  /\ focus \in There \cup {NoTop}
  /\ shown.active # NoTop => shown.active \in ToSet(shown.tops) /\ handles[shown.active].activated
  /\ focus \in ToSet(shown.tops) /\ handles[focus].activated => shown.active = focus
  /\ \A t \in There : handles[t].activated /\ ~handles[t].ready => t = focus

ToplevelInv == ListsAgree /\ ParentsAreThere /\ ActiveIsActivated

\* What is there, and what is shown, are toplevels of the compositor.
LEMMA ThereAreTops == ASSUME ListsAgree PROVE There \subseteq Tops /\ ToSet(shown.tops) \subseteq There
<1>1. manager.tops \in Seq(Tops)
  BY DEF ListsAgree
<1>2. \A i \in DOMAIN manager.tops : manager.tops[i] \in Tops
  BY <1>1
<1> QED BY <1>2 DEF ListsAgree, There, ToSet

\* A new toplevel is neither ready nor activated.
LEMMA TopAppearsKeeps ==
  ASSUME NoTop \notin Tops, ToplevelInv, NEW t \in Tops, TopAppears(t)
  PROVE  ToplevelInv'
<1>1. /\ t \notin There
      /\ manager' = [manager EXCEPT !.tops = Append(@, t)]
      /\ handles' = [handles EXCEPT ![t] = NoHandle]
      /\ UNCHANGED <<focus, shown>>
  BY DEF TopAppears
<1>2. ListsAgree /\ ParentsAreThere /\ ActiveIsActivated /\ There \subseteq Tops /\ ToSet(shown.tops) \subseteq There
  BY ThereAreTops DEF ToplevelInv
<1>3. manager'.tops = AppendObject(manager.tops, t) /\ manager'.ready = manager.ready
      /\ manager' \in [tops : Seq(Tops), ready : Seq(Tops)]
  BY <1>1, <1>2, Appended DEF ListsAgree, AppendObject
<1>4. There' = There \cup {t} /\ IsInjective(manager.tops')
  <2>1. manager.tops \in Seq(Tops) /\ IsInjective(manager.tops) /\ t \notin ToSet(manager.tops)
    BY <1>1, <1>2 DEF ListsAgree, There
  <2>2. /\ IsInjective(AppendObject(manager.tops, t))
        /\ ToSet(AppendObject(manager.tops, t)) = ToSet(manager.tops) \cup {t}
    BY <2>1, Appended
  <2> QED BY <1>3, <2>2 DEF There
<1>5. /\ handles' \in [Tops -> Handles]
      /\ handles'[t] = NoHandle
      /\ \A s \in Tops \ {t} : handles'[s] = handles[s]
  BY <1>1, <1>2 DEF ParentsAreThere, Handles, NoHandle
<1>6. ListsAgree'
  <2>1. {s \in There' : handles'[s].ready} = {s \in There : handles[s].ready}
    BY <1>1, <1>2, <1>4, <1>5 DEF NoHandle
  <2> QED BY <1>1, <1>2, <1>3, <1>4, <2>1 DEF ListsAgree
<1>7. ParentsAreThere'
  BY <1>2, <1>4, <1>5 DEF ParentsAreThere, NoHandle
<1>8. ActiveIsActivated'
  BY <1>1, <1>2, <1>4, <1>5 DEF ActiveIsActivated, NoHandle
<1> QED BY <1>6, <1>7, <1>8 DEF ToplevelInv

\* A parent is one that is there.
LEMMA ParentToldKeeps ==
  ASSUME NoTop \notin Tops, ToplevelInv, NEW t \in Tops, NEW p \in Tops \cup {NoTop}, ParentTold(t, p)
  PROVE  ToplevelInv'
<1>1. /\ handles' = [handles EXCEPT ![t].parent = HandleFor(p)]
      /\ UNCHANGED <<focus, manager, shown>>
  BY DEF ParentTold
<1>2. ListsAgree /\ ParentsAreThere /\ ActiveIsActivated /\ There \subseteq Tops /\ ToSet(shown.tops) \subseteq There
  BY ThereAreTops DEF ToplevelInv
<1>3. HandleFor(p) \in There \cup {NoTop} /\ There' = There /\ ToSet(shown.tops)' = ToSet(shown.tops)
  BY <1>1 DEF HandleFor, There
<1>4. /\ handles' \in [Tops -> Handles]
      /\ \A s \in Tops : /\ handles'[s].ready = handles[s].ready
                         /\ handles'[s].activated = handles[s].activated
                         /\ handles'[s].parent = IF s = t THEN HandleFor(p) ELSE handles[s].parent
  BY <1>1, <1>2, <1>3 DEF ParentsAreThere, Handles
<1>5. ListsAgree'
  <2>1. {s \in There' : handles'[s].ready} = {s \in There : handles[s].ready}
    BY <1>2, <1>3, <1>4
  <2> QED BY <1>1, <1>2, <1>3, <2>1 DEF ListsAgree
<1>6. ParentsAreThere'
  BY <1>2, <1>3, <1>4 DEF ParentsAreThere
<1>7. ActiveIsActivated'
  BY <1>1, <1>2, <1>3, <1>4 DEF ActiveIsActivated
<1> QED BY <1>5, <1>6, <1>7 DEF ToplevelInv

\* When the focus goes to another, that one is not activated yet, and those that are, are shown.
LEMMA FocusKeeps ==
  ASSUME NoTop \notin Tops, ToplevelInv, NEW f \in Tops \cup {NoTop}, Focus(f)
  PROVE  ToplevelInv'
<1>1. /\ Settled /\ focus # f /\ (f \in There \/ f = NoTop) /\ focus' = f
      /\ UNCHANGED <<handles, manager, shown>>
  BY DEF Focus
<1>2. ListsAgree /\ ParentsAreThere /\ ActiveIsActivated /\ There \subseteq Tops /\ ToSet(shown.tops) \subseteq There
  BY ThereAreTops DEF ToplevelInv
<1>3. There' = There /\ ToSet(shown.tops)' = ToSet(shown.tops)
  BY <1>1 DEF There
<1>4. ListsAgree' /\ ParentsAreThere'
  BY <1>1, <1>2, <1>3 DEF ListsAgree, ParentsAreThere
<1>5. ActiveIsActivated'
  BY <1>1, <1>2, <1>3 DEF ActiveIsActivated, Settled
<1> QED BY <1>4, <1>5 DEF ToplevelInv

\* The one in focus becomes active by being activated, if it is shown; another that is no longer
\* activated leaves it so.
LEMMA StateToldKeeps ==
  ASSUME NoTop \notin Tops, ToplevelInv, NEW t \in Tops, StateTold(t)
  PROVE  ToplevelInv'
<1>1. /\ t \in There /\ handles[t].activated # (t = focus)
      /\ handles' = [handles EXCEPT ![t].activated = ~@]
      /\ OnActiveChanged(t, t = focus)
      /\ UNCHANGED <<focus, manager>>
  BY DEF StateTold
<1>2. ListsAgree /\ ParentsAreThere /\ ActiveIsActivated /\ There \subseteq Tops /\ ToSet(shown.tops) \subseteq There
  BY ThereAreTops DEF ToplevelInv
<1>3. There' = There
  BY <1>1 DEF There
<1>4. /\ handles' \in [Tops -> Handles]
      /\ \A s \in Tops : /\ handles'[s].ready = handles[s].ready
                         /\ handles'[s].parent = handles[s].parent
      /\ \A s \in Tops \ {t} : handles'[s].activated = handles[s].activated
      /\ handles'[t].activated <=> t = focus
  <2>1. handles[t].activated \in BOOLEAN
    BY <1>2 DEF ParentsAreThere, Handles
  <2>2. handles' \in [Tops -> Handles]
    BY <1>1, <1>2 DEF ParentsAreThere, Handles
  <2>3. handles'[t] = [handles[t] EXCEPT !.activated = ~handles[t].activated]
    BY <1>1, <1>2 DEF ParentsAreThere, Handles
  <2>4. \A s \in Tops \ {t} : handles'[s] = handles[s]
    BY <1>1, <1>2 DEF ParentsAreThere
  <2>5. handles[t] \in Handles
    BY <1>2 DEF ParentsAreThere
  <2>6. /\ handles'[t].ready = handles[t].ready /\ handles'[t].parent = handles[t].parent
        /\ handles'[t].activated = ~handles[t].activated
    BY <2>3, <2>5 DEF Handles
  <2> QED BY <1>1, <2>1, <2>2, <2>4, <2>6
<1>5. /\ shown' \in [tops : Seq(Tops), active : Tops \cup {NoTop}]
      /\ shown'.tops = shown.tops
      /\ shown'.active = IF t \in ToSet(shown.tops) /\ t = focus THEN t
                         ELSE IF t \in ToSet(shown.tops) /\ shown.active = t THEN NoTop ELSE shown.active
  BY <1>1, <1>2 DEF OnActiveChanged, ListsAgree
<1>6. ListsAgree'
  <2>1. {s \in There' : handles'[s].ready} = {s \in There : handles[s].ready}
    BY <1>2, <1>3, <1>4
  <2> QED BY <1>1, <1>2, <1>5, <2>1 DEF ListsAgree
<1>7. ParentsAreThere'
  BY <1>2, <1>3, <1>4 DEF ParentsAreThere
<1>8. ActiveIsActivated'
  BY <1>1, <1>2, <1>3, <1>4, <1>5 DEF ActiveIsActivated
<1> QED BY <1>6, <1>7, <1>8 DEF ToplevelInv

\* One that is activated when it is shown is in focus.
LEMMA DoneKeeps ==
  ASSUME NoTop \notin Tops, ToplevelInv, NEW t \in Tops, Done(t)
  PROVE  ToplevelInv'
<1>1. /\ t \in There /\ ~handles[t].ready
      /\ handles' = [handles EXCEPT ![t].ready = TRUE]
      /\ manager' = [manager EXCEPT !.ready = Append(@, t)]
      /\ shown' = [tops |-> AppendObject(shown.tops, t), active |-> IF handles[t].activated THEN t ELSE shown.active]
      /\ focus' = focus
  BY DEF Done
<1>2. ListsAgree /\ ParentsAreThere /\ ActiveIsActivated /\ There \subseteq Tops /\ ToSet(shown.tops) \subseteq There
  BY ThereAreTops DEF ToplevelInv
<1>3. manager'.tops = manager.tops /\ manager'.ready = AppendObject(shown.tops, t) /\ There' = There
      /\ manager' \in [tops : Seq(Tops), ready : Seq(Tops)]
  BY <1>1, <1>2, Appended DEF ListsAgree, AppendObject, There
<1>4. t \notin ToSet(shown.tops)
  BY <1>1, <1>2 DEF ListsAgree
<1>5. /\ shown' \in [tops : Seq(Tops), active : Tops \cup {NoTop}]
      /\ shown'.tops = AppendObject(shown.tops, t) /\ IsInjective(shown'.tops)
      /\ ToSet(shown'.tops) = ToSet(shown.tops) \cup {t}
      /\ shown'.active = IF handles[t].activated THEN t ELSE shown.active
  <2>1. shown.tops \in Seq(Tops) /\ shown.active \in Tops \cup {NoTop} /\ IsInjective(shown.tops)
    BY <1>2 DEF ListsAgree
  <2>2. /\ AppendObject(shown.tops, t) \in Seq(Tops) /\ IsInjective(AppendObject(shown.tops, t))
        /\ ToSet(AppendObject(shown.tops, t)) = ToSet(shown.tops) \cup {t}
    BY <1>4, <2>1, Appended
  <2> QED BY <1>1, <2>1, <2>2
<1>6. /\ handles' \in [Tops -> Handles]
      /\ \A s \in Tops : /\ handles'[s].activated = handles[s].activated
                         /\ handles'[s].parent = handles[s].parent
                         /\ handles'[s].ready <=> s = t \/ handles[s].ready
  BY <1>1, <1>2 DEF ParentsAreThere, Handles
<1>7. ListsAgree'
  <2>1. {s \in There' : handles'[s].ready} = {s \in There : handles[s].ready} \cup {t}
    BY <1>1, <1>2, <1>3, <1>6
  <2> QED BY <1>2, <1>3, <1>5, <2>1 DEF ListsAgree
<1>8. ParentsAreThere'
  BY <1>2, <1>3, <1>6 DEF ParentsAreThere
<1>9. ActiveIsActivated'
  BY <1>1, <1>2, <1>3, <1>4, <1>5, <1>6 DEF ActiveIsActivated
<1> QED BY <1>7, <1>8, <1>9 DEF ToplevelInv

\* One that closes leaves the lists, its children, and what is active.
LEMMA ClosedKeeps ==
  ASSUME NoTop \notin Tops, ToplevelInv, NEW t \in Tops, Closed(t)
  PROVE  ToplevelInv'
<1>1. /\ t \in There /\ focus' = (IF focus = t THEN NoTop ELSE focus)
      /\ manager' = [tops |-> RemoveObject(manager.tops, t), ready |-> RemoveObject(manager.ready, t)]
      /\ shown' = [tops |-> RemoveObject(shown.tops, t), active |-> IF shown.active = t THEN NoTop ELSE shown.active]
      /\ handles' = [s \in Tops |-> IF handles[s].parent = t THEN [handles[s] EXCEPT !.parent = NoTop] ELSE handles[s]]
  BY DEF Closed
<1>2. ListsAgree /\ ParentsAreThere /\ ActiveIsActivated /\ There \subseteq Tops /\ ToSet(shown.tops) \subseteq There
  BY ThereAreTops DEF ToplevelInv
<1>3. /\ manager'.tops \in Seq(Tops) /\ IsInjective(manager'.tops) /\ There' = There \ {t}
      /\ manager' \in [tops : Seq(Tops), ready : Seq(Tops)]
      /\ shown' \in [tops : Seq(Tops), active : Tops \cup {NoTop}]
      /\ shown'.tops = manager'.ready /\ IsInjective(shown'.tops)
      /\ ToSet(shown'.tops) = ToSet(shown.tops) \ {t}
      /\ shown'.active = IF shown.active = t THEN NoTop ELSE shown.active
  <2>1. /\ RemoveObject(manager.tops, t) \in Seq(Tops) /\ IsInjective(RemoveObject(manager.tops, t))
        /\ ToSet(RemoveObject(manager.tops, t)) = ToSet(manager.tops) \ {t}
    BY <1>2, Removed DEF ListsAgree
  <2>2. /\ RemoveObject(shown.tops, t) \in Seq(Tops) /\ IsInjective(RemoveObject(shown.tops, t))
        /\ ToSet(RemoveObject(shown.tops, t)) = ToSet(shown.tops) \ {t}
    BY <1>2, Removed DEF ListsAgree
  <2>3. shown.tops = manager.ready /\ shown.active \in Tops \cup {NoTop}
    BY <1>2 DEF ListsAgree
  <2> QED BY <1>1, <2>1, <2>2, <2>3 DEF There
<1>4. /\ handles' \in [Tops -> Handles]
      /\ \A s \in Tops : /\ handles'[s].ready = handles[s].ready
                         /\ handles'[s].activated = handles[s].activated
                         /\ handles'[s].parent = IF handles[s].parent = t THEN NoTop ELSE handles[s].parent
  BY <1>1, <1>2 DEF ParentsAreThere, Handles
<1>5. ListsAgree'
  <2>1. {s \in There' : handles'[s].ready} = {s \in There : handles[s].ready} \ {t}
    BY <1>2, <1>3, <1>4
  <2> QED BY <1>2, <1>3, <2>1 DEF ListsAgree
<1>6. ParentsAreThere'
  BY <1>2, <1>3, <1>4 DEF ParentsAreThere
<1>7. ActiveIsActivated'
  BY <1>1, <1>2, <1>3, <1>4 DEF ActiveIsActivated
<1> QED BY <1>5, <1>6, <1>7 DEF ToplevelInv

\* The invariant says what is asked of toplevels.
LEMMA ToplevelsAreRight == ASSUME NoTop \notin Tops, ToplevelInv PROVE TopsHold /\ ActiveFollowsFocus
<1>1. ListsAgree /\ ParentsAreThere /\ ActiveIsActivated /\ There \subseteq Tops /\ ToSet(shown.tops) \subseteq There
  BY ThereAreTops DEF ToplevelInv
<1>2. TopsHold
  BY <1>1 DEF TopsHold, ListsAgree, ParentsAreThere, ActiveIsActivated
<1>3. ActiveFollowsFocus
  <2> SUFFICES ASSUME Settled PROVE shown.active = focus
    BY DEF ActiveFollowsFocus
  <2>1. CASE focus = NoTop
    BY <1>1, <2>1 DEF Settled, ActiveIsActivated
  <2>2. CASE focus # NoTop
    <3>1. focus \in There /\ handles[focus].activated /\ handles[focus].ready
      BY <1>1, <2>2 DEF Settled, ActiveIsActivated
    <3> QED BY <1>1, <3>1 DEF ActiveIsActivated, ListsAgree
  <2> QED BY <2>1, <2>2
<1> QED BY <1>2, <1>3

\* Whatever windows open, close, move between parents and take the focus: those shown are ready and
\* there, each once, parents are there, and at rest the active one is the one in focus
\* (ToplevelManager, ToplevelHandle).
THEOREM ToplevelsKeep ==
  ASSUME NoTop \notin Tops
  PROVE  Init /\ [][Next]_toplevelVars => [](TopsHold /\ ActiveFollowsFocus)
<1>1. Init => ToplevelInv
  <2> SUFFICES ASSUME Init PROVE ToplevelInv
    OBVIOUS
  <2>1. There = {} /\ manager.ready = <<>> /\ manager.tops = <<>> /\ shown.tops = <<>> /\ shown.active = NoTop
    BY DEF Init, There, ToSet
  <2>2. IsInjective(<<>>) /\ ToSet(<<>>) = {} /\ <<>> \in Seq(Tops)
    BY DEF IsInjective, ToSet
  <2>3. ListsAgree
    BY <2>1, <2>2 DEF Init, ListsAgree
  <2>4. ParentsAreThere
    BY <2>1 DEF Init, ParentsAreThere, NoHandle, Handles
  <2>5. ActiveIsActivated
    BY <2>1, <2>2 DEF Init, ActiveIsActivated
  <2> QED BY <2>3, <2>4, <2>5 DEF ToplevelInv
<1>2. ToplevelInv /\ [Next]_toplevelVars => ToplevelInv'
  <2> SUFFICES ASSUME ToplevelInv, [Next]_toplevelVars PROVE ToplevelInv'
    OBVIOUS
  <2>1. ASSUME NEW t \in Tops, TopAppears(t) PROVE ToplevelInv'
    BY <2>1, TopAppearsKeeps
  <2>2. ASSUME NEW t \in Tops, StateTold(t) PROVE ToplevelInv'
    BY <2>2, StateToldKeeps
  <2>3. ASSUME NEW t \in Tops, Done(t) PROVE ToplevelInv'
    BY <2>3, DoneKeeps
  <2>4. ASSUME NEW t \in Tops, Closed(t) PROVE ToplevelInv'
    BY <2>4, ClosedKeeps
  <2>5. ASSUME NEW t \in Tops, NEW p \in Tops \cup {NoTop}, ParentTold(t, p) PROVE ToplevelInv'
    BY <2>5, ParentToldKeeps
  <2>6. ASSUME NEW t \in Tops, NEW f \in {t, NoTop}, Focus(f) PROVE ToplevelInv'
    BY <2>6, FocusKeeps
  <2>7. CASE UNCHANGED toplevelVars
    BY <2>7 DEF toplevelVars, ToplevelInv, ListsAgree, ParentsAreThere, ActiveIsActivated, There
  <2> QED BY <2>1, <2>2, <2>3, <2>4, <2>5, <2>6, <2>7 DEF Next
<1>3. ToplevelInv => TopsHold /\ ActiveFollowsFocus
  BY ToplevelsAreRight
<1> QED BY <1>1, <1>2, <1>3, PTL
=============================================================================
