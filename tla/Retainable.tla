------------------------------- MODULE Retainable ------------------------------
(* Objects that may be held on to after they are dropped, and the locks that  *)
(* hold them: src/src/core/retainable.cpp.                                    *)
EXTENDS Naturals, FiniteSets

CONSTANTS
  Held,        \* retainable objects
  Locks,       \* RetainableLocks
  NoObject,
  Wrap,        \* bound: counters count modulo Wrap (2^32 in the code), more than MaxLockActs + 2
  MaxLockActs  \* bound: what the configuration does

VARIABLES
  hook,        \* the RetainableHook of an object, and what became of the object
  lock,        \* RetainableLocks
  dropping,    \* the object whose dropped() is being handled
  lockActs,    \* bound
  uneven,      \* history: locks that were switched while they had an object, or were given one while off
  forced       \* history: objects of a forceUnlock()

lockVars == <<hook, lock, dropping, lockActs, uneven, forced>>

NewHook == [there |-> FALSE, refs |-> 0, explicit |-> 0, inactive |-> TRUE, retaining |-> FALSE, fate |-> "lives"]

Minus(n) == (n + Wrap - 1) % Wrap
\* unlocked(): aboutToDestroy(), and it is deleted later.
Unlocked(h) == IF h.inactive THEN h ELSE [h EXCEPT !.fate = "doomed"]
Ref(h)      == [h EXCEPT !.there = TRUE, !.refs = (@ + 1) % Wrap]
\* Mutant: the last lock but one lets go.
UnrefSoon(h) == IF h.refs <= 2 THEN Unlocked([h EXCEPT !.refs = Minus(@)]) ELSE [h EXCEPT !.refs = Minus(@)]
Unref(h) == IF Minus(h.refs) = 0 THEN Unlocked([h EXCEPT !.refs = 0]) ELSE [h EXCEPT !.refs = Minus(@)]
UnrefOf(h, o, was) == IF o = was THEN Unref(h) ELSE h

-----------------------------------------------------------------------------
Act == lockActs < MaxLockActs /\ lockActs' = lockActs + 1
Lives(o) == hook[o].fate # "deleted"

\* setObject(): what the lock held is let go, what it is given is held.
SetObject(l, o) ==
  /\ Act /\ lock[l].alive /\ o # lock[l].object /\ (o # NoObject => Lives(o))
  /\ hook' = [p \in Held |-> LET h == UnrefOf(hook[p], p, lock[l].object) IN IF p = o THEN Ref(h) ELSE h]
  /\ lock' = [lock EXCEPT ![l].object = o]
  /\ uneven' = IF o # NoObject /\ ~lock[l].enabled THEN uneven \cup {l} ELSE uneven
  /\ UNCHANGED <<dropping, forced>>

SetLocked(l, locked) ==
  /\ Act /\ lock[l].alive /\ locked # lock[l].enabled
  /\ lock' = [lock EXCEPT ![l].enabled = locked]
  /\ hook' = [p \in Held |-> IF locked /\ p = lock[l].object THEN Ref(hook[p])
                             ELSE UnrefOf(hook[p], p, lock[l].object)]
  /\ uneven' = IF lock[l].object # NoObject THEN uneven \cup {l} ELSE uneven
  /\ UNCHANGED <<dropping, forced>>

\* ~RetainableLock(): what it holds is let go if it is enabled.
DestroyLock(l) ==
  /\ Act /\ lock[l].alive
  /\ lock' = [lock EXCEPT ![l] = [object |-> NoObject, enabled |-> FALSE, alive |-> FALSE]]
  /\ hook' = IF lock[l].enabled THEN [p \in Held |-> UnrefOf(hook[p], p, lock[l].object)] ELSE hook
  /\ UNCHANGED <<dropping, uneven, forced>>

HookLock(o) ==
  /\ Act /\ Lives(o) /\ hook' = [hook EXCEPT ![o] = Ref([hook[o] EXCEPT !.explicit = @ + 1])]
  /\ UNCHANGED <<lock, dropping, uneven, forced>>
\* unlock(), once more than it was locked: nothing.
HookUnlock(o) ==
  /\ Act /\ Lives(o) /\ hook[o].explicit > 0
  /\ hook' = [hook EXCEPT ![o] = Unref([hook[o] EXCEPT !.explicit = @ - 1])]
  /\ UNCHANGED <<lock, dropping, uneven, forced>>
ForceUnlock(o) ==
  /\ Act /\ Lives(o) /\ hook' = [hook EXCEPT ![o] = Unlocked([@ EXCEPT !.there = TRUE])]
  /\ forced' = IF hook[o].inactive THEN forced ELSE forced \cup {o}
  /\ UNCHANGED <<lock, dropping, uneven>>

\* retainedDestroy(): without a hook the object goes; otherwise dropped() is handled first.
Drop(o) ==
  /\ dropping = NoObject /\ Lives(o) /\ ~hook[o].retaining
  /\ hook' = [hook EXCEPT ![o].retaining = TRUE, ![o].fate = IF hook[o].there THEN @ ELSE "doomed"]
  /\ dropping' = IF hook[o].there THEN o ELSE NoObject
  /\ UNCHANGED <<lock, lockActs, uneven, forced>>
DroppedHandled ==
  /\ dropping # NoObject /\ dropping' = NoObject
  /\ hook' = [hook EXCEPT ![dropping] = IF hook[dropping].refs = 0 THEN Unlocked([@ EXCEPT !.inactive = FALSE])
                                        ELSE [@ EXCEPT !.inactive = FALSE]]
  /\ UNCHANGED <<lock, lockActs, uneven, forced>>

\* The event loop deletes it: onObjectDestroyed().
Destroyed(o) ==
  /\ dropping = NoObject /\ hook[o].fate = "doomed" /\ hook' = [hook EXCEPT ![o].fate = "deleted"]
  /\ lock' = [l \in Locks |-> IF lock[l].object = o THEN [lock[l] EXCEPT !.object = NoObject] ELSE lock[l]]
  /\ UNCHANGED <<dropping, lockActs, uneven, forced>>

Init ==
  /\ hook = [o \in Held |-> NewHook] /\ dropping = NoObject /\ lockActs = 0 /\ uneven = {} /\ forced = {}
  /\ lock = [l \in Locks |-> [object |-> NoObject, enabled |-> FALSE, alive |-> TRUE]]

Next ==
  \/ \E l \in Locks : DestroyLock(l) \/ (\E o \in Held \cup {NoObject} : SetObject(l, o)) \/ (\E v \in BOOLEAN : SetLocked(l, v))
  \/ \E o \in Held : HookLock(o) \/ HookUnlock(o) \/ ForceUnlock(o) \/ Drop(o) \/ Destroyed(o)
  \/ DroppedHandled

-----------------------------------------------------------------------------
\* Locks that are present.
LockedBy(o) == {l \in Locks : lock[l].enabled /\ lock[l].object = o}
Present(o)  == LockedBy(o) # {} \/ hook[o].explicit > 0
\* An object that was dropped, and its dropped() handled, is destroyed when no lock is present,
\* and not before (retainable.hpp:67), but for forceUnlock().
Right(o) == ~hook[o].inactive /\ o \notin forced /\ hook[o].fate = "lives" => Present(o)

\* What was dropped and is retained is retained by a lock, and nobody points to what is gone;
\* of locks that are switched on before they are given objects (retainable.cpp:33, :74, :88).
RetainedByLocks ==
  /\ \A l \in Locks : lock[l].object # NoObject => hook[lock[l].object].fate # "deleted"
  /\ uneven = {} => \A o \in Held : Right(o)

\* Of such locks, none is present on what is destroyed, but for forceUnlock() (retainable.cpp:35, :99).
NotWhileLocked ==
  [][\A o \in Held : hook[o].fate = "lives" /\ hook'[o].fate = "doomed" =>
       o \in forced' \/ uneven' # {} \/ ~hook[o].there
       \/ (hook'[o].explicit = 0 /\ \A l \in Locks : lock'[l].enabled => lock'[l].object # o)]_lockVars

\* Whatever the order in which a lock gets its object and is switched on, off or destroyed.
RetainedUntilReleased == \A o \in Held : Right(o)
=============================================================================
