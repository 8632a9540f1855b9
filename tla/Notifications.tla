---------------------------- MODULE Notifications ----------------------------
(***************************************************************************)
(* NotificationServer and Notification (src/src/services/notifications),   *)
(* with the retention of closed notifications (src/src/core/retainable.cpp)*)
(* Other programs send and close notifications over D-Bus; the shell sees  *)
(* each one in a handler of notification(), keeps those it wants and       *)
(* dismisses them later, also from handlers; a reload hands the kept ones  *)
(* to the new configuration.                                               *)
(***************************************************************************)
EXTENDS Naturals, Sequences, FiniteSets, SequencesExt

CONSTANTS
  MaxNotifications, \* bound: notifications sent during a behaviour
  MaxNoteDepth      \* bound: frames on the stack when a handler acts

Notes   == 1..MaxNotifications
Reasons == {"tracked", "Expired", "Dismissed", "CloseRequested"}

VARIABLES
  notes,    \* every Notification
  idMap,    \* idMap
  listed,   \* mNotifications
  calls,    \* signals being emitted, innermost first
  reclosed  \* history: a handler of closed() closed the notification again

noteVars == <<notes, idMap, listed, calls, reclosed>>

\* st: retained() and deleteLater() after it.  reason: mCloseReason, "tracked"
\* for none.  locks: of its RetainableHook.  told: NotificationClosed() signals.
Note == [st : {"unsent", "alive", "retained", "doomed", "gone"}, reason : Reasons,
         locks : 0..1, told : Nat]
Unsent == [st |-> "unsent", reason |-> "Dismissed", locks |-> 0, told |-> 0]

\* rest: the notifications a reload still has to hand on.
Call(at, n, rest) == [at |-> at, n |-> n, rest |-> rest]
At(p)  == calls # <<>> /\ Head(calls).at = p
Top    == Head(calls)
Push(c) == calls' = <<c>> \o calls
Return  == calls' = Tail(calls)
QmlRuns == Len(calls) <= MaxNoteDepth
Emitting(p, n) == \E i \in DOMAIN calls : calls[i].at = p /\ calls[i].n = n

-----------------------------------------------------------------------------
(* D-Bus *)

\* Notify() of an id that is not on record.  One that replaces a notification
\* only changes what it says.
Notify ==
  /\ calls = <<>>
  /\ \E n \in Notes : /\ notes[n].st = "unsent" /\ \A m \in Notes : m < n => notes[m].st # "unsent"
                      /\ notes' = [notes EXCEPT ![n].st = "alive"]
                      /\ Push(Call("notification", n, <<>>))
  /\ UNCHANGED <<idMap, listed, reclosed>>

\* CloseNotification() leaves the reason to the signal.
CloseNotification(n) ==
  /\ calls = <<>> /\ n \in idMap
  /\ Push(Call("closed", n, <<>>))
  /\ UNCHANGED <<notes, idMap, listed, reclosed>>

-----------------------------------------------------------------------------
(* The server *)

\* After the handlers of notification(): kept or closed.
Kept(n)    == idMap' = idMap \cup {n} /\ listed' = listed \cup {n} /\ UNCHANGED notes
Dropped(n) == notes' = [notes EXCEPT ![n].st = "gone", ![n].told = @ + 1] /\ UNCHANGED <<idMap, listed>>

Notified ==
  /\ At("notification") /\ Top.rest = <<>>
  /\ IF notes[Top.n].reason = "tracked" THEN Kept(Top.n) ELSE Dropped(Top.n)
  /\ Return
  /\ UNCHANGED reclosed

\* The next one that a reload hands on is closed to begin with.
Handed(ns, n) == [ns EXCEPT ![n].reason = "Dismissed"]

NotifiedAgain ==
  /\ At("notification") /\ Top.rest # <<>>
  /\ LET next == Head(Top.rest)
     IN /\ IF notes[Top.n].reason = "tracked"
           THEN /\ idMap' = idMap \cup {Top.n} /\ listed' = listed \cup {Top.n}
                /\ notes' = Handed(notes, next)
           ELSE /\ notes' = Handed([notes EXCEPT ![Top.n].st = "gone", ![Top.n].told = @ + 1], next)
                /\ UNCHANGED <<idMap, listed>>
        /\ calls' = <<Call("notification", next, Tail(Top.rest))>> \o Tail(calls)
  /\ UNCHANGED reclosed

\* Mutant: the ids of the old configuration are kept.
SwitchKeepsIds(reEmit) ==
  /\ calls = <<>> /\ listed # {}
  /\ LET old == SetToSeq(listed)
     IN IF reEmit
        THEN /\ notes' = Handed(notes, Head(old))
             /\ Push(Call("notification", Head(old), Tail(old)))
        ELSE /\ notes' = [n \in Notes |-> IF n \in listed
                            THEN [notes[n] EXCEPT !.st = "gone", !.told = @ + 1] ELSE notes[n]]
             /\ UNCHANGED calls
  /\ listed' = {}
  /\ UNCHANGED <<idMap, reclosed>>

\* switchGeneration() of the new configuration's onPostReload().
SwitchGeneration(reEmit) ==
  /\ calls = <<>> /\ listed # {}
  /\ LET old == SetToSeq(listed)
     IN IF reEmit
        THEN /\ notes' = Handed(notes, Head(old))
             /\ Push(Call("notification", Head(old), Tail(old)))
        ELSE /\ notes' = [n \in Notes |-> IF n \in listed
                            THEN [notes[n] EXCEPT !.st = "gone", !.told = @ + 1] ELSE notes[n]]
             /\ UNCHANGED calls
  /\ idMap' = {} /\ listed' = {}
  /\ UNCHANGED reclosed

\* Mutant: deleteNotification() takes the id off the record and leaves the list alone.
ClosedStaysListed ==
  /\ At("closed")
  /\ notes' = [notes EXCEPT ![Top.n].told = @ + 1]
  /\ idMap' = idMap \ {Top.n} /\ UNCHANGED listed
  /\ calls' = <<Call("dropped", Top.n, <<>>)>> \o Tail(calls)
  /\ UNCHANGED reclosed

\* deleteNotification() after closed(), up to the signal dropped().
Closed ==
  /\ At("closed")
  /\ notes' = [notes EXCEPT ![Top.n].told = @ + 1]
  /\ idMap' = idMap \ {Top.n} /\ listed' = listed \ {Top.n}
  /\ calls' = <<Call("dropped", Top.n, <<>>)>> \o Tail(calls)
  /\ UNCHANGED reclosed

\* retainedDestroy() after dropped().
RetainedDestroy ==
  /\ At("dropped")
  /\ notes' = [notes EXCEPT ![Top.n].st = IF @ = "gone" THEN @
                                          ELSE IF notes[Top.n].locks = 0 THEN "doomed" ELSE "retained"]
  /\ Return
  /\ UNCHANGED <<idMap, listed, reclosed>>

DeleteLater(n) ==
  /\ calls = <<>> /\ notes[n].st = "doomed"
  /\ notes' = [notes EXCEPT ![n].st = "gone"]
  /\ UNCHANGED <<idMap, listed, calls, reclosed>>

-----------------------------------------------------------------------------
(* The shell.  isRetained() is true from retainedDestroy() on. *)

Exists(n)     == QmlRuns /\ notes[n].st \in {"alive", "retained"}
IsRetained(n) == notes[n].st # "alive" \/ Emitting("dropped", n)

SetTracked(n) ==
  /\ Exists(n) /\ ~IsRetained(n)
  /\ notes' = [notes EXCEPT ![n].reason = "tracked"]
  /\ UNCHANGED <<idMap, listed, calls, reclosed>>



\* expire(), dismiss() and tracked = false: close().
Close(n, reason) ==
  /\ Exists(n) /\ ~IsRetained(n)
  /\ notes' = [notes EXCEPT ![n].reason = reason]
  /\ IF n \in idMap
     THEN Push(Call("closed", n, <<>>)) /\ reclosed' = (reclosed \/ Emitting("closed", n))
     ELSE UNCHANGED <<calls, reclosed>>
  /\ UNCHANGED <<idMap, listed>>



Lock(n) ==
  /\ Exists(n) /\ notes[n].locks = 0
  /\ notes' = [notes EXCEPT ![n].locks = 1]
  /\ UNCHANGED <<idMap, listed, calls, reclosed>>

Unlock(n) ==
  /\ Exists(n) /\ notes[n].locks = 1
  /\ notes' = [notes EXCEPT ![n].locks = 0, ![n].st = IF @ = "retained" THEN "doomed" ELSE @]
  /\ UNCHANGED <<idMap, listed, calls, reclosed>>

-----------------------------------------------------------------------------
Init == /\ notes = [n \in Notes |-> Unsent] /\ idMap = {} /\ listed = {} /\ calls = <<>>
        /\ reclosed = FALSE

Next ==
  \/ Notify \/ Notified \/ NotifiedAgain \/ Closed \/ RetainedDestroy
  \/ \E reEmit \in BOOLEAN : SwitchGeneration(reEmit)
  \/ \E n \in Notes : \/ CloseNotification(n) \/ DeleteLater(n) \/ SetTracked(n)
                      \/ Lock(n) \/ Unlock(n)
                      \/ \E reason \in {"Expired", "Dismissed"} : Close(n, reason)

Spec == Init /\ [][Next]_noteVars

-----------------------------------------------------------------------------
TypeOK ==
  /\ notes \in [Notes -> Note] /\ idMap \subseteq Notes /\ listed \subseteq Notes
  /\ reclosed \in BOOLEAN
  /\ \A i \in DOMAIN calls : /\ calls[i].at \in {"notification", "closed", "dropped"}
                             /\ calls[i].n \in Notes /\ calls[i].rest \in Seq(Notes)

\* The sender of a notification is told once that it is closed, and exactly when
\* it is, however dismissals, closing requests and reloads cross; unless a
\* handler of closed() closes the notification again.
ClosedOnce ==
  ~reclosed =>
    \A n \in Notes : /\ notes[n].told <= 1
                     /\ notes[n].st \in {"retained", "doomed", "gone"} => notes[n].told = 1

\* Between events the list the shell sees, the ids that can be closed and the
\* notifications that nobody closed are the same.
ListIsWhatIsOpen ==
  calls = <<>> => /\ idMap = listed
                  /\ listed = {n \in Notes : notes[n].st = "alive"}

\* The two deletions that ask for no lock, of a notification that nobody is closing:
\* it was announced and is not tracked (server.cpp:80, :200), or a reload hands
\* nothing on and empties the list (:89).
Discarded(n) ==
  /\ notes[n].st = "alive" /\ ~Emitting("closed", n) /\ ~Emitting("dropped", n)
  /\ \/ At("notification") /\ Top.n = n /\ notes[n].reason # "tracked"
     \/ calls = <<>> /\ n \in listed /\ listed' = {} /\ calls' = <<>>

\* "If at least one lock is present the object will be retained until all are
\* removed" (retainable.hpp:64).  A notification that a program or the shell is
\* closing or has closed does not go before its lock does, whatever dismissals,
\* closes and reloads cross.  The promise is not kept for one that nobody closed:
\* the server deletes it, locked or not, in the two cases of Discarded.
LockedIsKept ==
  [][\A n \in Notes : notes[n].st \in {"alive", "retained"} /\ notes'[n].st \in {"doomed", "gone"}
                        => notes'[n].locks = 0 \/ Discarded(n)]_noteVars
=============================================================================
