----------------------------- MODULE SessionLock -----------------------------
(***************************************************************************)
(* WlSessionLock (src/src/wayland/session_lock.cpp) and what it stands on  *)
(* (src/src/wayland/session_lock/): objects of the configuration that lock *)
(* the session by way of ext-session-lock-v1, with a surface on each       *)
(* screen.  An object has a SessionLockManager, which the object that      *)
(* takes its place in a reload inherits; all managers share one pointer to *)
(* the session's lock.  The compositor is external: it grants or ends a    *)
(* lock, and kills a client that breaks the protocol.                      *)
(***************************************************************************)
EXTENDS Naturals, Sequences

CONSTANTS
  Locks,       \* the WlSessionLocks of the configuration
  Screens,
  MaxUnlocks   \* bound: unlock() calls on the stack

VARIABLES
  locks,       \* the objects
  active,      \* QSWaylandSessionLockManager.active: "none", "held", or "dangling"
  screens,
  session,     \* the compositor's: "ended" is "unlocked" by the compositor's own will
  unlocking,   \* the unlock() calls that wait for a handler of lockStateChanged()
  end,         \* "running", "aborted" by qFatal(), "killed" by the compositor
  wish,        \* history: what `locked' was set to last
  plain        \* history: no object was destroyed while it held the lock, and no
               \* handler of an unlock locked again

lockVars == <<locks, active, screens, session, unlocking, end, wish, plain>>

\* held: manager->mLock # nullptr; surfaces: the screens that have one.
Lock == [exists : BOOLEAN, held : BOOLEAN, surfaces : SUBSET Screens]
Gone == [exists |-> FALSE, held |-> FALSE, surfaces |-> {}]

Idle == end = "running" /\ unlocking = <<>>

-----------------------------------------------------------------------------
\* realizeLockTarget() with the target TRUE: surfaces are made, the lock is
\* requested if there is none, and the surfaces are shown.
Realize(l) ==
  \/ /\ active = "none"
     /\ locks' = [locks EXCEPT ![l] = [exists |-> TRUE, held |-> TRUE, surfaces |-> screens]]
     /\ active' = "held" /\ session' = "locking"
     /\ UNCHANGED <<unlocking, end>>
  \/ \* "Tried to show lockscreen surfaces without active lock"
     /\ active # "none" /\ ~locks[l].held
     /\ end' = "aborted"
     /\ UNCHANGED <<locks, active, session, unlocking>>
  \/ \* new surfaces for screens that still have one of the old object
     /\ locks[l].held
     /\ end' = IF locks[l].surfaces # {} THEN "killed" ELSE end
     /\ UNCHANGED <<locks, active, session, unlocking>>

\* unlock() of an object that holds the lock.  The signal unlocked() of the lock
\* comes back to unlock(), which deletes the lock and lets the shell know, and only
\* then the first call goes on (Unlocked).  It is a protocol error before the
\* lock was granted.
Unlock(l) ==
  \/ /\ session = "locking"
     /\ end' = "killed"
     /\ UNCHANGED <<locks, active, session, unlocking>>
  \/ /\ session = "locked" /\ Len(unlocking) < MaxUnlocks
     /\ locks' = [locks EXCEPT ![l] = [exists |-> TRUE, held |-> FALSE, surfaces |-> {}]]
     /\ active' = "none" /\ session' = "unlocked"
     /\ unlocking' = Append(unlocking, l)
     /\ UNCHANGED end

SetLocked(l, locked) ==
  /\ end = "running" /\ locks[l].exists
  /\ wish' = [wish EXCEPT ![l] = locked]
  /\ IF locks[l].held = locked THEN UNCHANGED <<locks, active, session, unlocking, end>>
     ELSE IF locked THEN Realize(l) ELSE Unlock(l)
  /\ UNCHANGED <<screens, plain>>

\* The rest of unlock(): whatever lock the manager has by now is deleted, and the
\* session stays locked if it was a new one.
Unlocked ==
  /\ end = "running" /\ unlocking # <<>>
  /\ LET n == Len(unlocking)
         l == unlocking[n]
     IN /\ locks' = [locks EXCEPT ![l].held = FALSE, ![l].surfaces = {}]
        /\ active' = IF locks[l].held THEN "dangling" ELSE active
        /\ plain' = (plain /\ ~locks[l].held)
        /\ unlocking' = SubSeq(unlocking, 1, n - 1)
  /\ UNCHANGED <<screens, session, end, wish>>

\* onReload() of the object that takes the place of l, if there was one.
OnReload(l, locked) ==
  /\ Idle
  /\ wish' = [wish EXCEPT ![l] = locked]
  /\ IF locked THEN Realize(l)
     ELSE IF locks[l].held THEN Unlock(l)
     ELSE /\ locks' = [locks EXCEPT ![l].exists = TRUE]
          /\ UNCHANGED <<active, session, unlocking, end>>
  /\ UNCHANGED <<screens, plain>>

\* Mutant: the lock is given back with its object.
DestroyUnlocks(l) ==
  /\ Idle /\ locks[l].exists
  /\ locks' = [locks EXCEPT ![l] = Gone]
  /\ IF locks[l].held THEN active' = "none" /\ plain' = FALSE /\ session' = "unlocked"
     ELSE UNCHANGED <<active, plain, session>>
  /\ UNCHANGED <<screens, unlocking, end, wish>>

\* The next configuration does without l: "This will intentionally lock the
\* session if the lock is destroyed without calling unlock."
Destroy(l) ==
  /\ Idle /\ locks[l].exists
  /\ locks' = [locks EXCEPT ![l] = Gone]
  /\ IF locks[l].held THEN active' = "dangling" /\ plain' = FALSE ELSE UNCHANGED <<active, plain>>
  /\ UNCHANGED <<screens, session, unlocking, end, wish>>

\* ext_session_lock_v1_locked().
Granted ==
  /\ Idle /\ active = "held" /\ session = "locking"
  /\ session' = "locked"
  /\ UNCHANGED <<locks, active, screens, unlocking, end, wish, plain>>

\* Mutant: the pointer to the session's lock stays.
FinishedForgets ==
  /\ Idle /\ active = "held" /\ session \in {"locking", "locked"}
  /\ session' = "ended"
  /\ locks' = [l \in Locks |-> IF locks[l].held THEN [locks[l] EXCEPT !.held = FALSE, !.surfaces = {}]
                               ELSE locks[l]]
  /\ UNCHANGED <<active, screens, unlocking, end, wish, plain>>

\* ext_session_lock_v1_finished(): the compositor ends the lock, or refuses it.
Finished ==
  /\ Idle /\ active = "held" /\ session \in {"locking", "locked"}
  /\ active' = "none" /\ session' = "ended"
  /\ locks' = [l \in Locks |-> IF locks[l].held THEN [locks[l] EXCEPT !.held = FALSE, !.surfaces = {}]
                               ELSE locks[l]]
  /\ UNCHANGED <<screens, unlocking, end, wish, plain>>


\* updateSurfaces(true) of the object that holds the lock, when a screen has come
\* or gone.
UpdateSurfaces(l, now) == IF l.held THEN [l EXCEPT !.surfaces = now] ELSE l

OnScreensChanged ==
  /\ Idle
  /\ \E s \in Screens : screens' \in {screens \cup {s}, screens \ {s}}
  /\ locks' = [l \in Locks |-> UpdateSurfaces(locks[l], screens')]
  /\ UNCHANGED <<active, session, unlocking, end, wish, plain>>

-----------------------------------------------------------------------------
Init ==
  /\ locks = [l \in Locks |-> Gone] /\ active = "none"
  /\ screens = Screens /\ session = "unlocked" /\ unlocking = <<>>
  /\ end = "running" /\ wish = [l \in Locks |-> FALSE] /\ plain = TRUE

Next ==
  \/ \E l \in Locks, locked \in BOOLEAN : SetLocked(l, locked) \/ OnReload(l, locked)
  \/ Unlocked \/ \E l \in Locks : Destroy(l)
  \/ Granted \/ Finished \/ OnScreensChanged

Spec == Init /\ [][Next]_lockVars

-----------------------------------------------------------------------------
TypeOK ==
  /\ locks \in [Locks -> Lock]
  /\ active \in {"none", "held", "dangling"}
  /\ screens \subseteq Screens
  /\ session \in {"unlocked", "locking", "locked", "ended"}
  /\ unlocking \in Seq(Locks)
  /\ end \in {"running", "aborted", "killed"}
  /\ wish \in [Locks -> BOOLEAN] /\ plain \in BOOLEAN

\* "The lock dying will not expose your session": the session is unlocked only
\* for an object that holds its lock and was told to, whatever is reloaded,
\* destroyed or called from handlers.
NeverExposed ==
  [][session' = "unlocked" /\ session \in {"locking", "locked"}
       => \E l \in Locks : (locks[l].held /\ ~wish'[l])]_lockVars

\* The shell can unlock what it locked, and shows its surface on every screen
\* there is: in the plain case (see `plain') there is one holder of the
\* session's lock, as long as it is locked.
SessionIsOperable ==
  Idle =>
    /\ \A l \in Locks : locks[l].held => locks[l].surfaces = screens
    /\ \A l, m \in Locks : locks[l].held /\ locks[m].held => l = m
    /\ active = "held" <=> \E l \in Locks : locks[l].held
    /\ plain => (session \in {"locking", "locked"} <=> active = "held")

\* "Attempting to enable a lock while another lock is enabled will do nothing".
NeverAborts == end # "aborted"
=============================================================================
