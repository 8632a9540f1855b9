----------------------------- MODULE ObjectsProofs -----------------------------
(***************************************************************************)
(* Theorems about the objects that ObjectsMC explores, for every value of  *)
(* the constants: the session lock with any number of objects and screens, *)
(* the mirrored properties with any number of properties, values and       *)
(* messages under way, the socket and the servers of any number of         *)
(* generations at any paths, the tray with any applications, items and     *)
(* messages, the stream parser with any stream in any parts, the list      *)
(* model with lists of any length, the child process with any commands and *)
(* output, and a JSON file with any numbers and writes.                    *)
(***************************************************************************)
EXTENDS ObjectsMC, SequenceTheorems, FiniteSetTheorems, WellFoundedInduction, TLAPS

-----------------------------------------------------------------------------
(* The parts do not share state: each step of ObjectsMC is a step of one, or *)
(* leaves it as it was.                                                      *)

LEMMA LockSteps == Spec => Lock!Spec
<1>1. Init => Lock!Init
  BY DEF Init
<1>2. [Next]_vars => [Lock!Next]_(Lock!lockVars)
  BY DEF Next, Streams, Others, vars, otherVars, lockVars, Lock!lockVars
<1> QED BY <1>1, <1>2, PTL DEF Spec, Lock!Spec

LEMMA MirrorSteps == Spec => Mirror!Spec
<1>1. Init => Mirror!Init
  BY DEF Init
<1>2. [Next]_vars => [Mirror!Next]_(Mirror!propertyVars)
  BY DEF Next, Streams, Others, vars, otherVars, mirrorVars, Mirror!propertyVars
<1> QED BY <1>1, <1>2, PTL DEF Spec, Mirror!Spec

-----------------------------------------------------------------------------
(* The session lock                                                          *)

\* SessionIsOperable at every moment, also while a handler of an unlock runs:
\* the object that holds the lock shows a surface on each screen, it is the only
\* one, the pointer that all managers share is set exactly while there is one,
\* and the compositor agrees.
SurfacesAreShown == \A l \in Locks : locks[l].held => locks[l].surfaces = screens
OneHolder        == \A l, m \in Locks : locks[l].held /\ locks[m].held => l = m
ActiveIsHeld     == active = "held" <=> \E l \in Locks : locks[l].held
SessionAgrees    == plain => (session \in {"locking", "locked"} <=> active = "held")

LockInv == Lock!TypeOK /\ SurfacesAreShown /\ OneHolder /\ ActiveIsHeld /\ SessionAgrees

-----------------------------------------------------------------------------
LEMMA InitLockInv == Lock!Init => LockInv
BY EmptySeq DEF Lock!Init, LockInv, Lock!TypeOK, Lock!Lock, Lock!Gone, SurfacesAreShown,
                OneHolder, ActiveIsHeld, SessionAgrees

\* realizeLockTarget() with a new lock: nobody held one before.
LEMMA RealizeKeeps ==
  ASSUME LockInv, NEW l \in Locks, Lock!Realize(l), UNCHANGED <<screens, plain>>, wish' \in [Locks -> BOOLEAN]
  PROVE  LockInv'
<1>1. CASE /\ active = "none"
           /\ locks' = [locks EXCEPT ![l] = [exists |-> TRUE, held |-> TRUE, surfaces |-> screens]]
           /\ active' = "held" /\ session' = "locking"
           /\ UNCHANGED <<unlocking, end>>
  <2>1. Lock!TypeOK'
    BY <1>1 DEF LockInv, Lock!TypeOK, Lock!Lock
  <2>2. locks'[l].held /\ locks'[l].surfaces = screens' /\ \A m \in Locks : locks'[m].held => m = l
    BY <1>1 DEF LockInv, Lock!TypeOK, Lock!Lock, ActiveIsHeld
  <2> QED
    BY <1>1, <2>1, <2>2 DEF LockInv, SurfacesAreShown, OneHolder, ActiveIsHeld, SessionAgrees
<1>2. CASE UNCHANGED <<locks, active, session, unlocking>> /\ end' \in {"running", "aborted", "killed"}
  BY <1>2 DEF LockInv, Lock!TypeOK, SurfacesAreShown, OneHolder, ActiveIsHeld, SessionAgrees
<1> QED
  BY <1>1, <1>2 DEF Lock!Realize, LockInv, Lock!TypeOK

\* unlock() of the holder: nobody holds the lock after it.
LEMMA UnlockKeeps ==
  ASSUME LockInv, NEW l \in Locks, locks[l].held, Lock!Unlock(l), UNCHANGED <<screens, plain>>,
         wish' \in [Locks -> BOOLEAN]
  PROVE  LockInv'
<1>1. CASE UNCHANGED <<locks, active, session, unlocking>> /\ end' = "killed"
  BY <1>1 DEF LockInv, Lock!TypeOK, SurfacesAreShown, OneHolder, ActiveIsHeld, SessionAgrees
<1>2. CASE /\ locks' = [locks EXCEPT ![l] = [exists |-> TRUE, held |-> FALSE, surfaces |-> {}]]
           /\ active' = "none" /\ session' = "unlocked"
           /\ unlocking' = Append(unlocking, l)
           /\ UNCHANGED end
  <2>1. Lock!TypeOK'
    BY <1>2, AppendProperties DEF LockInv, Lock!TypeOK, Lock!Lock
  <2>2. \A m \in Locks : ~locks'[m].held
    BY <1>2 DEF LockInv, Lock!TypeOK, Lock!Lock, OneHolder
  <2> QED
    BY <1>2, <2>1, <2>2 DEF LockInv, SurfacesAreShown, OneHolder, ActiveIsHeld, SessionAgrees
<1> QED
  BY <1>1, <1>2 DEF Lock!Unlock

LEMMA NextLockInv == LockInv /\ [Lock!Next]_(Lock!lockVars) => LockInv'
<1> SUFFICES ASSUME LockInv, [Lock!Next]_(Lock!lockVars) PROVE LockInv'
  OBVIOUS
<1> USE DEF LockInv
<1>1. ASSUME NEW l \in Locks, NEW locked \in BOOLEAN, Lock!SetLocked(l, locked) PROVE LockInv'
  <2>1. wish' \in [Locks -> BOOLEAN] /\ UNCHANGED <<screens, plain>>
    BY <1>1 DEF Lock!SetLocked, Lock!TypeOK
  <2>2. CASE locks[l].held = locked
    BY <1>1, <2>1, <2>2 DEF Lock!SetLocked, Lock!TypeOK, SurfacesAreShown, OneHolder,
                            ActiveIsHeld, SessionAgrees
  <2>3. CASE locks[l].held # locked /\ locked
    BY <1>1, <2>1, <2>3, RealizeKeeps DEF Lock!SetLocked
  <2>4. CASE locks[l].held # locked /\ ~locked
    <3>1. locks[l].held
      BY <2>4 DEF Lock!TypeOK, Lock!Lock
    <3> QED
      BY <1>1, <2>1, <2>4, <3>1, UnlockKeeps DEF Lock!SetLocked
  <2> QED
    BY <2>2, <2>3, <2>4
<1>2. ASSUME NEW l \in Locks, NEW locked \in BOOLEAN, Lock!OnReload(l, locked) PROVE LockInv'
  <2>1. wish' \in [Locks -> BOOLEAN] /\ UNCHANGED <<screens, plain>>
    BY <1>2 DEF Lock!OnReload, Lock!TypeOK
  <2>2. CASE locked
    BY <1>2, <2>1, <2>2, RealizeKeeps DEF Lock!OnReload
  <2>3. CASE ~locked /\ locks[l].held
    BY <1>2, <2>1, <2>3, UnlockKeeps DEF Lock!OnReload
  <2>4. CASE ~locked /\ ~locks[l].held
    <3>1. /\ locks' = [locks EXCEPT ![l].exists = TRUE]
          /\ UNCHANGED <<active, session, unlocking, end>>
      BY <1>2, <2>4 DEF Lock!OnReload
    <3>2. /\ locks' \in [Locks -> Lock!Lock]
          /\ \A m \in Locks : locks'[m].held = locks[m].held /\ locks'[m].surfaces = locks[m].surfaces
      BY <3>1 DEF Lock!TypeOK, Lock!Lock
    <3> QED
      BY <2>1, <3>1, <3>2 DEF Lock!TypeOK, SurfacesAreShown, OneHolder, ActiveIsHeld,
                              SessionAgrees
  <2> QED
    BY <2>2, <2>3, <2>4
<1>3. ASSUME Lock!Unlocked PROVE LockInv'
  <2> DEFINE n == Len(unlocking)
             l == unlocking[n]
  <2>1. n \in 1..n /\ l \in Locks
    BY <1>3, EmptySeq, LenProperties, ElementOfSeq DEF Lock!Unlocked, Lock!TypeOK
  <2>2. unlocking' \in Seq(Locks)
    BY <1>3, <2>1, SubSeqProperties DEF Lock!Unlocked, Lock!TypeOK
  <2>3. locks' = [locks EXCEPT ![l].held = FALSE, ![l].surfaces = {}]
    BY <1>3 DEF Lock!Unlocked
  <2>4. locks' \in [Locks -> Lock!Lock] /\ ~locks'[l].held
        /\ \A m \in Locks : m # l => locks'[m] = locks[m]
    BY <2>1, <2>3 DEF Lock!TypeOK, Lock!Lock
  <2> HIDE DEF n, l
  <2>5. CASE locks[l].held
    <3>1. \A m \in Locks : ~locks'[m].held
      BY <2>1, <2>4, <2>5 DEF OneHolder
    <3> QED
      BY <1>3, <2>2, <2>4, <2>5, <3>1
      DEF Lock!Unlocked, Lock!TypeOK, SurfacesAreShown, OneHolder, ActiveIsHeld, SessionAgrees,
          n, l
  <2>6. CASE ~locks[l].held
    <3>1. UNCHANGED <<active, screens, session, end, wish, plain>>
      BY <1>3, <2>6 DEF Lock!Unlocked, Lock!TypeOK, n, l
    <3> QED
      BY <2>1, <2>2, <2>4, <2>6, <3>1
      DEF Lock!TypeOK, SurfacesAreShown, OneHolder, ActiveIsHeld, SessionAgrees
  <2> QED
    BY <2>5, <2>6
<1>4. ASSUME NEW l \in Locks, Lock!Destroy(l) PROVE LockInv'
  BY <1>4 DEF Lock!Destroy, Lock!TypeOK, Lock!Lock, Lock!Gone, SurfacesAreShown, OneHolder,
              ActiveIsHeld, SessionAgrees
<1>5. ASSUME Lock!Granted PROVE LockInv'
  BY <1>5 DEF Lock!Granted, Lock!TypeOK, SurfacesAreShown, OneHolder, ActiveIsHeld, SessionAgrees
<1>6. ASSUME Lock!Finished PROVE LockInv'
  BY <1>6 DEF Lock!Finished, Lock!TypeOK, Lock!Lock, SurfacesAreShown, OneHolder, ActiveIsHeld,
              SessionAgrees
<1>7. ASSUME Lock!OnScreensChanged PROVE LockInv'
  <2>1. screens' \subseteq Screens
    BY <1>7 DEF Lock!OnScreensChanged, Lock!TypeOK
  <2> QED
    BY <1>7, <2>1 DEF Lock!OnScreensChanged, Lock!UpdateSurfaces, Lock!TypeOK, Lock!Lock,
                      SurfacesAreShown, OneHolder,
                      ActiveIsHeld, SessionAgrees
<1>8. CASE UNCHANGED Lock!lockVars
  BY <1>8 DEF Lock!lockVars, Lock!TypeOK, SurfacesAreShown, OneHolder, ActiveIsHeld, SessionAgrees
<1> QED
  BY <1>1, <1>2, <1>3, <1>4, <1>5, <1>6, <1>7, <1>8 DEF Lock!Next

LEMMA LockInvariance == Lock!Spec => []LockInv
BY InitLockInv, NextLockInv, PTL DEF Lock!Spec

\* One object holds the lock of the session, with a surface on every screen, as long
\* as the session is locked: whatever is reloaded, plugged in or called from handlers,
\* in the case that `plain' singles out (session_lock.cpp:102, :42).
THEOREM StaysOperable == Spec => []SessionIsOperable
<1>1. LockInv => SessionIsOperable
  BY DEF LockInv, SurfacesAreShown, OneHolder, ActiveIsHeld, SessionAgrees, SessionIsOperable,
         Lock!SessionIsOperable, Lock!Idle
<1> QED BY <1>1, LockSteps, LockInvariance, PTL

\* A step unlocks the session only by unlock() of the object that holds its lock and whose
\* `locked' was set to false, in any case (session_lock.cpp:113, session_lock/session_lock.cpp:34).
THEOREM OnlyUnlockExposes == Spec => NeverExposed
<1> DEFINE Exposed == session' = "unlocked" /\ session \in {"locking", "locked"}
           Told == \E l \in Locks : locks[l].held /\ ~wish'[l]
<1>1. ASSUME LockInv, [Lock!Next]_(Lock!lockVars), Exposed PROVE Told
  <2>1. ASSUME NEW l \in Locks, NEW locked \in BOOLEAN, Lock!SetLocked(l, locked) PROVE Told
    <3>1. ~locked /\ locks[l].held
      BY <1>1, <2>1 DEF Lock!SetLocked, Lock!Realize, LockInv, Lock!TypeOK, Lock!Lock
    <3>2. wish'[l] = locked
      BY <1>1, <2>1 DEF Lock!SetLocked, LockInv, Lock!TypeOK
    <3> QED
      BY <3>1, <3>2
  <2>2. ASSUME NEW l \in Locks, NEW locked \in BOOLEAN, Lock!OnReload(l, locked) PROVE Told
    <3>1. ~locked /\ locks[l].held
      BY <1>1, <2>2 DEF Lock!OnReload, Lock!Realize, LockInv, Lock!TypeOK, Lock!Lock
    <3>2. wish'[l] = locked
      BY <1>1, <2>2 DEF Lock!OnReload, LockInv, Lock!TypeOK
    <3> QED
      BY <3>1, <3>2
  <2> QED
    BY <1>1, <2>1, <2>2 DEF Lock!Next, Lock!Unlocked, Lock!Destroy, Lock!Granted,
                            Lock!Finished, Lock!OnScreensChanged, Lock!lockVars
<1>2. LockInv /\ [Lock!Next]_(Lock!lockVars) => (Exposed => Told)
  BY <1>1
<1> QED
  BY <1>2, LockSteps, LockInvariance, PTL DEF Lock!Spec, NeverExposed, Lock!NeverExposed

-----------------------------------------------------------------------------
(* The properties of another program's object                                *)

\* A signal says something of p: its value, or that it is another.
Mentions(s, p) == p \in DOMAIN s.values \/ p \in s.invalidated
Told(p)        == \E i \in DOMAIN signals : Mentions(signals[i], p)
LastTold(i, p) == /\ i \in DOMAIN signals /\ Mentions(signals[i], p)
                  /\ \A j \in DOMAIN signals : j > i => ~Mentions(signals[j], p)
Asked(p)       == \E i \in DOMAIN calls : p \in calls[i].props
LastAsked(i, p) == /\ i \in DOMAIN calls /\ p \in calls[i].props
                   /\ \A j \in DOMAIN calls : j > i => p \notin calls[j].props

\* A signal does not give a value and take it back, and what is written is a value.
WellFormed ==
  /\ \A i \in DOMAIN signals : DOMAIN signals[i].values \cap signals[i].invalidated = {}
  /\ \A i \in DOMAIN calls : calls[i].kind = "Set" => calls[i].value \in Values

\* The last value under way is the one the program has.
LastIsTrue ==
  \A p \in Properties, i \in DOMAIN signals :
    LastTold(i, p) /\ p \in DOMAIN signals[i].values => signals[i].values[p] = remote[p]

\* With nothing told, the last value written is shown, or the program's is.
WrittenIsShown ==
  \A p \in Properties, i \in DOMAIN calls :
    LastAsked(i, p) /\ calls[i].kind = "Set" /\ ~Told(p) => local[p] \in {calls[i].value, remote[p]}

\* With nothing told and nothing asked, the program's value is shown.
QuietIsTrue ==
  \A p \in Properties \ refused : ~Told(p) /\ ~Asked(p) => local[p] = remote[p]

MirrorInv == Mirror!TypeOK /\ WellFormed /\ LastIsTrue /\ WrittenIsShown /\ QuietIsTrue
-----------------------------------------------------------------------------
(* What is told and what is asked, as messages come and go.                  *)

LEMMA AppendOne ==
  ASSUME NEW S, NEW s \in Seq(S), NEW e \in S, NEW t, t = Append(s, e)
  PROVE  /\ t \in Seq(S)
         /\ DOMAIN s = 1 .. Len(s) /\ DOMAIN t = 1 .. Len(s) + 1
         /\ \A i \in 1 .. Len(s) : t[i] = s[i]
         /\ t[Len(s) + 1] = e /\ Len(s) \in Nat
BY AppendProperties, LenProperties

LEMMA TakeOne ==
  ASSUME NEW S, NEW s \in Seq(S), s # <<>>, NEW t, t = Tail(s)
  PROVE  /\ t \in Seq(S)
         /\ DOMAIN s = 1 .. Len(s) /\ DOMAIN t = 1 .. Len(s) - 1
         /\ \A i \in 1 .. Len(s) - 1 : t[i] = s[i + 1]
         /\ Head(s) = s[1] /\ Len(s) \in Nat \ {0}
BY HeadTailProperties, LenProperties, EmptySeq

\* Another signal: it is the last word on what it mentions.
LEMMA Tells ==
  ASSUME signals \in Seq(Mirror!Signals), NEW s \in Mirror!Signals, signals' = Append(signals, s), NEW p
  PROVE  /\ Told(p)' <=> Told(p) \/ Mentions(s, p)
         /\ \A i \in DOMAIN signals' : LastTold(i, p)' =>
              IF Mentions(s, p) THEN i = Len(signals) + 1
              ELSE i \in DOMAIN signals /\ signals'[i] = signals[i] /\ LastTold(i, p)
<1>1. /\ DOMAIN signals = 1 .. Len(signals) /\ DOMAIN signals' = 1 .. Len(signals) + 1
      /\ \A i \in 1 .. Len(signals) : signals'[i] = signals[i]
      /\ signals'[Len(signals) + 1] = s /\ Len(signals) \in Nat
  BY AppendOne
<1> QED
  BY <1>1 DEF Told, LastTold, Mentions

\* Another call.
LEMMA Asks ==
  ASSUME calls \in Seq(Mirror!Calls), NEW c \in Mirror!Calls, calls' = Append(calls, c), NEW p
  PROVE  /\ Asked(p)' <=> Asked(p) \/ p \in c.props
         /\ \A i \in DOMAIN calls' : LastAsked(i, p)' =>
              IF p \in c.props THEN calls'[i] = c
              ELSE i \in DOMAIN calls /\ calls'[i] = calls[i] /\ LastAsked(i, p)
<1>1. /\ DOMAIN calls = 1 .. Len(calls) /\ DOMAIN calls' = 1 .. Len(calls) + 1
      /\ \A i \in 1 .. Len(calls) : calls'[i] = calls[i]
      /\ calls'[Len(calls) + 1] = c /\ Len(calls) \in Nat
  BY AppendOne
<1> QED
  BY <1>1 DEF Asked, LastAsked

\* The program has read a call: it was the last on what no other is about.
LEMMA Answers ==
  ASSUME calls \in Seq(Mirror!Calls), calls # <<>>, calls' = Tail(calls), NEW p
  PROVE  /\ Asked(p) <=> Asked(p)' \/ p \in Head(calls).props
         /\ ~Asked(p)' /\ p \in Head(calls).props => LastAsked(1, p)
         /\ \A i \in DOMAIN calls' : LastAsked(i, p)' =>
              i + 1 \in DOMAIN calls /\ calls'[i] = calls[i + 1] /\ LastAsked(i + 1, p)
<1>1. /\ DOMAIN calls = 1 .. Len(calls) /\ DOMAIN calls' = 1 .. Len(calls) - 1
      /\ \A i \in 1 .. Len(calls) - 1 : calls'[i] = calls[i + 1]
      /\ Head(calls) = calls[1] /\ Len(calls) \in Nat \ {0}
  BY TakeOne
<1>2. /\ \A j \in DOMAIN calls : j = 1 \/ (j - 1 \in DOMAIN calls' /\ calls[j] = calls'[j - 1])
      /\ \A i \in DOMAIN calls' : i + 1 \in DOMAIN calls /\ calls'[i] = calls[i + 1]
      /\ 1 \in DOMAIN calls /\ Head(calls) = calls[1]
  BY <1>1
<1>3. Asked(p) <=> Asked(p)' \/ p \in Head(calls).props
  BY <1>2 DEF Asked
<1>4. ~Asked(p)' /\ p \in Head(calls).props => LastAsked(1, p)
  <2>1. SUFFICES ASSUME ~Asked(p)', p \in Head(calls).props,
                        NEW j \in DOMAIN calls, j > 1, p \in calls[j].props
                 PROVE  FALSE
    BY <1>2 DEF LastAsked
  <2>2. j - 1 \in DOMAIN calls' /\ calls[j] = calls'[j - 1]
    BY <1>2, <2>1
  <2> QED
    BY <2>1, <2>2 DEF Asked
<1>5. ASSUME NEW i \in DOMAIN calls', LastAsked(i, p)'
      PROVE  i + 1 \in DOMAIN calls /\ calls'[i] = calls[i + 1] /\ LastAsked(i + 1, p)
  <2>1. i + 1 \in DOMAIN calls /\ calls'[i] = calls[i + 1]
    BY <1>2
  <2>2. ASSUME NEW j \in DOMAIN calls, j > i + 1, p \in calls[j].props PROVE FALSE
    <3>1. j - 1 \in DOMAIN calls' /\ calls[j] = calls'[j - 1] /\ j - 1 > i
      BY <1>1, <1>2, <2>2
    <3> QED
      BY <1>5, <2>2, <3>1 DEF LastAsked
  <2> QED
    BY <1>5, <2>1, <2>2 DEF LastAsked
<1> QED
  BY <1>3, <1>4, <1>5

\* The shell has taken what the first signal says of q.
LEMMA Takes ==
  ASSUME signals # <<>>, signals \in Seq(Mirror!Signals), NEW s, signals' = [signals EXCEPT ![1] = s],
         NEW q, Mentions(signals[1], q), ~Mentions(s, q),
         \A p : p # q => (Mentions(s, p) <=> Mentions(signals[1], p)),
         NEW p
  PROVE  /\ p # q => (Told(p)' <=> Told(p))
         /\ ~Told(q)' => LastTold(1, q)
         /\ \A i \in DOMAIN signals' : LastTold(i, p)' =>
              i \in DOMAIN signals /\ LastTold(i, p) /\ (i = 1 => p # q)
<1>1. /\ DOMAIN signals = 1 .. Len(signals) /\ DOMAIN signals' = DOMAIN signals
      /\ 1 \in DOMAIN signals /\ Len(signals) \in Nat
      /\ \A i \in DOMAIN signals : signals'[i] = IF i = 1 THEN s ELSE signals[i]
  BY EmptySeq, LenProperties
<1> QED
  BY <1>1 DEF Told, LastTold

\* The shell is done with the first signal.
LEMMA Drops ==
  ASSUME signals \in Seq(Mirror!Signals), signals # <<>>, signals' = Tail(signals),
         NEW p, ~Mentions(signals[1], p)
  PROVE  /\ Told(p)' <=> Told(p)
         /\ \A i \in DOMAIN signals' : LastTold(i, p)' =>
              i + 1 \in DOMAIN signals /\ signals'[i] = signals[i + 1] /\ LastTold(i + 1, p)
<1>1. /\ DOMAIN signals = 1 .. Len(signals) /\ DOMAIN signals' = 1 .. Len(signals) - 1
      /\ \A i \in 1 .. Len(signals) - 1 : signals'[i] = signals[i + 1]
      /\ Len(signals) \in Nat \ {0}
  BY TakeOne
<1>2. /\ \A j \in DOMAIN signals : j = 1 \/ (j - 1 \in DOMAIN signals' /\ signals[j] = signals'[j - 1])
      /\ \A i \in DOMAIN signals' : i + 1 \in DOMAIN signals /\ signals'[i] = signals[i + 1]
      /\ 1 \in DOMAIN signals /\ DOMAIN signals \subseteq Int
  BY <1>1
<1>3. Told(p)' <=> Told(p)
  BY <1>2 DEF Told, Mentions
<1>4. ASSUME NEW i \in DOMAIN signals', LastTold(i, p)'
      PROVE  i + 1 \in DOMAIN signals /\ signals'[i] = signals[i + 1] /\ LastTold(i + 1, p)
  <2>1. i + 1 \in DOMAIN signals /\ signals'[i] = signals[i + 1]
    BY <1>2
  <2>2. ASSUME NEW j \in DOMAIN signals, j > i + 1, Mentions(signals[j], p) PROVE FALSE
    <3>1. j - 1 \in DOMAIN signals' /\ signals[j] = signals'[j - 1] /\ j - 1 > i
      BY <1>1, <1>2, <2>2
    <3> QED
      BY <1>4, <2>2, <3>1 DEF LastTold, Mentions
  <2> QED
    BY <1>4, <2>1, <2>2 DEF LastTold, Mentions
<1> QED
  BY <1>3, <1>4

-----------------------------------------------------------------------------
LEMMA SignalType ==
  ASSUME NEW P \in SUBSET Properties, NEW v \in [P -> Values], NEW Q \in SUBSET Properties
  PROVE  Mirror!Signal(v, Q) \in Mirror!Signals
BY DEF Mirror!Signal, Mirror!Signals

LEMMA SignalParts ==
  ASSUME NEW s \in Mirror!Signals
  PROVE  /\ DOMAIN s.values \in SUBSET Properties /\ s.values \in [DOMAIN s.values -> Values]
         /\ s.invalidated \in SUBSET Properties
         /\ s = Mirror!Signal(s.values, s.invalidated)
BY DEF Mirror!Signals, Mirror!Signal

\* The program says something that is so, of all that it changes: what holds of the
\* signals goes on to hold, whatever becomes of the calls.
LEMMA TellKeeps ==
  ASSUME MirrorInv, NEW s \in Mirror!Signals, signals' = Append(signals, s),
         DOMAIN s.values \cap s.invalidated = {},
         \A p \in DOMAIN s.values : s.values[p] = remote'[p],
         \A p \in Properties : ~Mentions(s, p) => remote'[p] = remote[p]
  PROVE  /\ signals' \in Seq(Mirror!Signals)
         /\ \A i \in DOMAIN signals' : DOMAIN signals'[i].values \cap signals'[i].invalidated = {}
         /\ LastIsTrue'
<1>1. /\ signals' \in Seq(Mirror!Signals)
      /\ DOMAIN signals = 1 .. Len(signals) /\ DOMAIN signals' = 1 .. Len(signals) + 1
      /\ \A i \in 1 .. Len(signals) : signals'[i] = signals[i]
      /\ signals'[Len(signals) + 1] = s /\ Len(signals) \in Nat
  BY AppendOne DEF MirrorInv, Mirror!TypeOK
<1>2. \A i \in DOMAIN signals' : DOMAIN signals'[i].values \cap signals'[i].invalidated = {}
  BY <1>1 DEF MirrorInv, WellFormed
<1>3. ASSUME NEW p \in Properties, NEW i \in DOMAIN signals', LastTold(i, p)',
             p \in DOMAIN signals'[i].values
      PROVE  signals'[i].values[p] = remote'[p]
  <2>1. CASE Mentions(s, p)
    BY <1>1, <1>3, <2>1, Tells DEF MirrorInv, Mirror!TypeOK
  <2>2. CASE ~Mentions(s, p)
    BY <1>3, <2>2, Tells DEF MirrorInv, Mirror!TypeOK, LastIsTrue
  <2> QED
    BY <2>1, <2>2
<1> QED
  BY <1>1, <1>2, <1>3 DEF LastIsTrue

-----------------------------------------------------------------------------
(* The actions.                                                              *)

LEMMA InitMirrorInv == Mirror!Init => MirrorInv
<1> SUFFICES ASSUME Mirror!Init PROVE MirrorInv
  OBVIOUS
<1>1. calls \in Seq(Mirror!Calls) /\ signals \in Seq(Mirror!Signals) /\ DOMAIN calls = {1} /\ DOMAIN signals = {}
      /\ calls[1] = Mirror!Call("Get", Properties, Unset)
  <2>1. Mirror!Call("Get", Properties, Unset) \in Mirror!Calls
    BY DEF Mirror!Call, Mirror!Calls
  <2> QED
    BY <2>1, EmptySeq DEF Mirror!Init
<1> QED
  BY <1>1 DEF Mirror!Init, Mirror!Call, MirrorInv, Mirror!TypeOK, WellFormed, LastIsTrue,
              WrittenIsShown, QuietIsTrue,
              LastTold, Told, Asked, LastAsked

LEMMA RemoteChangesKeeps == MirrorInv /\ Mirror!RemoteChanges => MirrorInv'
<1> SUFFICES ASSUME MirrorInv, Mirror!RemoteChanges PROVE MirrorInv'
  OBVIOUS
<1> USE DEF MirrorInv
<1> DEFINE Changes(P, tells, new) ==
             /\ remote' = [p \in Properties |-> IF p \in P THEN new[p] ELSE remote[p]]
             /\ tells \subseteq P
             /\ signals' = Append(signals, Mirror!Signal([p \in tells |-> new[p]], P \ tells))
<1>0. PICK P \in SUBSET Properties, tells \in SUBSET Properties :
        \E new \in [P -> Values] : Changes(P, tells, new)
  BY DEF Mirror!RemoteChanges
<1>1. PICK new \in [P -> Values] : Changes(P, tells, new)
  BY <1>0
<1> DEFINE s == Mirror!Signal([p \in tells |-> new[p]], P \ tells)
<1>2. UNCHANGED <<calls, local, refused>>
  BY DEF Mirror!RemoteChanges
<1>3. s \in Mirror!Signals /\ \A p : Mentions(s, p) <=> p \in P
  <2>1. [p \in tells |-> new[p]] \in [tells -> Values]
    BY <1>1
  <2> QED
    BY <1>1, <2>1, SignalType DEF Mentions, Mirror!Signal
<1>4. DOMAIN s.values = tells /\ s.invalidated = P \ tells /\ \A p \in tells : s.values[p] = remote'[p]
  BY <1>1 DEF Mirror!Signal
<1>5. remote' \in [Properties -> Values]
  BY <1>1 DEF Mirror!TypeOK
<1> HIDE DEF s
<1>6. \A p \in Properties : ~Mentions(s, p) => remote'[p] = remote[p]
  BY <1>1, <1>3
<1>7. signals' = Append(signals, s)
  BY <1>1 DEF s
<1>8. /\ signals' \in Seq(Mirror!Signals)
      /\ \A i \in DOMAIN signals' : DOMAIN signals'[i].values \cap signals'[i].invalidated = {}
      /\ LastIsTrue'
  BY <1>3, <1>4, <1>6, <1>7, TellKeeps
<1>9. \A p : /\ Told(p)' <=> Told(p) \/ Mentions(s, p)
             /\ Asked(p)' <=> Asked(p)
  BY <1>2, <1>3, <1>7, Tells DEF Mirror!TypeOK, Asked
<1>10. WrittenIsShown'
  BY <1>2, <1>6, <1>9 DEF WrittenIsShown, LastAsked
<1>11. QuietIsTrue'
  BY <1>2, <1>6, <1>9 DEF QuietIsTrue
<1> QED
  BY <1>2, <1>5, <1>8, <1>10, <1>11 DEF Mirror!TypeOK, WellFormed

\* The types of what is left when the program has read a call.
LEMMA CallRead ==
  ASSUME MirrorInv, calls # <<>>, calls' = Tail(calls)
  PROVE  /\ calls' \in Seq(Mirror!Calls) /\ Head(calls) \in Mirror!Calls /\ 1 \in DOMAIN calls
         /\ calls[1] = Head(calls)
         /\ \A i \in DOMAIN calls' : calls'[i].kind = "Set" => calls'[i].value \in Values
         /\ Head(calls).kind = "Set" => Head(calls).value \in Values
<1>1. /\ calls' \in Seq(Mirror!Calls)
      /\ DOMAIN calls = 1 .. Len(calls) /\ DOMAIN calls' = 1 .. Len(calls) - 1
      /\ \A i \in 1 .. Len(calls) - 1 : calls'[i] = calls[i + 1]
      /\ Head(calls) = calls[1] /\ Len(calls) \in Nat \ {0}
  BY TakeOne DEF MirrorInv, Mirror!TypeOK
<1>2. \A i \in DOMAIN calls' : i + 1 \in DOMAIN calls
  BY <1>1
<1>3. 1 \in DOMAIN calls
  BY <1>1
<1> QED
  BY <1>1, <1>2, <1>3, ElementOfSeq DEF MirrorInv, Mirror!TypeOK, WellFormed

LEMMA RemoteReadsKeeps == MirrorInv /\ Mirror!RemoteReads => MirrorInv'
<1> SUFFICES ASSUME MirrorInv, Mirror!RemoteReads PROVE MirrorInv'
  OBVIOUS
<1> USE DEF MirrorInv
<1> DEFINE c == Head(calls)
           s == Mirror!Signal(Mirror!Known(c.props), {})
<1>1. calls # <<>> /\ calls' = Tail(calls) /\ UNCHANGED <<remote, local>> /\ c.kind = "Get"
  BY DEF Mirror!RemoteReads
<1>2. /\ calls' \in Seq(Mirror!Calls) /\ c \in Mirror!Calls /\ calls[1] = c
      /\ \A i \in DOMAIN calls' : calls'[i].kind = "Set" => calls'[i].value \in Values
  BY <1>1, CallRead
<1>3. c.props \in SUBSET Properties
  BY <1>2 DEF Mirror!Calls
<1> HIDE DEF c
<1>4. \A p : /\ Asked(p) <=> Asked(p)' \/ p \in c.props
             /\ \A i \in DOMAIN calls' : LastAsked(i, p)' =>
                  i + 1 \in DOMAIN calls /\ calls'[i] = calls[i + 1] /\ LastAsked(i + 1, p)
  BY <1>1, Answers DEF Mirror!TypeOK, c
<1>5. CASE signals' = Append(signals, s) /\ UNCHANGED refused
  <2>1. Mirror!Known(c.props) \in [c.props -> Values]
    BY <1>3 DEF Mirror!Known, Mirror!TypeOK
  <2>2. s \in Mirror!Signals /\ \A p : Mentions(s, p) <=> p \in c.props
    BY <1>3, <2>1, SignalType DEF Mentions, Mirror!Signal, Mirror!Known
  <2>3. DOMAIN s.values \cap s.invalidated = {} /\ \A p \in DOMAIN s.values : s.values[p] = remote'[p]
    BY <1>1 DEF Mirror!Signal, Mirror!Known
  <2> HIDE DEF s
  <2>4. /\ signals' \in Seq(Mirror!Signals)
        /\ \A i \in DOMAIN signals' : DOMAIN signals'[i].values \cap signals'[i].invalidated = {}
        /\ LastIsTrue'
    BY <1>1, <1>5, <2>2, <2>3, TellKeeps
  <2>5. \A p : Told(p)' <=> Told(p) \/ p \in c.props
    BY <1>5, <2>2, Tells DEF Mirror!TypeOK
  <2>6. WrittenIsShown'
    BY <1>1, <1>4, <2>5 DEF WrittenIsShown
  <2>7. QuietIsTrue'
    BY <1>1, <1>4, <1>5, <2>5 DEF QuietIsTrue
  <2> QED
    BY <1>1, <1>2, <1>5, <2>4, <2>6, <2>7 DEF Mirror!TypeOK, WellFormed
<1>6. CASE refused' = refused \cup c.props /\ UNCHANGED signals
  <2>1. \A p : Told(p)' <=> Told(p)
    BY <1>6 DEF Told, Mentions
  <2>2. LastIsTrue'
    BY <1>1, <1>6 DEF LastIsTrue, LastTold, Mentions
  <2>3. WrittenIsShown'
    <3> SUFFICES ASSUME NEW p \in Properties, NEW i \in DOMAIN calls', LastAsked(i, p)',
                        calls'[i].kind = "Set", ~Told(p)'
                 PROVE  local'[p] \in {calls'[i].value, remote'[p]}
      BY DEF WrittenIsShown
    <3> QED
      BY <1>1, <1>4, <2>1 DEF WrittenIsShown
  <2>4. QuietIsTrue'
    BY <1>1, <1>4, <1>6, <2>1 DEF QuietIsTrue
  <2>5. Mirror!TypeOK'
    BY <1>1, <1>2, <1>3, <1>6 DEF Mirror!TypeOK
  <2> QED
    BY <1>2, <1>6, <2>2, <2>3, <2>4, <2>5 DEF WellFormed
<1> QED
  BY <1>5, <1>6 DEF Mirror!RemoteReads, c

LEMMA RemoteWritesKeeps == MirrorInv /\ Mirror!RemoteWrites => MirrorInv'
<1> SUFFICES ASSUME MirrorInv, Mirror!RemoteWrites PROVE MirrorInv'
  OBVIOUS
<1> USE DEF MirrorInv
<1> DEFINE c == Head(calls)
<1>1. calls # <<>> /\ calls' = Tail(calls) /\ UNCHANGED local /\ c.kind = "Set"
  BY DEF Mirror!RemoteWrites
<1>2. /\ calls' \in Seq(Mirror!Calls) /\ c \in Mirror!Calls /\ calls[1] = c /\ 1 \in DOMAIN calls
      /\ \A i \in DOMAIN calls' : calls'[i].kind = "Set" => calls'[i].value \in Values
      /\ c.value \in Values
  BY <1>1, CallRead
<1>3. c.props \in SUBSET Properties
  BY <1>2 DEF Mirror!Calls
<1> HIDE DEF c
<1>4. \A p : /\ Asked(p) <=> Asked(p)' \/ p \in c.props
             /\ ~Asked(p)' /\ p \in c.props => LastAsked(1, p)
             /\ \A i \in DOMAIN calls' : LastAsked(i, p)' =>
                  i + 1 \in DOMAIN calls /\ calls'[i] = calls[i + 1] /\ LastAsked(i + 1, p)
  BY <1>1, Answers DEF Mirror!TypeOK, c
<1> DEFINE Takes_ == remote' = [p \in Properties |-> IF p \in c.props THEN c.value ELSE remote[p]]
<1>5. ASSUME Takes_ PROVE remote' \in [Properties -> Values]
  BY <1>2, <1>5 DEF Mirror!TypeOK
<1>6. ASSUME Takes_, UNCHANGED refused, NEW tells \in {{}, c.props},
             signals' = Append(signals, Mirror!Signal([p \in tells |-> c.value], c.props \ tells))
      PROVE  MirrorInv'
  <2> DEFINE s == Mirror!Signal([p \in tells |-> c.value], c.props \ tells)
  <2>1. s \in Mirror!Signals /\ \A p : Mentions(s, p) <=> p \in c.props
    <3>1. tells \in SUBSET Properties /\ tells \subseteq c.props /\ c.props \ tells \in SUBSET Properties
      BY <1>3
    <3>2. [p \in tells |-> c.value] \in [tells -> Values]
      BY <1>2
    <3> QED
      BY <3>1, <3>2, SignalType DEF Mentions, Mirror!Signal
  <2>2. DOMAIN s.values \cap s.invalidated = {} /\ \A p \in DOMAIN s.values : s.values[p] = remote'[p]
    BY <1>3, <1>6 DEF Mirror!Signal
  <2>3. signals' = Append(signals, s)
    BY <1>6
  <2> HIDE DEF s
  <2>4. \A p \in Properties : ~Mentions(s, p) => remote'[p] = remote[p]
    BY <1>6, <2>1
  <2>5. /\ signals' \in Seq(Mirror!Signals)
        /\ \A i \in DOMAIN signals' : DOMAIN signals'[i].values \cap signals'[i].invalidated = {}
        /\ LastIsTrue'
    BY <2>1, <2>2, <2>3, <2>4, TellKeeps
  <2>6. \A p : Told(p)' <=> Told(p) \/ p \in c.props
    BY <2>1, <2>3, Tells DEF Mirror!TypeOK
  <2>7. WrittenIsShown'
    BY <1>1, <1>4, <2>1, <2>4, <2>6 DEF WrittenIsShown
  <2>8. QuietIsTrue'
    BY <1>1, <1>4, <1>6, <2>1, <2>4, <2>6 DEF QuietIsTrue
  <2> QED
    BY <1>1, <1>2, <1>5, <1>6, <2>5, <2>7, <2>8 DEF Mirror!TypeOK, WellFormed
<1>7. ASSUME UNCHANGED <<remote, signals>>, refused' \in SUBSET Properties,
             \A p \in c.props \ refused' : remote[p] = c.value,
             \A p \in Properties \ refused' : p \notin refused
      PROVE  MirrorInv'
  <2>1. \A p : Told(p)' <=> Told(p)
    BY <1>7 DEF Told, Mentions
  <2>2. LastIsTrue'
    BY <1>7 DEF LastIsTrue, LastTold, Mentions
  <2>3. WrittenIsShown'
    BY <1>1, <1>4, <1>7, <2>1 DEF WrittenIsShown
  <2>4. ASSUME NEW p \in Properties \ refused', ~Told(p)', ~Asked(p)' PROVE local'[p] = remote'[p]
    <3>1. CASE p \in c.props
      BY <1>1, <1>2, <1>4, <1>7, <2>1, <2>4, <3>1 DEF WrittenIsShown
    <3>2. CASE p \notin c.props
      BY <1>1, <1>4, <1>7, <2>1, <2>4, <3>2 DEF QuietIsTrue
    <3> QED
      BY <3>1, <3>2
  <2>5. QuietIsTrue'
    BY <2>4 DEF QuietIsTrue
  <2>6. Mirror!TypeOK'
    BY <1>1, <1>2, <1>7 DEF Mirror!TypeOK
  <2> QED
    BY <1>2, <1>7, <2>2, <2>3, <2>5, <2>6 DEF WellFormed
<1>8. CASE Takes_ /\ UNCHANGED <<signals, refused>> /\ remote' = remote
  <2>1. \A p \in c.props : remote[p] = c.value
    BY <1>3, <1>8
  <2> QED
    BY <1>7, <1>8, <2>1 DEF Mirror!TypeOK
<1>9. CASE refused' = refused \cup c.props /\ UNCHANGED <<remote, signals>>
  BY <1>3, <1>7, <1>9 DEF Mirror!TypeOK
<1> QED
  BY <1>6, <1>8, <1>9 DEF Mirror!RemoteWrites, c

\* The shell asks something more, and tells and shows what it did before, unless it is of
\* what it asks.
LEMMA AskKeeps ==
  ASSUME MirrorInv, NEW c \in Mirror!Calls, calls' = Append(calls, c), c.kind = "Set" => c.value \in Values,
         UNCHANGED <<remote, refused>>,
         \A p \in Properties \ c.props : (Told(p)' <=> Told(p)) /\ local'[p] = local[p],
         \A p \in c.props : c.kind = "Set" => local'[p] = c.value
  PROVE  /\ calls' \in Seq(Mirror!Calls)
         /\ \A i \in DOMAIN calls' : calls'[i].kind = "Set" => calls'[i].value \in Values
         /\ WrittenIsShown' /\ QuietIsTrue'
<1> USE DEF MirrorInv
<1>1. /\ calls' \in Seq(Mirror!Calls)
      /\ \A i \in DOMAIN calls' : (i \in DOMAIN calls /\ calls'[i] = calls[i]) \/ calls'[i] = c
  BY AppendOne DEF Mirror!TypeOK
<1>2. \A p : /\ Asked(p)' <=> Asked(p) \/ p \in c.props
             /\ \A i \in DOMAIN calls' : LastAsked(i, p)' =>
                  IF p \in c.props THEN calls'[i] = c
                  ELSE i \in DOMAIN calls /\ calls'[i] = calls[i] /\ LastAsked(i, p)
  BY Asks DEF Mirror!TypeOK
<1>3. ASSUME NEW p \in Properties, NEW i \in DOMAIN calls', LastAsked(i, p)', calls'[i].kind = "Set",
             ~Told(p)'
      PROVE  local'[p] \in {calls'[i].value, remote'[p]}
  <2>1. CASE p \in c.props
    BY <1>2, <1>3, <2>1
  <2>2. CASE p \notin c.props
    BY <1>2, <1>3, <2>2 DEF WrittenIsShown
  <2> QED
    BY <2>1, <2>2
<1>4. QuietIsTrue'
  BY <1>2 DEF QuietIsTrue
<1>5. WrittenIsShown'
  BY <1>3 DEF WrittenIsShown
<1> QED
  BY <1>1, <1>4, <1>5 DEF WellFormed

LEMMA WriteKeeps == ASSUME NEW q \in Properties, NEW v \in Values, MirrorInv, Mirror!Write(q, v) PROVE MirrorInv'
<1> USE DEF MirrorInv
<1>1. /\ local' = [local EXCEPT ![q] = v] /\ calls' = Append(calls, Mirror!Call("Set", {q}, v))
      /\ UNCHANGED <<remote, signals, refused>>
  BY DEF Mirror!Write
<1>2. Mirror!Call("Set", {q}, v) \in Mirror!Calls
  BY DEF Mirror!Call, Mirror!Calls
<1>3. local' \in [Properties -> Values \cup {Unset}] /\ local'[q] = v
      /\ \A p \in Properties : p # q => local'[p] = local[p]
  BY <1>1 DEF Mirror!TypeOK
<1>4. \A p : Told(p)' <=> Told(p)
  BY <1>1 DEF Told, Mentions
<1>5. LastIsTrue'
  BY <1>1 DEF LastIsTrue, LastTold, Mentions
<1> DEFINE c == Mirror!Call("Set", {q}, v)
<1>6. c.props = {q} /\ c.value = v
  BY DEF Mirror!Call
<1>7. calls' = Append(calls, c)
  BY <1>1
<1> HIDE DEF c
<1>8. /\ calls' \in Seq(Mirror!Calls) /\ WrittenIsShown' /\ QuietIsTrue'
      /\ \A i \in DOMAIN calls' : calls'[i].kind = "Set" => calls'[i].value \in Values
  BY <1>1, <1>2, <1>3, <1>4, <1>6, <1>7, AskKeeps DEF c
<1> QED
  BY <1>1, <1>3, <1>5, <1>8 DEF Mirror!TypeOK, WellFormed

LEMMA RequestUpdateKeeps == ASSUME NEW q \in Properties, MirrorInv, Mirror!RequestUpdate(q) PROVE MirrorInv'
<1> USE DEF MirrorInv
<1> DEFINE c == Mirror!Call("Get", {q}, Unset)
<1>1. calls' = Append(calls, c) /\ UNCHANGED <<remote, signals, local, refused>>
  BY DEF Mirror!RequestUpdate
<1>2. c \in Mirror!Calls /\ c.props = {q} /\ c.kind = "Get"
  BY DEF Mirror!Call, Mirror!Calls
<1> HIDE DEF c
<1>3. \A p : Told(p)' <=> Told(p)
  BY <1>1 DEF Told, Mentions
<1>4. LastIsTrue'
  BY <1>1 DEF LastIsTrue, LastTold, Mentions
<1>5. /\ calls' \in Seq(Mirror!Calls) /\ WrittenIsShown' /\ QuietIsTrue'
      /\ \A i \in DOMAIN calls' : calls'[i].kind = "Set" => calls'[i].value \in Values
  BY <1>1, <1>2, <1>3, AskKeeps
<1> QED
  BY <1>1, <1>4, <1>5 DEF Mirror!TypeOK, WellFormed

LEMMA OnInvalidatedKeeps == MirrorInv /\ Mirror!OnInvalidated => MirrorInv'
<1> SUFFICES ASSUME MirrorInv, Mirror!OnInvalidated PROVE MirrorInv'
  OBVIOUS
<1> USE DEF MirrorInv
<1>1. PICK q \in Head(signals).invalidated :
        /\ calls' = Append(calls, Mirror!Call("Get", {q}, Unset))
        /\ signals' = [signals EXCEPT ![1].invalidated = @ \ {q}]
  BY DEF Mirror!OnInvalidated
<1>2. signals # <<>> /\ UNCHANGED <<remote, local, refused>>
  BY DEF Mirror!OnInvalidated
<1> DEFINE c == Mirror!Call("Get", {q}, Unset)
           s == Mirror!Signal(signals[1].values, signals[1].invalidated \ {q})
<1>3. 1 \in DOMAIN signals /\ signals[1] = Head(signals) /\ signals[1] \in Mirror!Signals
  BY <1>2, TakeOne, ElementOfSeq, EmptySeq, LenProperties DEF Mirror!TypeOK
<1>4. /\ q \in Properties /\ s \in Mirror!Signals /\ signals' = [signals EXCEPT ![1] = s]
      /\ s.values = signals[1].values /\ s.invalidated = signals[1].invalidated \ {q}
  <2> DEFINE v == signals[1].values
             Q == signals[1].invalidated
  <2>1. /\ DOMAIN v \in SUBSET Properties /\ v \in [DOMAIN v -> Values]
        /\ Q \in SUBSET Properties /\ signals[1] = Mirror!Signal(v, Q)
    BY <1>3, SignalParts
  <2> HIDE DEF v, Q
  <2>2. q \in Q
    BY <1>1, <1>3 DEF Q
  <2>3. s = Mirror!Signal(v, Q \ {q})
    BY DEF v, Q
  <2>4. s = [signals[1] EXCEPT !.invalidated = @ \ {q}]
    BY <2>1, <2>3 DEF Mirror!Signal
  <2>5. s \in Mirror!Signals
    BY <2>1, <2>3, SignalType
  <2>6. signals' = [signals EXCEPT ![1] = s]
    BY <1>1, <2>4
  <2> QED
    BY <2>1, <2>2, <2>3, <2>5, <2>6 DEF Mirror!Signal, v, Q
<1>5. q \notin DOMAIN signals[1].values
  BY <1>1, <1>3 DEF WellFormed
<1>6. c \in Mirror!Calls /\ c.props = {q} /\ c.kind = "Get" /\ calls' = Append(calls, c)
  BY <1>1, <1>4 DEF Mirror!Call, Mirror!Calls
<1> HIDE DEF c, s
<1>7. /\ Mentions(signals[1], q) /\ ~Mentions(s, q)
      /\ \A p : p # q => (Mentions(s, p) <=> Mentions(signals[1], p))
  BY <1>1, <1>3, <1>4, <1>5 DEF Mentions
<1>8. \A p : /\ p # q => (Told(p)' <=> Told(p))
             /\ \A i \in DOMAIN signals' : LastTold(i, p)' => i \in DOMAIN signals /\ LastTold(i, p)
  BY <1>2, <1>4, <1>7, Takes DEF Mirror!TypeOK
<1>9. /\ signals' \in Seq(Mirror!Signals) /\ DOMAIN signals' = DOMAIN signals
      /\ \A i \in DOMAIN signals : /\ signals'[i].values = signals[i].values
                                   /\ signals'[i].invalidated \subseteq signals[i].invalidated
  BY <1>3, <1>4, ExceptSeq DEF Mirror!TypeOK
<1>10. LastIsTrue'
  BY <1>2, <1>8, <1>9 DEF LastIsTrue
<1>11. /\ calls' \in Seq(Mirror!Calls) /\ WrittenIsShown' /\ QuietIsTrue'
       /\ \A i \in DOMAIN calls' : calls'[i].kind = "Set" => calls'[i].value \in Values
  BY <1>2, <1>6, <1>8, AskKeeps
<1>12. \A i \in DOMAIN signals' : DOMAIN signals'[i].values \cap signals'[i].invalidated = {}
  BY <1>9 DEF WellFormed
<1> QED
  BY <1>2, <1>9, <1>10, <1>11, <1>12 DEF Mirror!TypeOK, WellFormed

LEMMA UpdatePropertyKeeps == MirrorInv /\ Mirror!UpdateProperty => MirrorInv'
<1> SUFFICES ASSUME MirrorInv, Mirror!UpdateProperty PROVE MirrorInv'
  OBVIOUS
<1> USE DEF MirrorInv
<1>1. PICK q \in DOMAIN Head(signals).values :
        /\ Mirror!Stored(q, Head(signals).values[q])
        /\ refused' = refused \ {q}
        /\ signals' = [signals EXCEPT ![1].values =
                         [p \in DOMAIN Head(signals).values \ {q} |-> Head(signals).values[p]]]
  BY DEF Mirror!UpdateProperty
<1>2. signals # <<>> /\ Head(signals).invalidated = {} /\ UNCHANGED <<remote, calls>>
  BY DEF Mirror!UpdateProperty
<1>3. 1 \in DOMAIN signals /\ signals[1] = Head(signals) /\ signals[1] \in Mirror!Signals
  BY <1>2, TakeOne, ElementOfSeq, EmptySeq, LenProperties DEF Mirror!TypeOK
<1>4. /\ DOMAIN signals[1].values \in SUBSET Properties
      /\ signals[1].values \in [DOMAIN signals[1].values -> Values]
      /\ q \in Properties /\ signals[1].values[q] \in Values
  BY <1>1, <1>3, SignalParts
<1> DEFINE rest == [p \in DOMAIN signals[1].values \ {q} |-> signals[1].values[p]]
           s == Mirror!Signal(rest, {})
<1>5. s \in Mirror!Signals
  <2>1. rest \in [DOMAIN signals[1].values \ {q} -> Values]
    BY <1>4
  <2>2. DOMAIN signals[1].values \ {q} \in SUBSET Properties
    BY <1>4
  <2> HIDE DEF rest
  <2> QED
    BY <2>1, <2>2, SignalType
<1>6. /\ DOMAIN s.values = DOMAIN signals[1].values \ {q} /\ s.invalidated = {}
      /\ \A p \in DOMAIN s.values : s.values[p] = signals[1].values[p]
  BY DEF Mirror!Signal
<1>7. signals' = [signals EXCEPT ![1] = s]
  <2>1. s = [signals[1] EXCEPT !.values = rest]
    <3>1. signals[1] = Mirror!Signal(signals[1].values, {})
      BY <1>2, <1>3, SignalParts
    <3> QED
      BY <3>1 DEF Mirror!Signal
  <2>2. signals' = [signals EXCEPT ![1].values = rest]
    BY <1>1, <1>3
  <2> HIDE DEF s, rest
  <2> QED
    BY <2>1, <2>2
<1> HIDE DEF s, rest
<1>8. /\ Mentions(signals[1], q) /\ ~Mentions(s, q)
      /\ \A p : p # q => (Mentions(s, p) <=> Mentions(signals[1], p))
  BY <1>1, <1>2, <1>3, <1>6 DEF Mentions
<1>9. /\ ~Told(q)' => LastTold(1, q)
      /\ \A p : /\ p # q => (Told(p)' <=> Told(p))
                /\ \A i \in DOMAIN signals' : LastTold(i, p)' =>
                     i \in DOMAIN signals /\ LastTold(i, p) /\ (i = 1 => p # q)
  BY <1>2, <1>7, <1>8, Takes DEF Mirror!TypeOK
<1>10. /\ signals' \in Seq(Mirror!Signals) /\ DOMAIN signals' = DOMAIN signals
       /\ \A i \in DOMAIN signals : signals'[i] = IF i = 1 THEN s ELSE signals[i]
  BY <1>3, <1>5, <1>7, ExceptSeq DEF Mirror!TypeOK
<1>11. /\ local' \in [Properties -> Values \cup {Unset}]
       /\ local'[q] = signals[1].values[q]
       /\ \A p \in Properties : p # q => local'[p] = local[p]
  BY <1>1, <1>3, <1>4 DEF Mirror!Stored, Mirror!TypeOK
<1>12. ASSUME ~Told(q)' PROVE local'[q] = remote'[q]
  <2>1. LastTold(1, q) /\ q \in DOMAIN signals[1].values
    BY <1>1, <1>3, <1>9, <1>12
  <2>2. signals[1].values[q] = remote[q]
    BY <1>3, <1>4, <2>1 DEF LastIsTrue
  <2> QED
    BY <1>2, <1>11, <2>2
<1>13. LastIsTrue'
  <2> SUFFICES ASSUME NEW p \in Properties, NEW i \in DOMAIN signals', LastTold(i, p)',
                      p \in DOMAIN signals'[i].values
               PROVE  signals'[i].values[p] = remote'[p]
    BY DEF LastIsTrue
  <2>1. i \in DOMAIN signals /\ LastTold(i, p) /\ (i = 1 => p # q)
    BY <1>9
  <2>2. p \in DOMAIN signals[i].values /\ signals'[i].values[p] = signals[i].values[p]
    BY <1>6, <1>10, <2>1
  <2>3. signals[i].values[p] = remote[p]
    BY <2>1, <2>2 DEF LastIsTrue
  <2> QED BY <1>2, <2>2, <2>3
<1>14. \A p : /\ Asked(p)' <=> Asked(p)
              /\ \A i \in DOMAIN calls : LastAsked(i, p)' <=> LastAsked(i, p)
  BY <1>2 DEF Asked, LastAsked
<1>15. WrittenIsShown'
  BY <1>2, <1>9, <1>11, <1>12, <1>14 DEF WrittenIsShown
<1>16. QuietIsTrue'
  BY <1>1, <1>2, <1>9, <1>11, <1>12, <1>14 DEF QuietIsTrue
<1>17. \A i \in DOMAIN signals' : DOMAIN signals'[i].values \cap signals'[i].invalidated = {}
  BY <1>6, <1>10 DEF WellFormed
<1>18. Mirror!TypeOK'
  BY <1>1, <1>2, <1>10, <1>11 DEF Mirror!TypeOK
<1> QED
  BY <1>2, <1>13, <1>15, <1>16, <1>17, <1>18 DEF WellFormed

LEMMA UpdatedKeeps == MirrorInv /\ Mirror!Updated => MirrorInv'
<1> SUFFICES ASSUME MirrorInv, Mirror!Updated PROVE MirrorInv'
  OBVIOUS
<1> USE DEF MirrorInv
<1>1. /\ signals # <<>> /\ signals' = Tail(signals) /\ UNCHANGED <<remote, calls, local, refused>>
      /\ Head(signals).invalidated = {} /\ DOMAIN Head(signals).values = {}
  BY DEF Mirror!Updated
<1>2. /\ signals' \in Seq(Mirror!Signals) /\ signals[1] = Head(signals)
      /\ \A i \in DOMAIN signals' : i + 1 \in DOMAIN signals /\ signals'[i] = signals[i + 1]
  BY <1>1, TakeOne DEF Mirror!TypeOK
<1>3. \A p : ~Mentions(signals[1], p)
  BY <1>1, <1>2 DEF Mentions
<1>4. \A p : /\ Told(p)' <=> Told(p)
             /\ \A i \in DOMAIN signals' : LastTold(i, p)' =>
                  i + 1 \in DOMAIN signals /\ signals'[i] = signals[i + 1] /\ LastTold(i + 1, p)
  BY <1>1, <1>3, Drops DEF Mirror!TypeOK
<1>5. LastIsTrue'
  BY <1>1, <1>4 DEF LastIsTrue
<1>6. \A p : /\ Asked(p)' <=> Asked(p)
             /\ \A i \in DOMAIN calls : LastAsked(i, p)' <=> LastAsked(i, p)
  BY <1>1 DEF Asked, LastAsked
<1>7. WrittenIsShown' /\ QuietIsTrue'
  BY <1>1, <1>4, <1>6 DEF WrittenIsShown, QuietIsTrue
<1>8. WellFormed' /\ Mirror!TypeOK'
  BY <1>1, <1>2 DEF WellFormed, Mirror!TypeOK
<1> QED
  BY <1>5, <1>7, <1>8

LEMMA NextMirrorInv == MirrorInv /\ [Mirror!Next]_(Mirror!propertyVars) => MirrorInv'
<1>1. MirrorInv /\ UNCHANGED Mirror!propertyVars => MirrorInv'
  BY DEF MirrorInv, Mirror!propertyVars, Mirror!TypeOK, WellFormed, LastIsTrue, WrittenIsShown,
         QuietIsTrue,
         LastTold, Told, Mentions, Asked, LastAsked
<1> QED
  BY <1>1, RemoteChangesKeeps, RemoteReadsKeeps, RemoteWritesKeeps, WriteKeeps,
     RequestUpdateKeeps,
     OnInvalidatedKeeps, UpdatePropertyKeeps, UpdatedKeeps DEF Mirror!Next

LEMMA MirrorInvariance == Mirror!Spec => []MirrorInv
BY InitMirrorInv, NextMirrorInv, PTL DEF Mirror!Spec

\* When nothing is on its way a property shows the value the program has, unless a call
\* about it failed since it was last heard of (properties.cpp:172, :268, :331): however many
\* writes, changes and answers cross, also of several properties in one message.
THEOREM AtRestMirrored == Spec => []MirrorsRemote
<1>1. MirrorInv => MirrorsRemote
  <2> SUFFICES ASSUME MirrorInv, calls = <<>>, signals = <<>>, NEW p \in Properties \ refused
               PROVE  local[p] = remote[p]
    BY DEF MirrorsRemote, Mirror!MirrorsRemote
  <2>1. ~Told(p) /\ ~Asked(p)
    BY DEF Told, Asked
  <2> QED
    BY <2>1 DEF MirrorInv, QuietIsTrue
<1> QED
  BY <1>1, MirrorSteps, MirrorInvariance, PTL
-----------------------------------------------------------------------------
(* The socket and its server                                                 *)

LEMMA SocketSteps == Spec => Socket!Spec
<1>1. Init => Socket!Init
  BY DEF Init
<1>2. [Next]_vars => [Socket!Next]_(Socket!socketVars)
  BY DEF Next, Streams, Others, vars, streamVars, socketVars, Socket!socketVars
<1> QED BY <1>1, <1>2, PTL DEF Spec, Socket!Spec

LEMMA ServerSteps == Spec => Socket!InitServers /\ [][Socket!NextServers]_(Socket!serverVars)
<1>1. Init => Socket!InitServers
  BY DEF Init
<1>2. [Next]_vars => [Socket!NextServers]_(Socket!serverVars)
  BY DEF Next, Streams, Others, vars, streamVars, serverVars, Socket!serverVars
<1> QED BY <1>1, <1>2, PTL DEF Spec

\* TargetIsServed of a socket at every moment, also in the handlers of a disconnection: what was
\* wished is the target while there is no socket or it is being closed, and such a target is left
\* to a handler's end only.
SocketType ==
  /\ socket \in [st : {"none", "opening", "open", "refused", "closing"}, path : SocketPaths \cup {NoSocketPath}]
  /\ socket.st = "none" => socket = Socket!NoSocket
  /\ path \in SocketPaths \cup {NoSocketPath}
  /\ connected \in BOOLEAN /\ targetConnected \in BOOLEAN /\ disconnecting \in BOOLEAN
  /\ dropping \in BOOLEAN /\ wished \in BOOLEAN /\ usual \in BOOLEAN
WishIsTarget ==
  /\ connected <=> socket.st \in {"open", "closing"}
  /\ disconnecting <=> socket.st = "closing"
  /\ socket.st # "refused"
  /\ targetConnected => wished
  /\ socket.st \in {"none", "closing"} => (wished => targetConnected)
  /\ socket.st \in {"open", "opening"} => wished
  /\ targetConnected /\ socket.st = "none" /\ path # NoSocketPath => dropping
  /\ targetConnected /\ dropping => socket.st \in {"none", "opening"}

SocketInv == SocketType /\ (usual => WishIsTarget)

LEMMA InitSocketInv == Socket!Init => SocketInv
<1> SUFFICES ASSUME Socket!Init PROVE SocketInv
  OBVIOUS
<1>1. SocketType
  BY DEF Socket!Init, Socket!NoSocket, SocketType
<1>2. socket.st = "none"
  BY DEF Socket!Init, Socket!NoSocket
<1>3. WishIsTarget
  BY <1>2 DEF Socket!Init, WishIsTarget
<1> QED BY <1>1, <1>3 DEF SocketInv

\* connectPathSocket(): the new socket is open or opening, or refused.
LEMMA ConnectType ==
  ASSUME SocketInv, NEW p \in SocketPaths \cup {NoSocketPath}, Socket!ConnectPathSocket(p, TRUE),
         wished' \in BOOLEAN, path' \in SocketPaths \cup {NoSocketPath}, dropping' \in BOOLEAN
  PROVE  /\ SocketType'
         /\ \/ /\ socket'.st = "open" /\ connected' = TRUE /\ targetConnected' = FALSE
               /\ disconnecting' = FALSE /\ UNCHANGED usual
            \/ /\ socket'.st = "opening" /\ targetConnected' = TRUE
               /\ UNCHANGED <<connected, disconnecting, usual>>
            \/ usual' = FALSE
         /\ ~usual => ~usual'
<1>1. PICK st \in {"open", "opening", "refused"} : socket' = [st |-> st, path |-> p]
  BY DEF Socket!ConnectPathSocket
<1>2. socket'.st = st /\ socket' \in [st : {"none", "opening", "open", "refused", "closing"},
                                      path : SocketPaths \cup {NoSocketPath}]
  BY <1>1
<1>3. /\ connected' \in BOOLEAN /\ targetConnected' \in BOOLEAN /\ disconnecting' \in BOOLEAN
      /\ usual' \in BOOLEAN /\ (~usual => ~usual')
  <2>1. connected \in BOOLEAN /\ targetConnected \in BOOLEAN /\ disconnecting \in BOOLEAN /\ usual \in BOOLEAN
    BY DEF SocketInv, SocketType
  <2>2. CASE connected' = TRUE /\ targetConnected' = FALSE /\ disconnecting' = FALSE /\ UNCHANGED usual
    BY <2>1, <2>2
  <2>3. CASE targetConnected' = TRUE /\ UNCHANGED <<connected, disconnecting, usual>>
    BY <2>1, <2>3
  <2>4. CASE targetConnected' = TRUE /\ usual' = FALSE /\ UNCHANGED <<connected, disconnecting>>
    BY <2>1, <2>4
  <2> QED BY <2>2, <2>3, <2>4 DEF Socket!ConnectPathSocket
<1>4. SocketType'
  BY <1>2, <1>3 DEF SocketType, Socket!NoSocket
<1> QED BY <1>3, <1>4 DEF Socket!ConnectPathSocket

LEMMA ConnectKeeps ==
  ASSUME SocketInv, NEW p \in SocketPaths \cup {NoSocketPath}, Socket!ConnectPathSocket(p, TRUE),
         wished' \in BOOLEAN, usual => ~connected /\ ~disconnecting /\ wished',
         path' \in SocketPaths \cup {NoSocketPath}, dropping' \in BOOLEAN
  PROVE  SocketInv'
<1>1. SocketType' /\ (~usual => ~usual')
  BY ConnectType
<1>2. CASE usual /\ socket'.st = "open" /\ connected' = TRUE /\ targetConnected' = FALSE /\ disconnecting' = FALSE
  BY <1>1, <1>2 DEF SocketInv, WishIsTarget
<1>3. CASE usual /\ socket'.st = "opening" /\ targetConnected' = TRUE /\ UNCHANGED <<connected, disconnecting, usual>>
  BY <1>1, <1>3 DEF SocketInv, SocketType, WishIsTarget
<1>4. CASE ~usual \/ usual' = FALSE
  BY <1>1, <1>4 DEF SocketInv
<1> QED BY <1>2, <1>3, <1>4, ConnectType

LEMMA NextSocketInv == ASSUME SocketInv, [Socket!Next]_(Socket!socketVars) PROVE SocketInv'
<1>1. ASSUME NEW p \in SocketPaths \cup {NoSocketPath}, Socket!SetPath(p) PROVE SocketInv'
  <2>1. path' = p /\ UNCHANGED <<dropping, wished>> /\ (connected => disconnecting)
    BY <1>1 DEF Socket!SetPath
  <2>2. CASE targetConnected /\ Socket!None /\ p # NoSocketPath /\ Socket!ConnectPathSocket(p, TRUE)
    <3>1. socket.st = "none"
      BY <2>2 DEF Socket!None, Socket!NoSocket
    <3>2. usual => ~connected /\ ~disconnecting /\ wished'
      BY <2>1, <2>2, <3>1 DEF SocketInv, SocketType, WishIsTarget
    <3> QED BY <2>1, <2>2, <3>2, ConnectKeeps DEF SocketInv, SocketType
  <2>3. CASE /\ ~(targetConnected /\ Socket!None /\ p # NoSocketPath)
             /\ UNCHANGED <<socket, connected, targetConnected, disconnecting, usual>>
    <3>1. socket.st = "none" => Socket!None
      BY DEF SocketInv, SocketType, Socket!None
    <3> QED BY <2>1, <2>3, <3>1 DEF SocketInv, SocketType, WishIsTarget, Socket!NoSocket
  <2> QED BY <1>1, <2>2, <2>3 DEF Socket!SetPath
<1>2. CASE Socket!Connect
  <2>1. wished' = TRUE /\ UNCHANGED <<path, dropping>>
    BY <1>2 DEF Socket!Connect
  <2>2. CASE Socket!None /\ path # NoSocketPath /\ Socket!ConnectPathSocket(path, TRUE)
    <3>1. socket.st = "none"
      BY <2>2 DEF Socket!None, Socket!NoSocket
    <3>2. usual => ~connected /\ ~disconnecting /\ wished'
      BY <2>1, <3>1 DEF SocketInv, WishIsTarget
    <3> QED BY <2>1, <2>2, <3>2, ConnectKeeps DEF SocketInv, SocketType
  <2>3. CASE /\ ~(Socket!None /\ path # NoSocketPath) /\ targetConnected' = TRUE
             /\ usual' = (usual /\ (dropping => Socket!None))
             /\ UNCHANGED <<socket, connected, disconnecting>>
    <3>1. socket.st = "none" <=> Socket!None
      BY DEF SocketInv, SocketType, Socket!None, Socket!NoSocket
    <3>2. SocketType'
      BY <2>1, <2>3 DEF SocketInv, SocketType, Socket!NoSocket
    <3> QED BY <2>1, <2>3, <3>1, <3>2 DEF SocketInv, SocketType, WishIsTarget
  <2> QED BY <1>2, <2>2, <2>3 DEF Socket!Connect
<1>3. CASE Socket!Disconnect
  <2>1. socket.st = "none" <=> Socket!None
    BY DEF SocketInv, SocketType, Socket!None, Socket!NoSocket
  <2>2. SocketType'
    BY <1>3 DEF SocketInv, SocketType, Socket!NoSocket, Socket!Disconnect
  <2> QED BY <1>3, <2>1, <2>2 DEF SocketInv, SocketType, WishIsTarget, Socket!Disconnect
<1>4. CASE Socket!Disconnected /\ ~dropping /\ wished' = targetConnected' /\ UNCHANGED <<path, usual>>
           /\ targetConnected' \in BOOLEAN
  <2>1. socket'.st = "none" /\ socket' \in [st : {"none", "opening", "open", "refused", "closing"},
                                            path : SocketPaths \cup {NoSocketPath}]
    BY <1>4 DEF Socket!Disconnected, Socket!NoSocket
  <2>2. SocketType'
    BY <1>4, <2>1 DEF SocketInv, SocketType, Socket!NoSocket, Socket!Disconnected
  <2> QED BY <1>4, <2>1, <2>2 DEF SocketInv, WishIsTarget, Socket!Disconnected
<1>5. CASE Socket!DisconnectOpen
  <2>1. CASE ~dropping /\ Socket!Disconnected
    BY <1>4, <1>5, <2>1 DEF Socket!DisconnectOpen
  <2>2. CASE socket' = [socket EXCEPT !.st = "closing"] /\ disconnecting' = TRUE /\ UNCHANGED <<connected, dropping>>
    <3>1. /\ socket'.st = "closing" /\ socket.st = "open" /\ wished' = FALSE /\ targetConnected' = FALSE
          /\ UNCHANGED <<path, usual>>
          /\ socket' \in [st : {"none", "opening", "open", "refused", "closing"},
                          path : SocketPaths \cup {NoSocketPath}]
      BY <1>5, <2>2 DEF Socket!DisconnectOpen, SocketInv, SocketType
    <3>2. SocketType'
      BY <2>2, <3>1 DEF SocketInv, SocketType
    <3> QED BY <2>2, <3>1, <3>2 DEF SocketInv, WishIsTarget
  <2> QED BY <1>5, <2>1, <2>2 DEF Socket!DisconnectOpen
<1>6. CASE Socket!OnSocketConnected
  <2>1. /\ socket'.st = "open" /\ socket.st = "opening"
        /\ socket' \in [st : {"none", "opening", "open", "refused", "closing"},
                        path : SocketPaths \cup {NoSocketPath}]
    BY <1>6 DEF Socket!OnSocketConnected, SocketInv, SocketType
  <2>2. SocketType'
    BY <1>6, <2>1 DEF Socket!OnSocketConnected, SocketInv, SocketType
  <2> QED BY <1>6, <2>1, <2>2 DEF Socket!OnSocketConnected, SocketInv, WishIsTarget
<1>7. CASE Socket!OnSocketDisconnected
  BY <1>4, <1>7 DEF Socket!OnSocketDisconnected, SocketInv, SocketType
<1>8. CASE Socket!Reconnect
  <2>1. dropping /\ dropping' = FALSE /\ UNCHANGED <<path, wished>>
    BY <1>8 DEF Socket!Reconnect
  <2>2. CASE targetConnected /\ path # NoSocketPath /\ Socket!ConnectPathSocket(path, TRUE)
    <3>1. usual => ~connected /\ ~disconnecting /\ wished'
      BY <2>1, <2>2 DEF SocketInv, SocketType, WishIsTarget
    <3> QED BY <2>1, <2>2, <3>1, ConnectKeeps DEF SocketInv, SocketType
  <2>3. CASE /\ ~(targetConnected /\ path # NoSocketPath)
             /\ UNCHANGED <<socket, connected, targetConnected, disconnecting, usual>>
    BY <2>1, <2>3 DEF SocketInv, SocketType, WishIsTarget, Socket!NoSocket
  <2> QED BY <1>8, <2>2, <2>3 DEF Socket!Reconnect
<1>9. CASE UNCHANGED Socket!socketVars
  BY <1>9 DEF Socket!socketVars, SocketInv, SocketType, WishIsTarget, Socket!NoSocket
<1> QED BY <1>1, <1>2, <1>3, <1>5, <1>6, <1>7, <1>8, <1>9 DEF Socket!Next

LEMMA SocketIsServed == Spec => []Socket!TargetIsServed
<1>1. SocketInv => Socket!TargetIsServed
  BY DEF SocketInv, SocketType, WishIsTarget, Socket!TargetIsServed
<1>2. SocketInv /\ [Socket!Next]_(Socket!socketVars) => SocketInv'
  BY NextSocketInv
<1> QED BY <1>1, <1>2, InitSocketInv, SocketSteps, PTL DEF Socket!Spec

\* The servers of the generations.
Server == [life : {"none", "made", "served", "gone"}, active : BOOLEAN, activeTarget : BOOLEAN,
           mPath : SocketPaths \cup {NoSocketPath}, activePath : SocketPaths \cup {NoSocketPath},
           handler : BOOLEAN, clients : Nat, wanted : BOOLEAN, excused : BOOLEAN]
ServerType == /\ srv \in [Socket!Servers -> Server] /\ file \in [SocketPaths -> Socket!Servers \cup {0}]
              /\ strayed \in BOOLEAN
\* They come one after the other, each in the presence of the former.
InTurn(ss) ==
  \A i \in Socket!Servers : ss[i].life \in {"none", "made"} =>
    /\ \A j \in Socket!Servers : j > i => ss[j].life = "none"
    /\ ss[i].life = "made" /\ i > 1 => ss[i - 1].life = "served"
\* Only one that serves listens, at a path, and a file there is of one that does.
FileIsListened(ss, ff) ==
  /\ \A i \in Socket!Servers : ss[i].active => ss[i].life = "served" /\ ss[i].activePath \in SocketPaths
  /\ \A p \in SocketPaths : ff[p] # 0 => ss[ff[p]].active /\ ss[ff[p]].activePath = p
\* The one that listens is that of the last generation.
Last(ss, i) == \A j \in Socket!Servers : j > i => ss[j].life # "served"
LastListens(ss, ff) == \A i \in Socket!Servers : ss[i].active => ff[ss[i].activePath] = i /\ Last(ss, i)
\* A server that was told to listen and has not tried does not have what it needs.
Untried(s)  == s.life \in {"made", "served"} /\ s.wanted /\ ~s.excused /\ ~s.active
IsTarget(s) == s.active \/ s.activeTarget => s.wanted
Tries(s)    == Untried(s) => s.activeTarget /\ (s.life = "served" => s.mPath = NoSocketPath \/ ~s.handler)
WantedIsTarget(ss) == \A i \in Socket!Servers : IsTarget(ss[i]) /\ (Last(ss, i) => Tries(ss[i]))

ServerInv == /\ ServerType /\ InTurn(srv) /\ FileIsListened(srv, file)
             /\ (~strayed => LastListens(srv, file)) /\ WantedIsTarget(srv)

LEMMA ServerInvPrimed ==
  ASSUME srv' \in [Socket!Servers -> Server], file' \in [SocketPaths -> Socket!Servers \cup {0}],
         strayed' \in BOOLEAN, InTurn(srv'), FileIsListened(srv', file'),
         ~strayed' => LastListens(srv', file'), WantedIsTarget(srv')
  PROVE  ServerInv'
BY DEF ServerInv, ServerType, InTurn, FileIsListened, LastListens, Last, WantedIsTarget, IsTarget, Tries, Untried

LEMMA InitServerInv == Socket!InitServers => ServerInv
<1> SUFFICES ASSUME Socket!InitServers PROVE ServerInv
  OBVIOUS
<1>1. Socket!NewServer \in Server /\ Socket!NewServer.life = "none" /\ ~Socket!NewServer.active
      /\ ~Socket!NewServer.activeTarget
  BY DEF Socket!NewServer, Server
<1>2. srv = [i \in Socket!Servers |-> Socket!NewServer] /\ file = [p \in SocketPaths |-> 0] /\ strayed = FALSE
  BY DEF Socket!InitServers
<1>3. \A i \in Socket!Servers : srv[i] = Socket!NewServer
  BY <1>2
<1>4. ServerType
  BY <1>1, <1>2 DEF ServerType
<1>5. InTurn(srv) /\ FileIsListened(srv, file) /\ LastListens(srv, file) /\ WantedIsTarget(srv)
  BY <1>1, <1>2, <1>3 DEF InTurn, FileIsListened, LastListens, WantedIsTarget, IsTarget, Tries, Untried
<1> QED BY <1>4, <1>5 DEF ServerInv

-----------------------------------------------------------------------------
\* Of these servers number i becomes s.
LEMMA ServerChanges ==
  ASSUME NEW ss \in [Socket!Servers -> Server], NEW i \in Socket!Servers, NEW s \in Server,
         NEW new, new = [ss EXCEPT ![i] = s]
  PROVE  /\ new \in [Socket!Servers -> Server] /\ new[i] = s
         /\ \A j \in Socket!Servers : j # i => new[j] = ss[j]
OBVIOUS

LEMMA Neighbours ==
  ASSUME NEW i \in Socket!Servers
  PROVE  /\ i \in Nat /\ i > 0 /\ (i > 1 => i - 1 \in Socket!Servers)
         /\ \A j \in Socket!Servers : j \in Nat /\ (j > i \/ j = i \/ j < i)
         /\ i # 0
BY ServersAreNumbered DEF Socket!Servers

\* Server i changes, and neither starts nor stops to listen or to serve.
LEMMA StaysAsItWas ==
  ASSUME NEW ss \in [Socket!Servers -> Server], NEW ff \in [SocketPaths -> Socket!Servers \cup {0}],
         InTurn(ss), FileIsListened(ss, ff), NEW i \in Socket!Servers, NEW s \in Server,
         NEW new, new = [ss EXCEPT ![i] = s],
         s.life = ss[i].life, s.active = ss[i].active, s.activePath = ss[i].activePath
  PROVE  /\ new \in [Socket!Servers -> Server] /\ InTurn(new) /\ FileIsListened(new, ff)
         /\ LastListens(ss, ff) => LastListens(new, ff)
         /\ WantedIsTarget(ss) /\ IsTarget(s) /\ (Last(ss, i) => Tries(s)) => WantedIsTarget(new)
         /\ \A k \in Socket!Servers : /\ Last(new, k) <=> Last(ss, k)
                                      /\ k # i => new[k] = ss[k]
         /\ new[i] = s
<1>1. /\ new \in [Socket!Servers -> Server] /\ new[i] = s
      /\ \A j \in Socket!Servers : j # i => new[j] = ss[j]
  BY ServerChanges
<1>2. \A j \in Socket!Servers : /\ new[j].life = ss[j].life /\ new[j].active = ss[j].active
                                /\ new[j].activePath = ss[j].activePath
  BY <1>1
<1>3. \A k \in Socket!Servers : Last(new, k) <=> Last(ss, k)
  BY <1>2 DEF Last
<1>4. InTurn(new)
  <2>1. \A j \in Socket!Servers : j > 1 => new[j - 1].life = ss[j - 1].life
    BY <1>2, Neighbours
  <2> QED BY <1>2, <2>1 DEF InTurn
<1>5. FileIsListened(new, ff)
  <2>1. \A p \in SocketPaths : ff[p] # 0 => ff[p] \in Socket!Servers
    OBVIOUS
  <2> QED BY <1>2, <2>1 DEF FileIsListened
<1>6. LastListens(ss, ff) => LastListens(new, ff)
  BY <1>2, <1>3 DEF LastListens
<1>7. ASSUME WantedIsTarget(ss), IsTarget(s), Last(ss, i) => Tries(s), NEW k \in Socket!Servers
      PROVE  IsTarget(new[k]) /\ (Last(new, k) => Tries(new[k]))
  <2>1. CASE k = i
    BY <1>1, <1>3, <1>7, <2>1
  <2>2. CASE k # i
    BY <1>1, <1>3, <1>7, <2>2 DEF WantedIsTarget
  <2> QED BY <2>1, <2>2
<1>8. WantedIsTarget(ss) /\ IsTarget(s) /\ (Last(ss, i) => Tries(s)) => WantedIsTarget(new)
  BY <1>7 DEF WantedIsTarget
<1> QED BY <1>1, <1>3, <1>4, <1>5, <1>6, <1>8

\* The file of server i is removed: the others' stay, if it was its own.
LEMMA FileLeft ==
  ASSUME NEW ss \in [Socket!Servers -> Server], NEW ff \in [SocketPaths -> Socket!Servers \cup {0}],
         FileIsListened(ss, ff), NEW i \in Socket!Servers
  PROVE  /\ Socket!FileRemoved(ss[i], ff) \in [SocketPaths -> Socket!Servers \cup {0}]
         /\ \A p \in SocketPaths : Socket!FileRemoved(ss[i], ff)[p] # 0 =>
              ff[p] # i /\ Socket!FileRemoved(ss[i], ff)[p] = ff[p] /\ ff[p] \in Socket!Servers
         /\ (ss[i].active => ff[ss[i].activePath] = i) =>
              \A k \in Socket!Servers :
                (k # i /\ ss[k].active /\ ff[ss[k].activePath] = k) =>
                  Socket!FileRemoved(ss[i], ff)[ss[k].activePath] = k
<1> DEFINE left == Socket!FileRemoved(ss[i], ff)
<1>1. \A k \in Socket!Servers : ss[k].active => ss[k].activePath \in SocketPaths
  BY DEF FileIsListened
<1>2. CASE ss[i].active
  <2> DEFINE q == ss[i].activePath
  <2>1. left = [ff EXCEPT ![q] = 0] /\ q \in SocketPaths
    BY <1>1, <1>2 DEF Socket!FileRemoved
  <2> HIDE DEF q, left
  <2>2. left \in [SocketPaths -> Socket!Servers \cup {0}] /\ left[q] = 0
        /\ \A p \in SocketPaths : p # q => left[p] = ff[p]
    BY <2>1
  <2>3. \A p \in SocketPaths : left[p] # 0 => left[p] = ff[p] /\ p # q /\ ff[p] \in Socket!Servers
    BY <2>2
  <2>4. \A p \in SocketPaths : left[p] # 0 => ff[p] # i
    BY <2>3 DEF FileIsListened, q
  <2>5. ASSUME ff[q] = i, NEW k \in Socket!Servers, k # i, ss[k].active, ff[ss[k].activePath] = k
        PROVE  left[ss[k].activePath] = k
    <3>1. ss[k].activePath # q /\ ss[k].activePath \in SocketPaths
      BY <1>1, <2>5
    <3> QED BY <2>2, <2>5, <3>1
  <2> QED BY <1>2, <2>2, <2>3, <2>4, <2>5 DEF q, left
<1>3. CASE ~ss[i].active
  <2>1. left = ff
    BY <1>3 DEF Socket!FileRemoved
  <2>2. \A p \in SocketPaths : ff[p] # 0 => ff[p] # i /\ ff[p] \in Socket!Servers
    BY <1>3 DEF FileIsListened
  <2> QED BY <2>1, <2>2
<1> QED BY <1>2, <1>3

\* Server i does not listen any more, and its file is removed.
LEMMA StopsListening ==
  ASSUME NEW ss \in [Socket!Servers -> Server], NEW ff \in [SocketPaths -> Socket!Servers \cup {0}],
         FileIsListened(ss, ff), NEW i \in Socket!Servers, NEW s \in Server, s.active = FALSE
  PROVE  FileIsListened([ss EXCEPT ![i] = s], Socket!FileRemoved(ss[i], ff))
<1> DEFINE new == [ss EXCEPT ![i] = s]
           left == Socket!FileRemoved(ss[i], ff)
<1>1. /\ new \in [Socket!Servers -> Server] /\ new[i] = s
      /\ \A j \in Socket!Servers : j # i => new[j] = ss[j]
  OBVIOUS
<1>2. \A p \in SocketPaths : left[p] # 0 => ff[p] # i /\ left[p] = ff[p] /\ ff[p] \in Socket!Servers
  BY FileLeft
<1> HIDE DEF new, left
<1>3. FileIsListened(new, left)
  BY <1>1, <1>2 DEF FileIsListened
<1> QED BY <1>3 DEF new, left

\* enableServerIfActivatable() of server i, by now s: it does not listen before, and no other does
\* if it is the last, unless servers strayed.
LEMMA EnableKeeps ==
  ASSUME NEW ss \in [Socket!Servers -> Server], NEW ff \in [SocketPaths -> Socket!Servers \cup {0}],
         NEW i \in Socket!Servers, NEW s \in Server, NEW P, P = [ss EXCEPT ![i] = s],
         InTurn(P), FileIsListened(P, ff), strayed' \in BOOLEAN,
         ~strayed' => LastListens(P, ff) /\ (Last(P, i) \/ file' = ff),
         \A k \in Socket!Servers : IsTarget(P[k]) /\ (k # i /\ Last(P, k) => Tries(P[k])),
         Last(P, i) /\ Untried(s) => s.activeTarget,
         Socket!EnableIfActivatable(i, s, ss, ff)
  PROVE  ServerInv'
<1>1. /\ P \in [Socket!Servers -> Server] /\ P[i] = s
      /\ \A j \in Socket!Servers : j # i => P[j] = ss[j]
  BY ServerChanges
<1>2. CASE ~Socket!Activatable(s)
  <2>1. srv' = P /\ file' = ff
    BY <1>2 DEF Socket!EnableIfActivatable
  <2>2. Last(P, i) => Tries(s)
    BY <1>2 DEF Socket!Activatable, Tries, Untried
  <2>3. WantedIsTarget(P)
    BY <1>1, <2>2 DEF WantedIsTarget
  <2> QED BY <1>1, <2>1, <2>3, ServerInvPrimed
<1>3. CASE Socket!Activatable(s)
  <2>1. /\ ~s.active /\ s.life = "served" /\ s.activeTarget /\ s.mPath \in SocketPaths /\ s.wanted
    BY <1>1, <1>3 DEF Socket!Activatable, Server, IsTarget
  <2>2. PICK listens \in BOOLEAN :
         /\ srv' = [ss EXCEPT ![i] = [s EXCEPT !.active = listens, !.activeTarget = FALSE,
                                               !.activePath = s.mPath, !.excused = ~listens]]
         /\ file' = [p \in SocketPaths |-> IF p = s.mPath THEN IF listens THEN i ELSE 0
                                           ELSE IF ~listens /\ p = s.activePath THEN 0 ELSE ff[p]]
    BY <1>3 DEF Socket!EnableIfActivatable
  <2> DEFINE q == s.mPath
             n == IF listens THEN i ELSE 0
             t == [s EXCEPT !.active = listens, !.activeTarget = FALSE, !.activePath = q, !.excused = ~listens]
  <2>3. /\ t \in Server /\ t.life = "served" /\ t.active = listens /\ ~t.activeTarget /\ t.activePath = q
        /\ t.excused = ~listens /\ t.wanted
    BY <2>1 DEF Server
  <2>4. srv' = [ss EXCEPT ![i] = t]
    BY <2>2
  <2> HIDE DEF t
  <2>5. /\ srv' \in [Socket!Servers -> Server] /\ srv'[i] = t
        /\ \A j \in Socket!Servers : j # i => srv'[j] = P[j]
    BY <1>1, <2>3, <2>4, ServerChanges
  <2>6. \A j \in Socket!Servers : srv'[j].life = P[j].life
    BY <1>1, <2>1, <2>3, <2>5
  <2>7. \A k \in Socket!Servers : Last(srv', k) <=> Last(P, k)
    BY <2>6 DEF Last
  <2>8. n \in Socket!Servers \cup {0} /\ (n # 0 => n = i /\ listens = TRUE)
    OBVIOUS
  <2> HIDE DEF n
  <2>9. q \in SocketPaths
        /\ file' = [p \in SocketPaths |-> IF p = q THEN n ELSE IF ~listens /\ p = s.activePath THEN 0 ELSE ff[p]]
    BY <2>1, <2>2 DEF n
  <2> HIDE DEF q
  <2>10. /\ file' \in [SocketPaths -> Socket!Servers \cup {0}] /\ file'[q] = n
         /\ \A p \in SocketPaths : p # q => file'[p] = ff[p] \/ file'[p] = 0
    BY <2>8, <2>9
  <2>11. \A p \in SocketPaths : ff[p] # 0 => ff[p] # i /\ ff[p] \in Socket!Servers
    BY <1>1, <2>1 DEF FileIsListened
  <2>12. InTurn(srv')
    <3>1. \A j \in Socket!Servers : j > 1 => srv'[j - 1].life = P[j - 1].life
      BY <2>6, Neighbours
    <3> QED BY <2>6, <3>1 DEF InTurn
  <2>13. FileIsListened(srv', file')
    <3>1. \A k \in Socket!Servers : srv'[k].active => srv'[k].life = "served" /\ srv'[k].activePath \in SocketPaths
      BY <2>3, <2>5, <2>9 DEF FileIsListened
    <3>2. ASSUME NEW p \in SocketPaths, file'[p] # 0
          PROVE  srv'[file'[p]].active /\ srv'[file'[p]].activePath = p
      <4>1. CASE p = q
        BY <2>3, <2>5, <2>8, <2>10, <3>2, <4>1
      <4>2. CASE p # q
        <5>1. file'[p] = ff[p] /\ ff[p] # 0
          BY <2>10, <3>2, <4>2
        <5> QED BY <2>5, <2>11, <5>1 DEF FileIsListened
      <4> QED BY <4>1, <4>2
    <3> QED BY <3>1, <3>2 DEF FileIsListened
  <2>14. ASSUME ~strayed' PROVE LastListens(srv', file')
    <3>1. CASE Last(P, i)
      <4>1. ASSUME NEW k \in Socket!Servers, k # i, srv'[k].active PROVE FALSE
        <5>1. P[k].life = "served" /\ Last(P, k)
          BY <2>5, <2>14, <4>1 DEF FileIsListened, LastListens
        <5>2. k < i \/ k > i
          BY <4>1, Neighbours
        <5> QED BY <1>1, <2>1, <3>1, <5>1, <5>2 DEF Last
      <4>2. srv'[i].active => file'[srv'[i].activePath] = i
        BY <2>3, <2>5, <2>10 DEF n
      <4> QED BY <2>7, <3>1, <4>1, <4>2 DEF LastListens
    <3>2. CASE file' = ff
      <4>1. ~listens
        BY <2>9, <2>10, <2>11, <3>2, Neighbours DEF n
      <4>2. \A k \in Socket!Servers : srv'[k].active => k # i
        BY <2>3, <2>5, <4>1
      <4> QED BY <2>5, <2>7, <2>14, <3>2, <4>2 DEF LastListens
    <3> QED BY <2>14, <3>1, <3>2
  <2>15. WantedIsTarget(srv')
    <3> SUFFICES ASSUME NEW k \in Socket!Servers PROVE IsTarget(srv'[k]) /\ (Last(srv', k) => Tries(srv'[k]))
      BY DEF WantedIsTarget
    <3>1. CASE k = i
      BY <2>3, <2>5, <3>1 DEF IsTarget, Tries, Untried
    <3>2. CASE k # i
      BY <2>5, <2>7, <3>2
    <3> QED BY <3>1, <3>2
  <2> QED BY <2>5, <2>10, <2>12, <2>13, <2>14, <2>15, ServerInvPrimed
<1> QED BY <1>2, <1>3

-----------------------------------------------------------------------------
LEMMA StaysKeeps ==
  ASSUME ServerInv, NEW i \in Socket!Servers, NEW s \in Server, srv' = [srv EXCEPT ![i] = s],
         s.life = srv[i].life, s.active = srv[i].active, s.activePath = srv[i].activePath,
         IsTarget(s), Last(srv, i) => Tries(s), UNCHANGED <<file, strayed>>
  PROVE  ServerInv'
<1>1. /\ srv \in [Socket!Servers -> Server] /\ file \in [SocketPaths -> Socket!Servers \cup {0}]
      /\ strayed \in BOOLEAN /\ InTurn(srv) /\ FileIsListened(srv, file) /\ WantedIsTarget(srv)
  BY DEF ServerInv, ServerType
<1> DEFINE new == [srv EXCEPT ![i] = s]
<1>2. /\ new \in [Socket!Servers -> Server] /\ InTurn(new) /\ FileIsListened(new, file)
      /\ LastListens(srv, file) => LastListens(new, file)
      /\ WantedIsTarget(srv) /\ IsTarget(s) /\ (Last(srv, i) => Tries(s)) => WantedIsTarget(new)
  <2> HIDE DEF new
  <2>1. new = [srv EXCEPT ![i] = s]
    BY DEF new
  <2> QED BY <1>1, <2>1, StaysAsItWas
<1> QED BY <1>1, <1>2, ServerInvPrimed DEF ServerInv

LEMMA SetHandlerKeeps ==
  ASSUME ServerInv, NEW i \in Socket!Servers, NEW handles \in BOOLEAN, Socket!SetHandler(i, handles)
  PROVE  ServerInv'
<1>1. /\ srv \in [Socket!Servers -> Server] /\ srv[i] \in Server
      /\ file \in [SocketPaths -> Socket!Servers \cup {0}] /\ strayed \in BOOLEAN
      /\ IsTarget(srv[i]) /\ (Last(srv, i) => Tries(srv[i]))
  BY DEF ServerInv, ServerType, WantedIsTarget
<1> DEFINE x == srv[i].excused \/ srv[i].activeTarget
           s == [[srv[i] EXCEPT !.handler = handles] EXCEPT !.excused = x]
<1>2. srv' = [srv EXCEPT ![i] = s] /\ UNCHANGED <<file, strayed>>
  BY <1>1 DEF Socket!SetHandler
<1>3. x \in BOOLEAN
  BY <1>1 DEF Server
<1> HIDE DEF x
<1>4. /\ s \in Server /\ s.life = srv[i].life /\ s.active = srv[i].active /\ s.activePath = srv[i].activePath
      /\ s.activeTarget = srv[i].activeTarget /\ s.wanted = srv[i].wanted /\ s.excused = x
  BY <1>1, <1>3 DEF Server
<1> HIDE DEF s
<1>5. IsTarget(s)
  BY <1>1, <1>4 DEF IsTarget
<1>6. Last(srv, i) => Tries(s)
  <2>1. ~s.excused => ~srv[i].excused /\ ~srv[i].activeTarget
    BY <1>1, <1>4 DEF x, Server
  <2> QED BY <1>1, <1>4, <2>1 DEF Tries, Untried
<1> QED BY <1>1, <1>2, <1>4, <1>5, <1>6, StaysKeeps

LEMMA OnNewConnectionKeeps ==
  ASSUME ServerInv, NEW p \in SocketPaths, NEW handled \in BOOLEAN, Socket!OnNewConnection(p, handled)
  PROVE  ServerInv'
<1> DEFINE i == file[p]
           n == srv[i].clients + 1
           s == [srv[i] EXCEPT !.clients = n]
<1>1. /\ i \in Socket!Servers /\ srv \in [Socket!Servers -> Server] /\ srv[i] \in Server
      /\ file \in [SocketPaths -> Socket!Servers \cup {0}] /\ strayed \in BOOLEAN
  BY DEF ServerInv, ServerType, Socket!OnNewConnection
<1>2. UNCHANGED <<file, strayed>> /\ (srv' = [srv EXCEPT ![i] = s] \/ srv' = srv)
  BY <1>1 DEF Socket!OnNewConnection
<1> HIDE DEF i
<1>3. n \in Nat
  BY <1>1 DEF Server
<1> HIDE DEF n
<1>4. /\ s \in Server /\ s.life = srv[i].life /\ s.active = srv[i].active /\ s.activePath = srv[i].activePath
      /\ s.activeTarget = srv[i].activeTarget /\ s.wanted = srv[i].wanted /\ s.excused = srv[i].excused
      /\ s.mPath = srv[i].mPath /\ s.handler = srv[i].handler
  BY <1>1, <1>3 DEF Server
<1> HIDE DEF s
<1>5. CASE srv' = [srv EXCEPT ![i] = s]
  <2>1. IsTarget(s) /\ (Last(srv, i) => Tries(s))
    BY <1>1, <1>4 DEF ServerInv, WantedIsTarget, IsTarget, Tries, Untried
  <2> QED BY <1>1, <1>2, <1>4, <1>5, <2>1, StaysKeeps
<1>6. CASE srv' = srv
  BY <1>1, <1>2, <1>6, ServerInvPrimed DEF ServerInv
<1> QED BY <1>2, <1>5, <1>6

\* A new server is made after the last one.
LEMMA CreateServerKeeps ==
  ASSUME ServerInv, NEW i \in Socket!Servers, NEW p \in SocketPaths \cup {NoSocketPath},
         NEW wants \in BOOLEAN, NEW handles \in BOOLEAN, Socket!CreateServer(i, wants, p, handles)
  PROVE  ServerInv'
<1> DEFINE s == [Socket!NewServer EXCEPT !.life = "made", !.activeTarget = wants, !.wanted = wants,
                                         !.mPath = p, !.handler = handles]
<1>1. /\ srv[i].life = "none" /\ (i > 1 => srv[i - 1].life = "served")
      /\ srv' = [srv EXCEPT ![i] = s] /\ UNCHANGED <<file, strayed>>
  BY DEF Socket!CreateServer
<1>2. /\ s \in Server /\ s.life = "made" /\ ~s.active /\ s.activeTarget = wants /\ s.wanted = wants
  BY DEF Server, Socket!NewServer
<1> HIDE DEF s
<1>3. /\ srv' \in [Socket!Servers -> Server] /\ srv'[i] = s
      /\ \A j \in Socket!Servers : j # i => srv'[j] = srv[j]
  BY <1>1, <1>2, ServerChanges DEF ServerInv, ServerType
<1>4. ~srv[i].active
  BY <1>1 DEF ServerInv, FileIsListened
<1>5. \A k \in Socket!Servers : Last(srv', k) <=> Last(srv, k)
  BY <1>1, <1>2, <1>3 DEF Last
<1>6. InTurn(srv')
  <2> SUFFICES ASSUME NEW k \in Socket!Servers, srv'[k].life \in {"none", "made"}
               PROVE  /\ \A j \in Socket!Servers : j > k => srv'[j].life = "none"
                      /\ srv'[k].life = "made" /\ k > 1 => srv'[k - 1].life = "served"
    BY DEF InTurn
  <2>1. CASE k = i
    <3>1. k > 1 => k - 1 \in Socket!Servers /\ k - 1 # i
      BY <2>1, Neighbours
    <3>2. \A j \in Socket!Servers : j > i => j # i
      BY Neighbours
    <3> QED BY <1>1, <1>3, <2>1, <3>1, <3>2 DEF ServerInv, InTurn
  <2>2. CASE k < i
    <3>1. srv[k].life \in {"none", "made"} /\ k # i
      BY <1>3, <2>2, Neighbours
    <3>2. i > 1 /\ i - 1 \in Socket!Servers /\ srv[i - 1].life = "served"
      BY <1>1, <2>2, Neighbours
    <3>3. k = i - 1 \/ i - 1 > k
      BY <2>2, Neighbours
    <3> QED BY <3>1, <3>2, <3>3 DEF ServerInv, InTurn
  <2>3. CASE k > i
    <3>1. srv[k].life = "none" /\ k # i /\ srv'[k] = srv[k]
      BY <1>1, <1>3, <2>3, Neighbours DEF ServerInv, InTurn
    <3>2. \A j \in Socket!Servers : j > k => j > i /\ j # i
      BY <2>3, Neighbours
    <3> QED BY <1>1, <1>3, <3>1, <3>2 DEF ServerInv, InTurn
  <2> QED BY <2>1, <2>2, <2>3, Neighbours
<1>7. FileIsListened(srv', file)
  <2>1. \A q \in SocketPaths : file[q] # 0 => file[q] # i /\ file[q] \in Socket!Servers
    BY <1>4 DEF ServerInv, ServerType, FileIsListened
  <2> QED BY <1>2, <1>3, <2>1 DEF ServerInv, FileIsListened
<1>8. ~strayed => LastListens(srv', file)
  <2>1. \A k \in Socket!Servers : srv'[k].active => k # i
    BY <1>2, <1>3
  <2> QED BY <1>3, <1>5, <2>1 DEF ServerInv, LastListens
<1>9. WantedIsTarget(srv')
  <2> SUFFICES ASSUME NEW k \in Socket!Servers PROVE IsTarget(srv'[k]) /\ (Last(srv', k) => Tries(srv'[k]))
    BY DEF WantedIsTarget
  <2>1. CASE k = i
    BY <1>2, <1>3, <2>1 DEF IsTarget, Tries, Untried
  <2>2. CASE k # i
    BY <1>3, <1>5, <2>2 DEF ServerInv, WantedIsTarget
  <2> QED BY <2>1, <2>2
<1> QED BY <1>1, <1>3, <1>6, <1>7, <1>8, <1>9, ServerInvPrimed DEF ServerInv, ServerType

\* A server's end, and that of its listening: the others' files are theirs if they were.
LEMMA StopKeeps ==
  ASSUME ServerInv, NEW i \in Socket!Servers, NEW s \in Server, s.active = FALSE,
         srv' = [srv EXCEPT ![i] = s], file' = Socket!FileRemoved(srv[i], file),
         strayed' \in BOOLEAN, ~strayed' => ~strayed,
         \/ s.life = srv[i].life
         \/ s.life = "gone" /\ srv[i].life = "served" /\ i + 1 \in Socket!Servers /\ srv[i + 1].life = "served",
         IsTarget(s), Tries(s)
  PROVE  ServerInv'
<1>1. /\ srv \in [Socket!Servers -> Server] /\ file \in [SocketPaths -> Socket!Servers \cup {0}]
      /\ strayed \in BOOLEAN /\ InTurn(srv) /\ FileIsListened(srv, file) /\ WantedIsTarget(srv)
  BY DEF ServerInv, ServerType
<1>2. /\ srv' \in [Socket!Servers -> Server] /\ srv'[i] = s
      /\ \A j \in Socket!Servers : j # i => srv'[j] = srv[j]
  BY <1>1, ServerChanges
<1>3. /\ file' \in [SocketPaths -> Socket!Servers \cup {0}]
      /\ (srv[i].active => file[srv[i].activePath] = i) =>
           \A k \in Socket!Servers :
             (k # i /\ srv[k].active /\ file[srv[k].activePath] = k) => file'[srv[k].activePath] = k
  BY <1>1, FileLeft
<1>4. FileIsListened(srv', file')
  BY <1>1, StopsListening
<1>5. \A k \in Socket!Servers : Last(srv, k) => Last(srv', k)
  BY <1>2 DEF Last
<1>6. \A k \in Socket!Servers : k # i /\ Last(srv', k) => Last(srv, k)
  <2> SUFFICES ASSUME NEW k \in Socket!Servers, k # i, Last(srv', k), NEW j \in Socket!Servers, j > k, srv[j].life = "served"
               PROVE  FALSE
    BY DEF Last
  <2>1. j = i /\ srv'[i].life = "gone" /\ i + 1 \in Socket!Servers /\ srv[i + 1].life = "served"
    BY <1>2 DEF Last
  <2>2. i + 1 > k /\ i + 1 # i
    BY <2>1, Neighbours
  <2> QED BY <1>2, <2>1, <2>2 DEF Last
<1>7. InTurn(srv')
  <2> SUFFICES ASSUME NEW k \in Socket!Servers, srv'[k].life \in {"none", "made"}
               PROVE  /\ \A j \in Socket!Servers : j > k => srv'[j].life = "none"
                      /\ srv'[k].life = "made" /\ k > 1 => srv'[k - 1].life = "served"
    BY DEF InTurn
  <2>1. srv[k].life = srv'[k].life
    BY <1>2
  <2>2. \A j \in Socket!Servers : srv[j].life = "none" => srv'[j].life = "none"
    BY <1>2
  <2>3. srv'[k].life = "made" /\ k > 1 => k - 1 \in Socket!Servers /\ srv[k - 1].life = "served"
    BY <1>1, <2>1, Neighbours DEF InTurn
  <2>4. ASSUME srv'[k].life = "made", k > 1 PROVE srv'[k - 1].life = "served"
    <3>1. CASE k - 1 # i
      BY <1>2, <2>3, <2>4, <3>1
    <3>2. CASE k - 1 = i
      <4>1. k = i + 1
        BY <3>2, Neighbours
      <4> QED BY <1>2, <2>1, <2>3, <2>4, <3>2, <4>1
    <3> QED BY <3>1, <3>2
  <2> QED BY <1>1, <2>1, <2>2, <2>4 DEF InTurn
<1>8. ASSUME ~strayed' PROVE LastListens(srv', file')
  <2>1. LastListens(srv, file)
    BY <1>8 DEF ServerInv
  <2>2. \A k \in Socket!Servers : srv'[k].active => k # i /\ srv'[k] = srv[k]
    BY <1>2
  <2> QED BY <1>3, <1>5, <2>1, <2>2 DEF LastListens
<1>9. WantedIsTarget(srv')
  <2> SUFFICES ASSUME NEW k \in Socket!Servers PROVE IsTarget(srv'[k]) /\ (Last(srv', k) => Tries(srv'[k]))
    BY DEF WantedIsTarget
  <2>1. CASE k = i
    BY <1>2, <2>1
  <2>2. CASE k # i
    BY <1>1, <1>2, <1>6, <2>2 DEF WantedIsTarget
  <2> QED BY <2>1, <2>2
<1> QED BY <1>2, <1>3, <1>4, <1>7, <1>8, <1>9, ServerInvPrimed

LEMMA DestroyServerKeeps == ASSUME ServerInv, NEW i \in Socket!Servers, Socket!DestroyServer(i) PROVE ServerInv'
<1> DEFINE s == [Socket!NewServer EXCEPT !.life = "gone"]
<1>1. /\ srv[i].life = "served" /\ i < LastServer /\ srv[i + 1].life = "served" /\ srv' = [srv EXCEPT ![i] = s]
      /\ file' = Socket!FileRemoved(srv[i], file) /\ UNCHANGED strayed
  BY DEF Socket!DestroyServer
<1>2. i + 1 \in Socket!Servers
  BY <1>1, ServersAreNumbered DEF Socket!Servers
<1>3. s \in Server /\ s.active = FALSE /\ s.life = "gone" /\ ~s.activeTarget
  BY DEF Socket!NewServer, Server
<1> HIDE DEF s
<1>4. IsTarget(s) /\ Tries(s) /\ strayed \in BOOLEAN
  BY <1>3 DEF IsTarget, Tries, Untried, ServerInv, ServerType
<1> QED BY <1>1, <1>2, <1>3, <1>4, StopKeeps

\* Server i tries to listen after a change of what it needs.
LEMMA TryKeeps ==
  ASSUME ServerInv, NEW i \in Socket!Servers, NEW s \in Server,
         s.life = srv[i].life, s.active = srv[i].active, s.activePath = srv[i].activePath,
         IsTarget(s), Last(srv, i) /\ Untried(s) => s.activeTarget,
         Socket!Strays(i), Socket!EnableIfActivatable(i, s, srv, file)
  PROVE  ServerInv'
<1>1. /\ srv \in [Socket!Servers -> Server] /\ file \in [SocketPaths -> Socket!Servers \cup {0}]
      /\ strayed \in BOOLEAN /\ InTurn(srv) /\ FileIsListened(srv, file) /\ WantedIsTarget(srv)
  BY DEF ServerInv, ServerType
<1> DEFINE P == [srv EXCEPT ![i] = s]
<1>2. P = [srv EXCEPT ![i] = s]
  OBVIOUS
<1> HIDE DEF P
<1>3. /\ InTurn(P) /\ FileIsListened(P, file)
      /\ LastListens(srv, file) => LastListens(P, file)
      /\ \A k \in Socket!Servers : /\ Last(P, k) <=> Last(srv, k)
                                   /\ k # i => P[k] = srv[k]
      /\ P[i] = s
  <2>1. i \in Socket!Servers /\ s \in Server /\ s.life = srv[i].life /\ s.active = srv[i].active /\ s.activePath = srv[i].activePath
    OBVIOUS
  <2> QED BY ONLY <1>1, <1>2, <2>1, StaysAsItWas
<1>4. \A k \in Socket!Servers : IsTarget(P[k]) /\ (k # i /\ Last(P, k) => Tries(P[k]))
  BY <1>1, <1>3 DEF WantedIsTarget
<1>5. strayed' \in BOOLEAN /\ (~strayed' => ~strayed /\ (Last(srv, i) \/ file' = file))
  BY <1>1 DEF Socket!Strays, Socket!Superseded, Last
<1>6. ~strayed' => LastListens(P, file) /\ (Last(P, i) \/ file' = file)
  BY <1>3, <1>5 DEF ServerInv
<1>7. /\ Last(P, i) /\ Untried(s) => s.activeTarget
      /\ i \in Socket!Servers /\ s \in Server /\ Socket!EnableIfActivatable(i, s, srv, file)
  BY <1>3
<1> QED BY ONLY <1>1, <1>2, <1>3, <1>4, <1>5, <1>6, <1>7, EnableKeeps

LEMMA SetServerPathKeeps ==
  ASSUME ServerInv, NEW i \in Socket!Servers, NEW p \in SocketPaths \cup {NoSocketPath}, Socket!SetServerPath(i, p)
  PROVE  ServerInv'
<1> DEFINE s == [srv[i] EXCEPT !.mPath = p]
<1>1. /\ srv[i] \in Server /\ IsTarget(srv[i]) /\ (Last(srv, i) => Tries(srv[i]))
      /\ Socket!Strays(i) /\ Socket!EnableIfActivatable(i, s, srv, file)
  BY DEF ServerInv, ServerType, WantedIsTarget, Socket!SetServerPath
<1>2. /\ s \in Server /\ s.life = srv[i].life /\ s.active = srv[i].active /\ s.activePath = srv[i].activePath
      /\ s.activeTarget = srv[i].activeTarget /\ s.wanted = srv[i].wanted /\ s.excused = srv[i].excused
  BY <1>1 DEF Server
<1> HIDE DEF s
<1>3. IsTarget(s) /\ (Last(srv, i) /\ Untried(s) => s.activeTarget)
  BY <1>1, <1>2 DEF IsTarget, Untried, Tries
<1> QED BY <1>1, <1>2, <1>3, TryKeeps

LEMMA SetServerActiveKeeps ==
  ASSUME ServerInv, NEW i \in Socket!Servers, NEW b \in BOOLEAN, Socket!SetServerActive(i, b)
  PROVE  ServerInv'
<1> DEFINE x == srv[i].excused /\ srv[i].active
           s == [srv[i] EXCEPT !.activeTarget = b, !.wanted = b, !.excused = x]
<1>1. srv[i] \in Server /\ strayed \in BOOLEAN
  BY DEF ServerInv, ServerType
<1>2. /\ Socket!Strays(i) /\ IF b = s.active THEN srv' = [srv EXCEPT ![i] = s] /\ UNCHANGED file
                             ELSE IF b THEN Socket!EnableIfActivatable(i, s, srv, file)
                             ELSE srv' = [srv EXCEPT ![i] = Socket!Disabled(s)] /\ file' = Socket!FileRemoved(s, file)
  <2>1. s = [srv[i] EXCEPT !.activeTarget = b, !.wanted = b, !.excused = @ /\ srv[i].active]
    BY <1>1
  <2> QED BY <2>1 DEF Socket!SetServerActive
<1>3. x \in BOOLEAN
  OBVIOUS
<1> HIDE DEF x
<1>4. /\ s \in Server /\ s.life = srv[i].life /\ s.active = srv[i].active /\ s.activePath = srv[i].activePath
      /\ s.activeTarget = b /\ s.wanted = b /\ s.excused = x
  BY <1>1, <1>3 DEF Server
<1> HIDE DEF s
<1>5. IsTarget(s) \/ s.active
  BY <1>4 DEF IsTarget
<1>6. CASE b = s.active
  <2>1. srv' = [srv EXCEPT ![i] = s] /\ UNCHANGED <<file, strayed>>
    BY <1>1, <1>2, <1>6 DEF Socket!Strays
  <2>2. IsTarget(s) /\ Tries(s)
    BY <1>4, <1>6 DEF IsTarget, Tries, Untried
  <2> QED BY <1>4, <2>1, <2>2, StaysKeeps
<1>7. CASE b # s.active /\ b
  <2>1. Socket!EnableIfActivatable(i, s, srv, file)
    BY <1>2, <1>7
  <2>2. IsTarget(s) /\ s.activeTarget
    BY <1>4, <1>7 DEF IsTarget
  <2> QED BY <1>2, <1>4, <2>1, <2>2, TryKeeps
<1>8. CASE b # s.active /\ ~b
  <2> DEFINE t == Socket!Disabled(s)
  <2>1. srv' = [srv EXCEPT ![i] = t] /\ file' = Socket!FileRemoved(srv[i], file)
    BY <1>2, <1>4, <1>8 DEF Socket!FileRemoved
  <2>2. t \in Server /\ t.active = FALSE /\ t.life = srv[i].life /\ ~t.activeTarget /\ ~t.wanted
    BY <1>4, <1>8 DEF Socket!Disabled, Server
  <2> HIDE DEF t
  <2>3. IsTarget(t) /\ Tries(t)
    BY <2>2 DEF IsTarget, Tries, Untried
  <2>4. strayed' \in BOOLEAN /\ (~strayed' => ~strayed)
    BY <1>1, <1>2 DEF Socket!Strays
  <2> QED BY <2>1, <2>2, <2>3, <2>4, StopKeeps
<1> QED BY <1>6, <1>7, <1>8

\* A made server serves, among these, where only the one before may have stopped to listen.
LEMMA ServesKeeps ==
  ASSUME ServerInv, NEW i \in Socket!Servers, srv[i].life = "made",
         NEW ss \in [Socket!Servers -> Server], NEW ff \in [SocketPaths -> Socket!Servers \cup {0}],
         \A j \in Socket!Servers : ss[j] = srv[j] \/ (j = i - 1 /\ ss[j] = Socket!Disabled(srv[j])),
         FileIsListened(ss, ff), strayed' \in BOOLEAN,
         ~strayed' => ~strayed /\ (i > 1 => ~ss[i - 1].active),
         Socket!EnableIfActivatable(i, [srv[i] EXCEPT !.life = "served"], ss, ff)
  PROVE  ServerInv'
<1> DEFINE s == [srv[i] EXCEPT !.life = "served"]
           P == [ss EXCEPT ![i] = s]
<1>1. /\ srv \in [Socket!Servers -> Server] /\ strayed \in BOOLEAN
      /\ InTurn(srv) /\ FileIsListened(srv, file) /\ WantedIsTarget(srv)
      /\ \A j \in Socket!Servers : srv[j] \in Server
  BY DEF ServerInv, ServerType
<1>2. /\ s \in Server /\ s.life = "served" /\ s.active = srv[i].active /\ s.activeTarget = srv[i].activeTarget
      /\ s.wanted = srv[i].wanted /\ s.excused = srv[i].excused
  BY <1>1 DEF Server
<1>3. ~srv[i].active /\ ss[i] = srv[i]
  BY <1>1, Neighbours DEF FileIsListened
<1>4. Socket!EnableIfActivatable(i, s, ss, ff)
  OBVIOUS
<1> HIDE DEF s
<1>5. P = [ss EXCEPT ![i] = s]
  OBVIOUS
<1> HIDE DEF P
<1>6. /\ P \in [Socket!Servers -> Server] /\ P[i] = s
      /\ \A j \in Socket!Servers : j # i => P[j] = ss[j]
  BY <1>2, <1>5, ServerChanges
<1>7. \A j \in Socket!Servers : j # i =>
        /\ P[j].life = srv[j].life /\ P[j].activeTarget = srv[j].activeTarget /\ P[j].wanted = srv[j].wanted
        /\ P[j].active => srv[j].active
        /\ j # i - 1 => P[j] = srv[j]
  <2> SUFFICES ASSUME NEW j \in Socket!Servers, j # i
               PROVE  /\ P[j].life = srv[j].life /\ P[j].activeTarget = srv[j].activeTarget /\ P[j].wanted = srv[j].wanted
                      /\ P[j].active => srv[j].active
                      /\ j # i - 1 => P[j] = srv[j]
    OBVIOUS
  <2>1. CASE P[j] = srv[j]
    BY <2>1
  <2>2. CASE j = i - 1 /\ P[j] = Socket!Disabled(srv[j])
    BY <1>1, <2>2 DEF Socket!Disabled, Server
  <2> QED BY <1>6, <2>1, <2>2
<1>8. \A j \in Socket!Servers : j > i => j # i /\ j # i - 1 /\ srv[j].life = "none" /\ P[j] = srv[j]
  <2>1. \A j \in Socket!Servers : j > i => j # i /\ j # i - 1
    BY Neighbours
  <2> QED BY <1>1, <1>7, <2>1 DEF InTurn
<1>9. /\ Last(P, i) /\ Last(srv, i)
      /\ \A k \in Socket!Servers : k < i => ~Last(P, k)
      /\ \A k \in Socket!Servers : k > i => Last(srv, k)
  <2>1. \A k, j \in Socket!Servers : k > i /\ j > k => j > i
    BY Neighbours
  <2>2. \A k \in Socket!Servers : k < i => i > k
    BY Neighbours
  <2> QED BY <1>2, <1>6, <1>8, <2>1, <2>2 DEF Last
<1>10. InTurn(P)
  <2> SUFFICES ASSUME NEW k \in Socket!Servers, P[k].life \in {"none", "made"}
               PROVE  /\ \A j \in Socket!Servers : j > k => P[j].life = "none"
                      /\ P[k].life = "made" /\ k > 1 => P[k - 1].life = "served"
    BY DEF InTurn
  <2>1. k # i
    BY <1>2, <1>6
  <2>2. CASE k < i
    <3>1. i > k /\ srv[k].life \in {"none", "made"}
      BY <1>7, <2>1, <2>2, Neighbours
    <3> QED BY <1>1, <3>1 DEF InTurn
  <2>3. CASE k > i
    <3>1. \A j \in Socket!Servers : j > k => j > i
      BY <2>3, Neighbours
    <3> QED BY <1>8, <2>3, <3>1
  <2> QED BY <2>1, <2>2, <2>3, Neighbours
<1>11. FileIsListened(P, ff)
  <2>1. \A p \in SocketPaths : ff[p] # 0 => ff[p] \in Socket!Servers /\ ff[p] # i
    BY <1>3 DEF FileIsListened
  <2> QED BY <1>2, <1>3, <1>6, <2>1 DEF FileIsListened
<1>12. ASSUME ~strayed', NEW k \in Socket!Servers, P[k].active PROVE FALSE
  <2>1. k # i /\ srv[k].active /\ srv[k].life = "served"
    BY <1>1, <1>2, <1>3, <1>6, <1>7, <1>12 DEF FileIsListened
  <2>2. Last(srv, k)
    BY <1>12, <2>1 DEF ServerInv, LastListens
  <2>3. CASE k > i
    BY <1>8, <2>1, <2>3
  <2>4. CASE k < i
    <3>1. i > 1 /\ i - 1 \in Socket!Servers /\ i - 1 # i
      BY <2>4, Neighbours
    <3>2. srv[i - 1].life = "served" /\ ~P[i - 1].active
      BY <1>1, <1>6, <1>12, <3>1 DEF InTurn
    <3>3. i - 1 > k
      BY <1>12, <2>4, <3>1, <3>2, Neighbours
    <3> QED BY <2>2, <3>1, <3>2, <3>3 DEF Last
  <2> QED BY <2>1, <2>3, <2>4, Neighbours
<1>13. ~strayed' => LastListens(P, ff) /\ (Last(P, i) \/ file' = ff)
  BY <1>9, <1>12 DEF LastListens
<1>14. \A k \in Socket!Servers : IsTarget(P[k]) /\ (k # i /\ Last(P, k) => Tries(P[k]))
  <2> SUFFICES ASSUME NEW k \in Socket!Servers PROVE IsTarget(P[k]) /\ (k # i /\ Last(P, k) => Tries(P[k]))
    OBVIOUS
  <2>1. IsTarget(srv[k]) /\ (Last(srv, k) => Tries(srv[k]))
    BY <1>1 DEF WantedIsTarget
  <2>2. IsTarget(P[k])
    BY <1>2, <1>6, <1>7, <2>1 DEF IsTarget
  <2>3. k # i /\ Last(P, k) => k > i
    BY <1>9, Neighbours
  <2> QED BY <1>8, <1>9, <2>1, <2>2, <2>3
<1>15. Untried(s) => s.activeTarget
  <2>1. Untried(s) => Untried(srv[i])
    BY <1>2 DEF Untried
  <2> QED BY <1>1, <1>2, <1>9, <2>1 DEF WantedIsTarget, Tries
<1>16. /\ ss \in [Socket!Servers -> Server] /\ ff \in [SocketPaths -> Socket!Servers \cup {0}]
       /\ i \in Socket!Servers /\ strayed' \in BOOLEAN
  OBVIOUS
<1> QED BY ONLY <1>2, <1>4, <1>5, <1>10, <1>11, <1>13, <1>14, <1>15, <1>16, EnableKeeps

LEMMA OnReloadKeeps ==
  ASSUME ServerInv, NEW i \in Socket!Servers, NEW matched \in BOOLEAN, Socket!OnReload(i, matched)
  PROVE  ServerInv'
<1>1. /\ srv \in [Socket!Servers -> Server] /\ file \in [SocketPaths -> Socket!Servers \cup {0}]
      /\ strayed \in BOOLEAN /\ FileIsListened(srv, file)
  BY DEF ServerInv, ServerType
<1>2. /\ srv[i].life = "made" /\ (matched => i > 1) /\ strayed' \in BOOLEAN
      /\ ~strayed' => ~strayed /\ (i > 1 => matched)
  BY <1>1 DEF Socket!OnReload
<1>3. CASE ~matched
  <2>1. Socket!EnableIfActivatable(i, [srv[i] EXCEPT !.life = "served"], srv, file)
    BY <1>3 DEF Socket!OnReload
  <2>2. \A j \in Socket!Servers : srv[j] = srv[j] \/ (j = i - 1 /\ srv[j] = Socket!Disabled(srv[j]))
    OBVIOUS
  <2>3. ~strayed' => ~strayed /\ (i > 1 => ~srv[i - 1].active)
    BY <1>2, <1>3
  <2> QED BY <1>1, <1>2, <2>1, <2>2, <2>3, ServesKeeps
<1>4. CASE matched
  <2> DEFINE old == srv[i - 1]
             d == Socket!Disabled(old)
             ss == [srv EXCEPT ![i - 1] = d]
             ff == Socket!FileRemoved(old, file)
  <2>1. i - 1 \in Socket!Servers /\ i - 1 # i
    BY <1>2, <1>4, Neighbours
  <2>2. d \in Server /\ d.active = FALSE
    BY <1>1, <2>1 DEF Socket!Disabled, Server
  <2>3. ff \in [SocketPaths -> Socket!Servers \cup {0}]
    BY <1>1, <2>1, FileLeft
  <2>4. Socket!EnableIfActivatable(i, [srv[i] EXCEPT !.life = "served"], ss, ff)
    BY <1>4 DEF Socket!OnReload
  <2> HIDE DEF d
  <2>5. FileIsListened(ss, ff)
    BY <1>1, <2>1, <2>2, StopsListening
  <2>6. /\ ss \in [Socket!Servers -> Server] /\ ss[i - 1] = d
        /\ \A j \in Socket!Servers : j # i - 1 => ss[j] = srv[j]
    BY <1>1, <2>1, <2>2
  <2> HIDE DEF ss, ff
  <2>7. \A j \in Socket!Servers : ss[j] = srv[j] \/ (j = i - 1 /\ ss[j] = Socket!Disabled(srv[j]))
    BY <2>6 DEF d
  <2>8. ~strayed' => ~strayed /\ (i > 1 => ~ss[i - 1].active)
    BY <1>2, <2>2, <2>6
  <2> QED BY <1>2, <2>3, <2>4, <2>5, <2>6, <2>7, <2>8, ServesKeeps
<1> QED BY <1>3, <1>4

-----------------------------------------------------------------------------
LEMMA NextServerInv == ASSUME ServerInv, [Socket!NextServers]_(Socket!serverVars) PROVE ServerInv'
<1>1. ASSUME NEW i \in Socket!Servers, NEW p \in SocketPaths \cup {NoSocketPath},
             NEW wants \in BOOLEAN, NEW handles \in BOOLEAN, Socket!CreateServer(i, wants, p, handles)
      PROVE  ServerInv'
  BY <1>1, CreateServerKeeps
<1>2. ASSUME NEW i \in Socket!Servers, NEW p \in SocketPaths \cup {NoSocketPath}, Socket!SetServerPath(i, p)
      PROVE  ServerInv'
  BY <1>2, SetServerPathKeeps
<1>3. ASSUME NEW i \in Socket!Servers, NEW b \in BOOLEAN, Socket!OnReload(i, b) PROVE ServerInv'
  BY <1>3, OnReloadKeeps
<1>4. ASSUME NEW i \in Socket!Servers, NEW b \in BOOLEAN, Socket!SetServerActive(i, b) PROVE ServerInv'
  BY <1>4, SetServerActiveKeeps
<1>5. ASSUME NEW i \in Socket!Servers, NEW b \in BOOLEAN, Socket!SetHandler(i, b) PROVE ServerInv'
  BY <1>5, SetHandlerKeeps
<1>6. ASSUME NEW i \in Socket!Servers, Socket!DestroyServer(i) PROVE ServerInv'
  BY <1>6, DestroyServerKeeps
<1>7. ASSUME NEW p \in SocketPaths, NEW b \in BOOLEAN, Socket!OnNewConnection(p, b) PROVE ServerInv'
  BY <1>7, OnNewConnectionKeeps
<1>8. CASE UNCHANGED Socket!serverVars
  <2>1. UNCHANGED <<srv, file, strayed>>
    BY <1>8 DEF Socket!serverVars
  <2> QED BY <2>1, ServerInvPrimed DEF ServerInv, ServerType
<1> QED BY <1>1, <1>2, <1>3, <1>4, <1>5, <1>6, <1>7, <1>8 DEF Socket!NextServers

LEMMA ServersAreServed == Spec => []Socket!ServerIsServed
<1>1. ServerInv => Socket!ServerIsServed
  <2> SUFFICES ASSUME ServerInv PROVE Socket!ServerIsServed
    OBVIOUS
  <2>1. \A i \in Socket!Servers : srv[i].active /\ ~strayed => file[srv[i].activePath] = i
    BY DEF ServerInv, LastListens
  <2>2. \A p \in SocketPaths : file[p] # 0 => srv[file[p]].active /\ srv[file[p]].activePath = p
    BY DEF ServerInv, FileIsListened
  <2>3. ASSUME NEW i \in Socket!Servers
        PROVE  /\ srv[i].active => srv[i].wanted
               /\ /\ srv[i].life = "served" /\ ~Socket!Superseded(i)
                  /\ srv[i].wanted /\ srv[i].mPath # NoSocketPath /\ srv[i].handler /\ ~srv[i].excused
                  => srv[i].active
    <3>1. IsTarget(srv[i]) /\ (Last(srv, i) => Tries(srv[i]))
      BY DEF ServerInv, WantedIsTarget
    <3>2. ~Socket!Superseded(i) => Last(srv, i)
      BY DEF Socket!Superseded, Last
    <3> QED BY <3>1, <3>2 DEF IsTarget, Tries, Untried
  <2> QED BY <2>1, <2>2, <2>3 DEF Socket!ServerIsServed
<1>2. ServerInv /\ [Socket!NextServers]_(Socket!serverVars) => ServerInv'
  BY NextServerInv
<1> QED BY <1>1, <1>2, InitServerInv, ServerSteps, PTL

\* Between events a socket is on its way to what `connected' was set to last, in the usual case,
\* and a SocketServer listens where its file is, if it was told to and can, through any number of
\* generations that hand their servers over (src/src/io/socket.cpp).
THEOREM TargetsAreServed == Spec => []TargetIsServed
<1>1. Socket!TargetIsServed /\ Socket!ServerIsServed => TargetIsServed
  BY DEF TargetIsServed
<1> QED BY <1>1, SocketIsServed, ServersAreServed, PTL

-----------------------------------------------------------------------------
(* The tray                                                                  *)

LEMMA TraySteps == Spec => Tray!Spec
<1>1. Init => Tray!Init
  BY DEF Init
<1>2. [Next]_vars => [Tray!Next]_(Tray!trayVars)
  BY DEF Next, Streams, Others, vars, otherVars, trayVars, Tray!trayVars
<1> QED BY <1>1, <1>2, PTL DEF Spec, Tray!Spec

TrayMsg == [kind : {"call", "registered", "unregistered"}, about : TrayItems] \cup
           [kind : {"died"}, about : Apps] \cup [kind : {"came", "gone"}, about : {"ours", "other"}] \cup
           [kind : {"reply"}, about : SUBSET TrayItems]

\* What a message does for item i.
Adds(m, i)  == (m.kind = "registered" /\ m.about = i) \/ (m.kind = "reply" /\ i \in m.about)
Removes(m, i) == m.kind = "gone" \/ (m.kind = "unregistered" /\ m.about = i)
Ended(m, a) == m.kind = "died" /\ m.about = a

\* With these messages under way a host with these items will show i, or it will not.
Shown(q, set, i) ==
  \/ \E k \in 1..Len(q) : Adds(q[k], i) /\ \A n \in 1..Len(q) : n > k => ~Removes(q[n], i)
  \/ i \in set /\ \A n \in 1..Len(q) : ~Removes(q[n], i)
Hidden(q, set, i) ==
  /\ \A k \in 1..Len(q) : Adds(q[k], i) => \E n \in 1..Len(q) : n > k /\ Removes(q[n], i)
  /\ i \in set => \E n \in 1..Len(q) : Removes(q[n], i)
\* The watcher of ours will hear of the end of a; of i, and of no end after that; the host of a watcher.
Lost(q, a)   == \E k \in 1..Len(q) : Ended(q[k], a)
Called(q, i) == \E k \in 1..Len(q) : /\ q[k].kind = "call" /\ q[k].about = i
                                     /\ \A n \in 1..Len(q) : n > k => ~Ended(q[n], Tray!App(i))
Comes(q)     == \E k \in 1..Len(q) : q[k].kind = "came"

TrayType ==
  /\ owner \in {"none", "ours", "other"} /\ alive \in SUBSET Apps
  /\ registry \in SUBSET TrayItems /\ IsFiniteSet(registry)
  /\ items \in SUBSET TrayItems /\ mItems \in SUBSET TrayItems
  /\ watched \in SUBSET Apps /\ watching \in SUBSET Apps
  /\ inbox \in Seq(TrayMsg) /\ asked \in Nat /\ orderly \in BOOLEAN
OwnersAlive == \A i \in registry : Tray!App(i) \in alive
NoOwner     == owner = "none" => registry = {}
\* Our watcher has nothing to do with what others serve.
NotOurs ==
  owner # "ours" =>
    /\ items = {} /\ watched = {} /\ watching = {}
    /\ \A k \in 1..Len(inbox) : inbox[k].kind \notin {"died", "call"}
\* What was announced to another's watcher will be shown.
OthersShown(reg, n, q, set) == \A i \in reg : n > 0 \/ Comes(q) \/ Shown(q, set, i)
\* What was announced to ours, it knows or will be called about.
OursKnown(reg, known, q)    == \A i \in reg : Called(q, i) \/ (i \in known /\ ~Lost(q, Tray!App(i)))
\* What it knows is shown, or its end will be heard of.
ItemsShown(known, watch, living, q, set) ==
  \A i \in known : /\ Tray!App(i) \in watch
                   /\ Lost(q, Tray!App(i)) \/ (Tray!App(i) \in living /\ Shown(q, set, i))
\* Nothing else stays.
RestHidden(known, q, set) == \A i \in TrayItems : i \in known \/ Hidden(q, set, i)

TrayInv == /\ TrayType /\ OwnersAlive /\ NotOurs /\ NoOwner
           /\ orderly =>
                /\ owner = "other" => OthersShown(registry, asked, inbox, mItems)
                /\ owner = "ours"  => OursKnown(registry, items, inbox)
                /\ ItemsShown(items, watched \cup watching, alive, inbox, mItems)
                /\ RestHidden(IF owner = "ours" THEN items ELSE registry, inbox, mItems)

LEMMA TrayInvPrimed ==
  ASSUME TrayType', OwnersAlive', NotOurs', NoOwner',
         orderly' =>
           /\ owner' = "other" => OthersShown(registry', asked', inbox', mItems')
           /\ owner' = "ours"  => OursKnown(registry', items', inbox')
           /\ ItemsShown(items', watched' \cup watching', alive', inbox', mItems')
           /\ RestHidden(IF owner' = "ours" THEN items' ELSE registry', inbox', mItems')
  PROVE  TrayInv'
BY DEF TrayInv, OthersShown, OursKnown, ItemsShown, RestHidden, Shown, Hidden, Lost, Called, Comes,
       Adds, Removes, Ended

-----------------------------------------------------------------------------
\* More messages.
LEMMA More ==
  ASSUME NEW q \in Seq(TrayMsg), NEW r \in Seq(TrayMsg), Len(q) <= Len(r),
         \A k \in 1..Len(q) : r[k] = q[k]
  PROVE  /\ \A set, i : (\A k \in 1..Len(r) : k > Len(q) => ~Removes(r[k], i)) =>
              /\ Shown(q, set, i) => Shown(r, set, i)
              /\ (\E k \in 1..Len(r) : k > Len(q) /\ Adds(r[k], i)) => Shown(r, set, i)
         /\ \A set, i : (\A k \in 1..Len(r) : k > Len(q) => ~Adds(r[k], i)) =>
              /\ Hidden(q, set, i) => Hidden(r, set, i)
              /\ (\E k \in 1..Len(r) : k > Len(q) /\ Removes(r[k], i)) => Hidden(r, set, i)
         /\ \A a : /\ Lost(q, a) => Lost(r, a)
                   /\ (\A k \in 1..Len(r) : k > Len(q) => ~Ended(r[k], a)) /\ Lost(r, a) => Lost(q, a)
         /\ \A i : (\A k \in 1..Len(r) : k > Len(q) => ~Ended(r[k], Tray!App(i))) /\ Called(q, i) => Called(r, i)
         /\ Comes(q) => Comes(r)
<1>1. Len(q) \in Nat /\ Len(r) \in Nat
  OBVIOUS
<1>2. \A k \in 1..Len(q) : k \in 1..Len(r)
  BY <1>1
<1>3. \A k \in 1..Len(r) : k \in 1..Len(q) \/ k > Len(q)
  BY <1>1
<1>4. \A k \in 1..Len(q), n \in 1..Len(r) : n > Len(q) => n > k
  BY <1>1
<1>5. ASSUME NEW set, NEW i, \A k \in 1..Len(r) : k > Len(q) => ~Removes(r[k], i)
      PROVE  /\ Shown(q, set, i) => Shown(r, set, i)
             /\ (\E k \in 1..Len(r) : k > Len(q) /\ Adds(r[k], i)) => Shown(r, set, i)
  <2>1. ASSUME NEW k \in 1..Len(q), Adds(q[k], i), \A n \in 1..Len(q) : n > k => ~Removes(q[n], i)
        PROVE  Shown(r, set, i)
    <3>1. k \in 1..Len(r) /\ Adds(r[k], i)
      BY <1>2, <2>1
    <3>2. \A n \in 1..Len(r) : n > k => ~Removes(r[n], i)
      BY <1>3, <1>5, <2>1
    <3> QED BY <3>1, <3>2 DEF Shown
  <2>2. ASSUME i \in set, \A n \in 1..Len(q) : ~Removes(q[n], i) PROVE Shown(r, set, i)
    <3>1. \A n \in 1..Len(r) : ~Removes(r[n], i)
      BY <1>3, <1>5, <2>2
    <3> QED BY <2>2, <3>1 DEF Shown
  <2>3. ASSUME NEW k \in 1..Len(r), k > Len(q), Adds(r[k], i) PROVE Shown(r, set, i)
    <3>1. \A n \in 1..Len(r) : n > k => n > Len(q)
      BY <1>1, <2>3
    <3> QED BY <1>5, <2>3, <3>1 DEF Shown
  <2> QED BY <2>1, <2>2, <2>3 DEF Shown
<1>6. ASSUME NEW set, NEW i, \A k \in 1..Len(r) : k > Len(q) => ~Adds(r[k], i)
      PROVE  /\ Hidden(q, set, i) => Hidden(r, set, i)
             /\ (\E k \in 1..Len(r) : k > Len(q) /\ Removes(r[k], i)) => Hidden(r, set, i)
  <2>1. \A k \in 1..Len(r) : Adds(r[k], i) => k \in 1..Len(q) /\ Adds(q[k], i)
    BY <1>3, <1>6
  <2>2. ASSUME Hidden(q, set, i) PROVE Hidden(r, set, i)
    <3>1. ASSUME NEW k \in 1..Len(r), Adds(r[k], i) PROVE \E n \in 1..Len(r) : n > k /\ Removes(r[n], i)
      <4>1. PICK n \in 1..Len(q) : n > k /\ Removes(q[n], i)
        BY <2>1, <2>2, <3>1 DEF Hidden
      <4> QED BY <1>2, <4>1
    <3>2. ASSUME i \in set PROVE \E n \in 1..Len(r) : Removes(r[n], i)
      <4>1. PICK n \in 1..Len(q) : Removes(q[n], i)
        BY <2>2, <3>2 DEF Hidden
      <4> QED BY <1>2, <4>1
    <3> QED BY <3>1, <3>2 DEF Hidden
  <2>3. ASSUME NEW n \in 1..Len(r), n > Len(q), Removes(r[n], i) PROVE Hidden(r, set, i)
    BY <1>4, <2>1, <2>3 DEF Hidden
  <2> QED BY <2>2, <2>3
<1>7. ASSUME NEW a
      PROVE  /\ Lost(q, a) => Lost(r, a)
             /\ (\A k \in 1..Len(r) : k > Len(q) => ~Ended(r[k], a)) /\ Lost(r, a) => Lost(q, a)
  BY <1>2, <1>3 DEF Lost
<1>8. ASSUME NEW i, \A k \in 1..Len(r) : k > Len(q) => ~Ended(r[k], Tray!App(i)), Called(q, i)
      PROVE  Called(r, i)
  <2>1. PICK k \in 1..Len(q) : /\ q[k].kind = "call" /\ q[k].about = i
                               /\ \A n \in 1..Len(q) : n > k => ~Ended(q[n], Tray!App(i))
    BY <1>8 DEF Called
  <2>2. \A n \in 1..Len(r) : n > k => ~Ended(r[n], Tray!App(i))
    BY <1>3, <1>8, <2>1
  <2>3. k \in 1..Len(r) /\ r[k].kind = "call" /\ r[k].about = i
    BY <1>2, <2>1
  <2> QED BY <2>2, <2>3 DEF Called
<1>9. Comes(q) => Comes(r)
  BY <1>2 DEF Comes
<1> QED BY <1>5, <1>6, <1>7, <1>8, <1>9

\* One more message.
LEMMA OneMore ==
  ASSUME NEW q \in Seq(TrayMsg), NEW m \in TrayMsg
  PROVE  /\ Append(q, m) \in Seq(TrayMsg)
         /\ \A k \in 1..Len(Append(q, m)) : (k \in 1..Len(q) /\ Append(q, m)[k] = q[k]) \/ Append(q, m)[k] = m
         /\ \A set, i : ~Removes(m, i) =>
              /\ Shown(q, set, i) => Shown(Append(q, m), set, i)
              /\ Adds(m, i) => Shown(Append(q, m), set, i)
         /\ \A set, i : ~Adds(m, i) =>
              /\ Hidden(q, set, i) => Hidden(Append(q, m), set, i)
              /\ Removes(m, i) => Hidden(Append(q, m), set, i)
         /\ \A a : /\ Lost(q, a) => Lost(Append(q, m), a)
                   /\ ~Ended(m, a) /\ Lost(Append(q, m), a) => Lost(q, a)
                   /\ Ended(m, a) => Lost(Append(q, m), a)
         /\ \A i : ~Ended(m, Tray!App(i)) /\ Called(q, i) => Called(Append(q, m), i)
         /\ \A i : m.kind = "call" /\ m.about = i => Called(Append(q, m), i)
         /\ Comes(q) => Comes(Append(q, m))
         /\ m.kind = "came" => Comes(Append(q, m))
<1> DEFINE r == Append(q, m)
           n == Len(q) + 1
<1>1. /\ r \in Seq(TrayMsg) /\ Len(q) \in Nat /\ Len(r) = n /\ r[n] = m
      /\ \A k \in 1..Len(q) : r[k] = q[k]
  OBVIOUS
<1>2. /\ n \in 1..Len(r) /\ n > Len(q) /\ Len(q) <= Len(r)
      /\ \A k \in 1..Len(r) : k > Len(q) => k = n
      /\ \A k \in 1..Len(r) : k \in 1..Len(q) \/ k = n
      /\ \A k \in 1..Len(r) : ~(k > n)
  BY <1>1
<1> HIDE DEF r, n
<1>3. \A k \in 1..Len(r) : (k \in 1..Len(q) /\ r[k] = q[k]) \/ r[k] = m
  BY <1>1, <1>2
<1>4. ASSUME NEW set, NEW i, ~Removes(m, i)
      PROVE  (Shown(q, set, i) => Shown(r, set, i)) /\ (Adds(m, i) => Shown(r, set, i))
  <2>1. \A k \in 1..Len(r) : k > Len(q) => ~Removes(r[k], i)
    BY <1>1, <1>2, <1>4
  <2>2. Adds(m, i) => \E k \in 1..Len(r) : k > Len(q) /\ Adds(r[k], i)
    BY <1>1, <1>2
  <2> QED BY <1>1, <1>2, <2>1, <2>2, More
<1>5. ASSUME NEW set, NEW i, ~Adds(m, i)
      PROVE  (Hidden(q, set, i) => Hidden(r, set, i)) /\ (Removes(m, i) => Hidden(r, set, i))
  <2>1. \A k \in 1..Len(r) : k > Len(q) => ~Adds(r[k], i)
    BY <1>1, <1>2, <1>5
  <2>2. Removes(m, i) => \E k \in 1..Len(r) : k > Len(q) /\ Removes(r[k], i)
    BY <1>1, <1>2
  <2> QED BY <1>1, <1>2, <2>1, <2>2, More
<1>6. ASSUME NEW a
      PROVE  /\ Lost(q, a) => Lost(r, a)
             /\ ~Ended(m, a) /\ Lost(r, a) => Lost(q, a)
             /\ Ended(m, a) => Lost(r, a)
  BY <1>1, <1>2, <1>3 DEF Lost
<1>7. ASSUME NEW i, ~Ended(m, Tray!App(i)), Called(q, i) PROVE Called(r, i)
  <2>1. \A k \in 1..Len(r) : k > Len(q) => ~Ended(r[k], Tray!App(i))
    BY <1>1, <1>2, <1>7
  <2> QED BY <1>1, <1>2, <1>7, <2>1, More
<1>8. ASSUME NEW i, m.kind = "call", m.about = i PROVE Called(r, i)
  BY <1>1, <1>2, <1>8 DEF Called
<1>9. (Comes(q) => Comes(r)) /\ (m.kind = "came" => Comes(r))
  BY <1>1, <1>2, <1>3 DEF Comes
<1> QED BY <1>1, <1>3, <1>4, <1>5, <1>6, <1>7, <1>8, <1>9 DEF r

\* The first message was taken, and the host has these items now.
LEMMA OneLess ==
  ASSUME NEW q \in Seq(TrayMsg), q # <<>>
  PROVE  /\ Tail(q) \in Seq(TrayMsg) /\ Head(q) \in TrayMsg /\ Head(q) = q[1] /\ 1 \in 1..Len(q)
         /\ \A k \in 1..Len(Tail(q)) : k + 1 \in 1..Len(q) /\ Tail(q)[k] = q[k + 1]
         /\ \A set, now, i :
              /\ Shown(q, set, i) /\ (i \in set /\ ~Removes(Head(q), i) => i \in now) /\ (Adds(Head(q), i) => i \in now)
                   => Shown(Tail(q), now, i)
              /\ Hidden(q, set, i) /\ (i \in now => (i \in set /\ ~Removes(Head(q), i)) \/ Adds(Head(q), i))
                   => Hidden(Tail(q), now, i)
         /\ \A a : /\ Lost(Tail(q), a) => Lost(q, a)
                   /\ Lost(q, a) => Ended(Head(q), a) \/ Lost(Tail(q), a)
         /\ \A i : Called(q, i) => \/ Called(Tail(q), i)
                                   \/ Head(q).kind = "call" /\ Head(q).about = i /\ ~Lost(Tail(q), Tray!App(i))
         /\ Comes(q) => Head(q).kind = "came" \/ Comes(Tail(q))
<1> DEFINE t == Tail(q)
           h == Head(q)
<1>1. /\ t \in Seq(TrayMsg) /\ h = q[1] /\ h \in TrayMsg /\ Len(q) \in Nat /\ Len(q) > 0 /\ Len(t) = Len(q) - 1
      /\ \A k \in 1..Len(t) : t[k] = q[k + 1]
  OBVIOUS
<1>2. /\ 1 \in 1..Len(q)
      /\ \A k \in 1..Len(t) : k + 1 \in 1..Len(q) /\ k + 1 > 1
      /\ \A k, n \in 1..Len(t) : n + 1 > k + 1 <=> n > k
  BY <1>1
<1>3. ASSUME NEW k \in 1..Len(q), k # 1
      PROVE  /\ k - 1 \in 1..Len(t) /\ t[k - 1] = q[k] /\ k > 1
             /\ \A n \in 1..Len(t) : n > k - 1 <=> n + 1 > k
  <2>1. k \in Nat /\ k > 1 /\ k <= Len(q)
    BY <1>1, <1>3
  <2>2. k - 1 \in 1..Len(t) /\ (k - 1) + 1 = k
    BY <1>1, <2>1
  <2>3. \A n \in 1..Len(t) : n > k - 1 <=> n + 1 > k
    BY <1>1, <2>1
  <2> QED BY <1>1, <2>1, <2>2, <2>3
<1> HIDE DEF t, h
<1>4. ASSUME NEW set, NEW now, NEW i, Shown(q, set, i), i \in set /\ ~Removes(h, i) => i \in now, Adds(h, i) => i \in now
      PROVE  Shown(t, now, i)
  <2>1. ASSUME i \in now, \A n \in 1..Len(t) : ~Removes(q[n + 1], i) PROVE Shown(t, now, i)
    BY <1>1, <2>1 DEF Shown
  <2>2. CASE i \in set /\ \A n \in 1..Len(q) : ~Removes(q[n], i)
    BY <1>1, <1>2, <1>4, <2>1, <2>2
  <2>3. ASSUME NEW k \in 1..Len(q), Adds(q[k], i), \A n \in 1..Len(q) : n > k => ~Removes(q[n], i)
        PROVE  Shown(t, now, i)
    <3>1. CASE k = 1
      BY <1>1, <1>2, <1>4, <2>1, <2>3, <3>1
    <3>2. CASE k # 1
      <4>1. k - 1 \in 1..Len(t) /\ Adds(t[k - 1], i)
        BY <1>3, <2>3, <3>2
      <4>2. \A n \in 1..Len(t) : n > k - 1 => ~Removes(t[n], i)
        BY <1>1, <1>2, <1>3, <2>3, <3>2
      <4> QED BY <4>1, <4>2 DEF Shown
    <3> QED BY <3>1, <3>2
  <2> QED BY <1>4, <2>2, <2>3 DEF Shown
<1>5. ASSUME NEW set, NEW now, NEW i, Hidden(q, set, i), i \in now => (i \in set /\ ~Removes(h, i)) \/ Adds(h, i)
      PROVE  Hidden(t, now, i)
  <2>1. ASSUME NEW k \in 1..Len(t), Adds(t[k], i) PROVE \E n \in 1..Len(t) : n > k /\ Removes(t[n], i)
    <3>1. k + 1 \in 1..Len(q) /\ Adds(q[k + 1], i)
      BY <1>1, <1>2, <2>1
    <3>2. PICK n \in 1..Len(q) : n > k + 1 /\ Removes(q[n], i)
      BY <1>5, <3>1 DEF Hidden
    <3>3. n # 1 /\ n - 1 > k
      BY <1>1, <2>1, <3>2
    <3> QED BY <1>3, <3>2, <3>3
  <2>2. ASSUME i \in now PROVE \E n \in 1..Len(t) : Removes(t[n], i)
    <3>1. CASE i \in set /\ ~Removes(h, i)
      <4>1. PICK n \in 1..Len(q) : Removes(q[n], i)
        BY <1>5, <3>1 DEF Hidden
      <4> QED BY <1>1, <1>3, <3>1, <4>1
    <3>2. CASE Adds(h, i)
      <4>1. PICK n \in 1..Len(q) : n > 1 /\ Removes(q[n], i)
        BY <1>1, <1>2, <1>5, <3>2 DEF Hidden
      <4>2. n # 1
        BY <4>1
      <4> QED BY <1>3, <4>1, <4>2
    <3> QED BY <1>5, <2>2, <3>1, <3>2
  <2> QED BY <2>1, <2>2 DEF Hidden
<1>6. ASSUME NEW a PROVE (Lost(t, a) => Lost(q, a)) /\ (Lost(q, a) => Ended(h, a) \/ Lost(t, a))
  BY <1>1, <1>2, <1>3 DEF Lost
<1>7. ASSUME NEW i, Called(q, i)
      PROVE  Called(t, i) \/ (h.kind = "call" /\ h.about = i /\ ~Lost(t, Tray!App(i)))
  <2>1. PICK k \in 1..Len(q) : /\ q[k].kind = "call" /\ q[k].about = i
                               /\ \A n \in 1..Len(q) : n > k => ~Ended(q[n], Tray!App(i))
    BY <1>7 DEF Called
  <2>2. CASE k = 1
    BY <1>1, <1>2, <2>1, <2>2 DEF Lost
  <2>3. CASE k # 1
    <3>1. k - 1 \in 1..Len(t) /\ t[k - 1].kind = "call" /\ t[k - 1].about = i
      BY <1>3, <2>1, <2>3
    <3>2. \A n \in 1..Len(t) : n > k - 1 => ~Ended(t[n], Tray!App(i))
      BY <1>1, <1>2, <1>3, <2>1, <2>3
    <3> QED BY <3>1, <3>2 DEF Called
  <2> QED BY <2>2, <2>3
<1>8. Comes(q) => h.kind = "came" \/ Comes(t)
  BY <1>1, <1>3 DEF Comes
<1> QED BY <1>1, <1>2, <1>4, <1>5, <1>6, <1>7, <1>8 DEF t, h

-----------------------------------------------------------------------------
LEMMA InitTrayInv == Tray!Init => TrayInv
<1> SUFFICES ASSUME Tray!Init PROVE TrayInv
  OBVIOUS
<1>1. inbox \in Seq(TrayMsg) /\ Len(inbox) = 0 /\ \A k \in 1..Len(inbox) : FALSE
  BY DEF Tray!Init
<1>2. TrayType
  BY <1>1, FS_EmptySet DEF Tray!Init, TrayType
<1>3. \A i \in TrayItems : Hidden(inbox, mItems, i)
  BY <1>1 DEF Tray!Init, Hidden
<1> QED BY <1>1, <1>2, <1>3 DEF Tray!Init, TrayInv, OwnersAlive, NotOurs, NoOwner, OthersShown, OursKnown,
                               ItemsShown, RestHidden

LEMMA LaunchKeeps == ASSUME TrayInv, NEW a \in Apps, Tray!Launch(a) PROVE TrayInv'
<1>1. TrayType' /\ OwnersAlive' /\ NotOurs' /\ NoOwner'
  BY DEF Tray!Launch, TrayInv, TrayType, OwnersAlive, NotOurs, NoOwner
<1>2. UNCHANGED <<owner, registry, items, watched, watching, inbox, asked, mItems, orderly>> /\ alive \subseteq alive'
  BY DEF Tray!Launch
<1>3. orderly => ItemsShown(items, watched \cup watching, alive', inbox, mItems)
  BY <1>2 DEF TrayInv, ItemsShown
<1> QED BY <1>1, <1>2, <1>3, TrayInvPrimed DEF TrayInv

LEMMA WatchesKeeps == ASSUME TrayInv, NEW a \in Apps, Tray!Watches(a) PROVE TrayInv'
<1>1. /\ UNCHANGED <<owner, alive, registry, items, inbox, asked, mItems, orderly>>
      /\ watched' \cup watching' = watched \cup watching
      /\ a \in watching
  BY DEF Tray!Watches
<1>2. TrayType' /\ OwnersAlive' /\ NotOurs' /\ NoOwner'
  BY <1>1 DEF Tray!Watches, TrayInv, TrayType, OwnersAlive, NotOurs, NoOwner
<1> QED BY <1>1, <1>2, TrayInvPrimed DEF TrayInv

LEMMA AnnounceKeeps == ASSUME TrayInv, NEW i \in TrayItems, Tray!Announce(i) PROVE TrayInv'
<1> DEFINE m == Tray!Msg(IF owner = "ours" THEN "call" ELSE "registered", i)
<1>1. /\ Tray!App(i) \in alive /\ owner # "none" /\ registry' = registry \cup {i} /\ inbox' = Append(inbox, m)
      /\ UNCHANGED <<owner, alive, items, watched, watching, asked, mItems, orderly>>
  BY DEF Tray!Announce
<1>2. /\ m \in TrayMsg /\ m.about = i /\ m.kind = IF owner = "ours" THEN "call" ELSE "registered"
  BY DEF Tray!Msg, TrayMsg
<1> HIDE DEF m
<1>3. inbox \in Seq(TrayMsg)
  BY DEF TrayInv, TrayType
<1>4. TrayType' /\ OwnersAlive' /\ NoOwner'
  BY <1>1, <1>2, <1>3, OneMore, FS_AddElement DEF TrayInv, TrayType, OwnersAlive, NoOwner
<1>5. NotOurs'
  BY <1>1, <1>2, <1>3, OneMore DEF TrayInv, NotOurs
<1>6. \A j : ~Removes(m, j) /\ ~Ended(m, j)
  BY <1>2 DEF Removes, Ended
<1>7. ASSUME orderly, owner = "other" PROVE OthersShown(registry', asked, inbox', mItems)
  <2>1. Adds(m, i)
    BY <1>2, <1>7 DEF Adds
  <2>2. Shown(inbox', mItems, i)
    BY <1>1, <1>2, <1>3, <1>6, <2>1, OneMore
  <2>3. \A j \in registry : asked > 0 \/ Comes(inbox') \/ Shown(inbox', mItems, j)
    BY <1>1, <1>2, <1>3, <1>6, <1>7, OneMore DEF TrayInv, OthersShown
  <2> QED BY <1>1, <2>2, <2>3 DEF OthersShown
<1>8. ASSUME orderly, owner = "ours" PROVE OursKnown(registry', items, inbox')
  <2>1. Called(inbox', i)
    BY <1>1, <1>2, <1>3, <1>8, OneMore
  <2>2. \A j \in registry : Called(inbox', j) \/ (j \in items /\ ~Lost(inbox', Tray!App(j)))
    BY <1>1, <1>2, <1>3, <1>6, <1>8, OneMore DEF TrayInv, OursKnown
  <2> QED BY <1>1, <2>1, <2>2 DEF OursKnown
<1>9. ASSUME orderly PROVE ItemsShown(items, watched \cup watching, alive, inbox', mItems)
  BY <1>1, <1>2, <1>3, <1>6, <1>9, OneMore DEF TrayInv, ItemsShown
<1>10. ASSUME orderly PROVE RestHidden(IF owner = "ours" THEN items ELSE registry', inbox', mItems)
  <2>1. \A j \in TrayItems : ~Adds(m, j) \/ (j = i /\ owner # "ours")
    BY <1>2 DEF Adds
  <2>2. \A j \in TrayItems : Hidden(inbox, mItems, j) => Hidden(inbox', mItems, j) \/ (j = i /\ owner # "ours")
    BY <1>1, <1>2, <1>3, <2>1, OneMore
  <2> QED BY <1>1, <1>10, <2>2 DEF TrayInv, RestHidden
<1> QED BY <1>1, <1>4, <1>5, <1>7, <1>8, <1>9, <1>10, TrayInvPrimed

LEMMA OtherComesKeeps == ASSUME TrayInv, Tray!OtherComes PROVE TrayInv'
<1> DEFINE m == Tray!Msg("came", "other")
<1>1. /\ owner = "none" /\ owner' = "other" /\ registry' = {} /\ inbox' = Append(inbox, m)
      /\ UNCHANGED <<alive, items, watched, watching, asked, mItems, orderly>>
  BY DEF Tray!OtherComes
<1>2. m \in TrayMsg /\ m.kind = "came"
  BY DEF Tray!Msg, TrayMsg
<1> HIDE DEF m
<1>3. inbox \in Seq(TrayMsg)
  BY DEF TrayInv, TrayType
<1>4. TrayType' /\ OwnersAlive' /\ NoOwner'
  BY <1>1, <1>2, <1>3, OneMore, FS_EmptySet DEF TrayInv, TrayType, OwnersAlive, NoOwner
<1>5. NotOurs'
  BY <1>1, <1>2, <1>3, OneMore DEF TrayInv, NotOurs
<1>6. \A j : ~Adds(m, j)
  BY <1>2 DEF Adds
<1>7. items = {} /\ registry = {}
  BY <1>1 DEF TrayInv, NotOurs, NoOwner
<1>8. OthersShown(registry', asked', inbox', mItems')
      /\ ItemsShown(items', watched' \cup watching', alive', inbox', mItems')
  BY <1>1, <1>7 DEF OthersShown, ItemsShown
<1>9. ASSUME orderly PROVE RestHidden(registry', inbox', mItems')
  BY <1>1, <1>2, <1>3, <1>6, <1>7, <1>9, OneMore DEF TrayInv, RestHidden
<1> QED BY <1>1, <1>4, <1>5, <1>8, <1>9, TrayInvPrimed

LEMMA OtherGoesKeeps == ASSUME TrayInv, Tray!OtherGoes PROVE TrayInv'
<1> DEFINE m == Tray!Msg("gone", "other")
<1>1. /\ owner = "other" /\ owner' = "none" /\ registry' = {} /\ inbox' = Append(inbox, m)
      /\ UNCHANGED <<alive, items, watched, watching, asked, mItems, orderly>>
  BY DEF Tray!OtherGoes
<1>2. m \in TrayMsg /\ m.kind = "gone"
  BY DEF Tray!Msg, TrayMsg
<1> HIDE DEF m
<1>3. inbox \in Seq(TrayMsg)
  BY DEF TrayInv, TrayType
<1>4. TrayType' /\ OwnersAlive' /\ NoOwner'
  BY <1>1, <1>2, <1>3, OneMore, FS_EmptySet DEF TrayInv, TrayType, OwnersAlive, NoOwner
<1>5. NotOurs'
  BY <1>1, <1>2, <1>3, OneMore DEF TrayInv, NotOurs
<1>6. \A j : ~Adds(m, j) /\ Removes(m, j)
  BY <1>2 DEF Adds, Removes
<1>7. items = {}
  BY <1>1 DEF TrayInv, NotOurs
<1>8. ItemsShown(items', watched' \cup watching', alive', inbox', mItems')
  BY <1>1, <1>7 DEF ItemsShown
<1>9. RestHidden(registry', inbox', mItems')
  BY <1>1, <1>2, <1>3, <1>6, OneMore DEF RestHidden
<1> QED BY <1>1, <1>4, <1>5, <1>8, <1>9, TrayInvPrimed

LEMMA OtherAnswersKeeps == ASSUME TrayInv, Tray!OtherAnswers PROVE TrayInv'
<1>1. /\ asked > 0 /\ asked' = asked - 1
      /\ UNCHANGED <<owner, alive, registry, items, watched, watching, mItems, orderly>>
  BY DEF Tray!OtherAnswers
<1>2. CASE owner = "other"
  <2> DEFINE m == Tray!Msg("reply", registry)
  <2>1. inbox' = Append(inbox, m)
    BY <1>2 DEF Tray!OtherAnswers
  <2>2. m \in TrayMsg /\ m.kind = "reply" /\ m.about = registry
    BY DEF Tray!Msg, TrayMsg, TrayInv, TrayType
  <2> HIDE DEF m
  <2>3. inbox \in Seq(TrayMsg)
    BY DEF TrayInv, TrayType
  <2>4. TrayType' /\ OwnersAlive' /\ NoOwner'
    BY <1>1, <2>1, <2>2, <2>3, OneMore DEF TrayInv, TrayType, OwnersAlive, NoOwner
  <2>5. NotOurs'
    BY <1>1, <2>1, <2>2, <2>3, OneMore DEF TrayInv, NotOurs
  <2>6. \A j : ~Removes(m, j) /\ ~Ended(m, j) /\ (Adds(m, j) <=> j \in registry)
    BY <2>2 DEF Adds, Removes, Ended
  <2>7. OthersShown(registry', asked', inbox', mItems')
    BY <1>1, <2>1, <2>2, <2>3, <2>6, OneMore DEF OthersShown
  <2>8. orderly => ItemsShown(items', watched' \cup watching', alive', inbox', mItems')
    BY <1>1, <1>2 DEF TrayInv, NotOurs, ItemsShown
  <2>9. ASSUME orderly PROVE RestHidden(registry', inbox', mItems')
    BY <1>1, <1>2, <2>1, <2>2, <2>3, <2>6, <2>9, OneMore DEF TrayInv, RestHidden
  <2> QED BY <1>1, <1>2, <2>4, <2>5, <2>7, <2>8, <2>9, TrayInvPrimed
<1>3. CASE owner # "other"
  <2>1. UNCHANGED inbox
    BY <1>3 DEF Tray!OtherAnswers
  <2>2. TrayType' /\ OwnersAlive' /\ NotOurs' /\ NoOwner'
    BY <1>1, <2>1 DEF TrayInv, TrayType, OwnersAlive, NotOurs, NoOwner
  <2> QED BY <1>1, <1>3, <2>1, <2>2, TrayInvPrimed DEF TrayInv
<1> QED BY <1>2, <1>3

\* An application ends whose items were announced to our watcher, or to none.
LEMMA OursEndsKeeps == ASSUME TrayInv, NEW a \in Apps, Tray!Ends(a), owner # "other" PROVE TrayInv'
<1> DEFINE m == Tray!Msg("died", a)
<1>1. /\ alive' = alive \ {a} /\ registry' = registry \ Tray!ItemsOf(a)
      /\ inbox' = IF a \in watched THEN Append(inbox, m) ELSE inbox
      /\ orderly' = (orderly /\ a \notin watching)
      /\ UNCHANGED <<owner, items, watched, watching, asked, mItems>>
  BY DEF Tray!Ends
<1>2. m \in TrayMsg /\ m.kind = "died" /\ m.about = a
  BY DEF Tray!Msg, TrayMsg
<1> HIDE DEF m
<1>3. inbox \in Seq(TrayMsg) /\ IsFiniteSet(registry) /\ registry \in SUBSET TrayItems /\ orderly \in BOOLEAN
  BY DEF TrayInv, TrayType
<1>4. \A i \in TrayItems : i \in Tray!ItemsOf(a) <=> Tray!App(i) = a
  BY DEF Tray!ItemsOf
<1>5. inbox' \in Seq(TrayMsg)
  BY <1>1, <1>2, <1>3, OneMore
<1>6. IsFiniteSet(registry') /\ registry' \in SUBSET registry
  BY <1>1, <1>3, FS_Subset
<1>7. TrayType' /\ OwnersAlive' /\ NoOwner'
  BY <1>1, <1>3, <1>4, <1>5, <1>6 DEF TrayInv, TrayType, OwnersAlive, NoOwner
<1>8. NotOurs'
  BY <1>1 DEF TrayInv, NotOurs
<1>9. \A j : ~Removes(m, j) /\ ~Adds(m, j)
  BY <1>2 DEF Removes, Adds
<1>10. /\ \A j : /\ Shown(inbox, mItems, j) => Shown(inbox', mItems, j)
                 /\ Hidden(inbox, mItems, j) => Hidden(inbox', mItems, j)
       /\ \A b : /\ Lost(inbox, b) => Lost(inbox', b)
                 /\ b # a /\ Lost(inbox', b) => Lost(inbox, b)
       /\ \A j : Tray!App(j) # a /\ Called(inbox, j) => Called(inbox', j)
  <2>1. CASE a \in watched
    <3>1. inbox' = Append(inbox, m)
      BY <1>1, <2>1
    <3>2. \A b : b # a => ~Ended(m, b)
      BY <1>2 DEF Ended
    <3> QED BY <1>2, <1>3, <1>9, <3>1, <3>2, OneMore
  <2>2. CASE a \notin watched
    BY <1>1, <2>2
  <2> QED BY <2>1, <2>2
<1>11. a \in watched => Lost(inbox', a)
  BY <1>1, <1>2, <1>3, OneMore DEF Ended
<1>12. ASSUME orderly', owner = "ours" PROVE OursKnown(registry', items, inbox')
  <2>1. \A j \in registry' : j \in registry /\ Tray!App(j) # a
    BY <1>1, <1>3, <1>4
  <2> QED BY <1>1, <1>10, <1>12, <2>1 DEF TrayInv, OursKnown
<1>13. ASSUME orderly' PROVE ItemsShown(items, watched \cup watching, alive', inbox', mItems)
  <2> SUFFICES ASSUME NEW j \in items
               PROVE  /\ Tray!App(j) \in watched \cup watching
                      /\ Lost(inbox', Tray!App(j)) \/ (Tray!App(j) \in alive' /\ Shown(inbox', mItems, j))
    BY DEF ItemsShown
  <2>1. /\ Tray!App(j) \in watched \cup watching /\ a \notin watching
        /\ Lost(inbox, Tray!App(j)) \/ (Tray!App(j) \in alive /\ Shown(inbox, mItems, j))
    BY <1>1, <1>13 DEF TrayInv, ItemsShown
  <2> QED BY <1>1, <1>10, <1>11, <2>1
<1>14. ASSUME orderly' PROVE RestHidden(IF owner = "ours" THEN items ELSE registry', inbox', mItems)
  <2>1. owner # "ours" => registry = {}
    BY DEF TrayInv, TrayType, NoOwner
  <2> QED BY <1>1, <1>10, <1>14, <2>1 DEF TrayInv, RestHidden
<1> QED BY <1>1, <1>7, <1>8, <1>12, <1>13, <1>14, TrayInvPrimed

LEMMA SameCardinality == ASSUME NEW S PROVE Tray!Cardinality(S) = Cardinality(S)
BY DEF Tray!Cardinality, Cardinality

\* The other watcher tells of each item.
LEMMA OthersEndsKeeps == ASSUME TrayInv, NEW a \in Apps, Tray!Ends(a), owner = "other" PROVE TrayInv'
<1> DEFINE S == registry \cap Tray!ItemsOf(a)
<1>1. /\ alive' = alive \ {a} /\ registry' = registry \ Tray!ItemsOf(a)
      /\ orderly' = (orderly /\ a \notin watching)
      /\ UNCHANGED <<owner, items, watched, watching, asked, mItems>>
  BY DEF Tray!Ends
<1>2. PICK news \in Tray!Each("unregistered", S) : inbox' = inbox \o news
  BY DEF Tray!Ends
<1>3. inbox \in Seq(TrayMsg) /\ IsFiniteSet(registry) /\ registry \in SUBSET TrayItems /\ orderly \in BOOLEAN
  BY DEF TrayInv, TrayType
<1>4. \A i \in TrayItems : i \in Tray!ItemsOf(a) <=> Tray!App(i) = a
  BY DEF Tray!ItemsOf
<1>5. IsFiniteSet(registry') /\ registry' \in SUBSET registry
  BY <1>1, <1>3, FS_Subset
<1>6. /\ news \in Seq(TrayMsg)
      /\ \A k \in 1..Len(news) : news[k].kind = "unregistered" /\ news[k].about \in S
      /\ \A i \in S : \E k \in 1..Len(news) : news[k].kind = "unregistered" /\ news[k].about = i
  <2> DEFINE about == {Tray!Msg("unregistered", i) : i \in S}
             c == Cardinality(S)
  <2>1. c \in Nat
    <3>1. IsFiniteSet(S)
      BY <1>3, FS_Subset
    <3> QED BY <3>1, FS_CardinalityType
  <2>2. news \in [1..c -> about] /\ {news[k] : k \in DOMAIN news} = about
    BY SameCardinality DEF Tray!Each, Tray!ElementsOf
  <2>3. \A m \in about : m \in TrayMsg /\ m.kind = "unregistered" /\ m.about \in S
    BY <1>3 DEF Tray!Msg, TrayMsg
  <2>4. \A i \in S : \E m \in about : m.kind = "unregistered" /\ m.about = i
    <3> TAKE i \in S
    <3>1. Tray!Msg("unregistered", i) \in about /\ Tray!Msg("unregistered", i).kind = "unregistered"
          /\ Tray!Msg("unregistered", i).about = i
      BY DEF Tray!Msg
    <3> QED BY <3>1
  <2> HIDE DEF c, about
  <2>5. news \in Seq(about) /\ Len(news) = c /\ DOMAIN news = 1..c
    BY <2>1, <2>2
  <2>6. \A m \in about : \E k \in 1..c : news[k] = m
    BY <2>2
  <2>7. news \in Seq(TrayMsg)
    BY <2>1, <2>2, <2>3
  <2>8. \A k \in 1..c : news[k] \in about
    BY <2>2
  <2> QED BY <2>3, <2>4, <2>5, <2>6, <2>7, <2>8
<1> HIDE DEF S
<1>7. /\ inbox' \in Seq(TrayMsg) /\ Len(inbox') = Len(inbox) + Len(news) /\ Len(inbox) \in Nat /\ Len(news) \in Nat
      /\ \A k \in 1..Len(inbox) : inbox'[k] = inbox[k]
      /\ \A k \in 1..Len(news) : inbox'[k + Len(inbox)] = news[k]
  BY <1>2, <1>3, <1>6
<1>8. \A k \in 1..Len(inbox') : k > Len(inbox) => inbox'[k].kind = "unregistered" /\ inbox'[k].about \in S
  <2> SUFFICES ASSUME NEW k \in 1..Len(inbox'), k > Len(inbox)
               PROVE  inbox'[k].kind = "unregistered" /\ inbox'[k].about \in S
    OBVIOUS
  <2>1. Len(inbox') = Len(inbox) + Len(news) /\ Len(inbox) \in Nat /\ Len(news) \in Nat /\ k \in 1..Len(inbox')
    BY <1>7
  <2>2. k - Len(inbox) \in 1..Len(news) /\ (k - Len(inbox)) + Len(inbox) = k
    BY ONLY <2>1, k > Len(inbox)
  <2>3. PICK n \in 1..Len(news) : n + Len(inbox) = k
    BY <2>2
  <2>4. inbox'[k] = news[n]
    BY <1>7, <2>3
  <2> QED BY <1>6, <2>4
<1>9. \A i \in S : \E k \in 1..Len(inbox') : k > Len(inbox) /\ inbox'[k].kind = "unregistered" /\ inbox'[k].about = i
  <2> TAKE i \in S
  <2>1. PICK k \in 1..Len(news) : news[k].kind = "unregistered" /\ news[k].about = i
    BY <1>6
  <2>2. k + Len(inbox) \in 1..Len(inbox') /\ k + Len(inbox) > Len(inbox)
    BY <1>7
  <2> QED BY <1>7, <2>1, <2>2
<1>10. Len(inbox) <= Len(inbox')
  BY <1>7
<1>11. \A j : /\ j \notin S => \A k \in 1..Len(inbox') : k > Len(inbox) => ~Removes(inbox'[k], j)
              /\ \A k \in 1..Len(inbox') : k > Len(inbox) => ~Adds(inbox'[k], j)
              /\ j \in S => \E k \in 1..Len(inbox') : k > Len(inbox) /\ Removes(inbox'[k], j)
  BY <1>8, <1>9 DEF Removes, Adds
<1>12. /\ \A j : j \notin S /\ Shown(inbox, mItems, j) => Shown(inbox', mItems, j)
       /\ \A j : Hidden(inbox, mItems, j) => Hidden(inbox', mItems, j)
       /\ \A j \in S : Hidden(inbox', mItems, j)
       /\ Comes(inbox) => Comes(inbox')
  BY <1>3, <1>7, <1>10, <1>11, More
<1>13. TrayType' /\ OwnersAlive' /\ NoOwner'
  BY <1>1, <1>3, <1>4, <1>5, <1>7 DEF TrayInv, TrayType, OwnersAlive, NoOwner
<1>14. items = {} /\ watched = {} /\ watching = {} /\ \A k \in 1..Len(inbox) : inbox[k].kind \notin {"died", "call"}
  BY DEF TrayInv, NotOurs
<1>15. NotOurs'
  <2>1. \A k \in 1..Len(inbox') : k \in 1..Len(inbox) \/ k > Len(inbox)
    BY <1>7
  <2>2. \A k \in 1..Len(inbox') : inbox'[k].kind \notin {"died", "call"}
    BY <1>7, <1>8, <1>14, <2>1
  <2> QED BY <1>1, <1>14, <2>2 DEF NotOurs
<1>16. ASSUME orderly PROVE OthersShown(registry', asked, inbox', mItems)
  <2>1. \A j \in registry' : j \in registry /\ j \notin S
    BY <1>1 DEF S
  <2> QED BY <1>12, <1>16, <2>1 DEF TrayInv, OthersShown
<1>17. ItemsShown(items, watched \cup watching, alive', inbox', mItems)
  BY <1>14 DEF ItemsShown
<1>18. ASSUME orderly PROVE RestHidden(registry', inbox', mItems)
  <2>1. \A j \in TrayItems : j \in registry' \/ j \in S \/ j \notin registry
    BY <1>1 DEF S
  <2> QED BY <1>12, <1>18, <2>1 DEF TrayInv, RestHidden
<1> QED BY <1>1, <1>13, <1>15, <1>16, <1>17, <1>18, TrayInvPrimed

-----------------------------------------------------------------------------
LEMMA OnWatcherUnregisteredKeeps == ASSUME TrayInv, Tray!OnWatcherUnregistered PROVE TrayInv'
<1> DEFINE m == Tray!Msg("came", "ours")
           t == Tail(inbox)
<1>1. /\ inbox # <<>> /\ Head(inbox).kind = "gone" /\ mItems' = {}
      /\ \/ owner = "none" /\ owner' = "ours" /\ inbox' = Append(t, m)
         \/ owner # "none" /\ owner' = owner /\ inbox' = t
      /\ UNCHANGED <<alive, registry, items, watched, watching, asked, orderly>>
  BY DEF Tray!OnWatcherUnregistered, Tray!Next_
<1>2. m \in TrayMsg /\ m.kind = "came"
  BY DEF Tray!Msg, TrayMsg
<1> HIDE DEF m
<1>3. inbox \in Seq(TrayMsg)
  BY DEF TrayInv, TrayType
<1>4. \A j : /\ ~Adds(m, j) /\ ~Removes(m, j) /\ ~Ended(m, j)
             /\ ~Adds(Head(inbox), j) /\ Removes(Head(inbox), j) /\ ~Ended(Head(inbox), j)
  BY <1>1, <1>2 DEF Adds, Removes, Ended
<1>5. t \in Seq(TrayMsg) /\ inbox' \in Seq(TrayMsg)
  BY <1>1, <1>2, <1>3, OneLess, OneMore
<1>6. /\ \A j : /\ Shown(inbox, mItems, j) => Shown(t, {}, j)
                /\ Hidden(inbox, mItems, j) => Hidden(t, {}, j)
      /\ \A b : (Lost(t, b) => Lost(inbox, b)) /\ (Lost(inbox, b) => Lost(t, b))
      /\ \A j : Called(inbox, j) => Called(t, j)
      /\ Comes(inbox) => Comes(t)
  BY <1>1, <1>3, <1>4, OneLess
<1> HIDE DEF t
<1>7. /\ \A j : /\ Shown(inbox, mItems, j) => Shown(inbox', mItems', j)
                /\ Hidden(inbox, mItems, j) => Hidden(inbox', mItems', j)
      /\ \A b : (Lost(inbox', b) => Lost(inbox, b)) /\ (Lost(inbox, b) => Lost(inbox', b))
      /\ \A j : Called(inbox, j) => Called(inbox', j)
      /\ Comes(inbox) => Comes(inbox')
  <2>1. CASE inbox' = t
    BY <1>1, <1>6, <2>1
  <2>2. CASE inbox' = Append(t, m)
    BY <1>1, <1>2, <1>4, <1>5, <1>6, <2>2, OneMore
  <2> QED BY <1>1, <2>1, <2>2
<1>8. TrayType' /\ OwnersAlive' /\ NoOwner'
  BY <1>1, <1>5 DEF TrayInv, TrayType, OwnersAlive, NoOwner
<1>9. NotOurs'
  <2>1. ASSUME owner' # "ours" PROVE inbox' = t /\ owner # "ours"
    BY <1>1, <2>1
  <2>2. \A k \in 1..Len(t) : k + 1 \in 1..Len(inbox) /\ t[k] = inbox[k + 1]
    BY <1>1, <1>3, OneLess DEF t
  <2> QED BY <1>1, <2>1, <2>2 DEF TrayInv, NotOurs
<1>10. owner = "none" => registry = {} /\ items = {}
  BY DEF TrayInv, NoOwner, NotOurs
<1>11. ASSUME orderly, owner' = "other" PROVE OthersShown(registry, asked, inbox', mItems')
  BY <1>1, <1>7, <1>11 DEF TrayInv, OthersShown
<1>12. ASSUME orderly, owner' = "ours" PROVE OursKnown(registry, items, inbox')
  BY <1>1, <1>7, <1>10, <1>12 DEF TrayInv, OursKnown
<1>13. ASSUME orderly PROVE ItemsShown(items, watched \cup watching, alive, inbox', mItems')
  BY <1>7, <1>13 DEF TrayInv, ItemsShown
<1>14. ASSUME orderly PROVE RestHidden(IF owner' = "ours" THEN items ELSE registry, inbox', mItems')
  BY <1>1, <1>7, <1>10, <1>14 DEF TrayInv, RestHidden
<1> QED BY <1>1, <1>8, <1>9, <1>11, <1>12, <1>13, <1>14, TrayInvPrimed

LEMMA OnWatcherRegisteredKeeps == ASSUME TrayInv, Tray!OnWatcherRegistered PROVE TrayInv'
<1>1. /\ inbox # <<>> /\ Head(inbox).kind = "came" /\ inbox' = Tail(inbox)
      /\ asked' = IF owner = "ours" THEN asked ELSE asked + 1
      /\ UNCHANGED <<owner, alive, registry, items, watched, watching, mItems, orderly>>
  BY DEF Tray!OnWatcherRegistered, Tray!Next_
<1>2. inbox \in Seq(TrayMsg) /\ asked \in Nat
  BY DEF TrayInv, TrayType
<1>3. \A j : ~Adds(Head(inbox), j) /\ ~Removes(Head(inbox), j) /\ ~Ended(Head(inbox), j)
  BY <1>1 DEF Adds, Removes, Ended
<1>4. /\ inbox' \in Seq(TrayMsg)
      /\ \A k \in 1..Len(inbox') : k + 1 \in 1..Len(inbox) /\ inbox'[k] = inbox[k + 1]
      /\ \A j : /\ Shown(inbox, mItems, j) => Shown(inbox', mItems', j)
                /\ Hidden(inbox, mItems, j) => Hidden(inbox', mItems', j)
      /\ \A b : (Lost(inbox', b) => Lost(inbox, b)) /\ (Lost(inbox, b) => Lost(inbox', b))
      /\ \A j : Called(inbox, j) => Called(inbox', j)
  BY <1>1, <1>2, <1>3, OneLess
<1>5. TrayType' /\ OwnersAlive' /\ NoOwner' /\ NotOurs'
  BY <1>1, <1>4 DEF TrayInv, TrayType, OwnersAlive, NoOwner, NotOurs
<1>6. owner = "other" => OthersShown(registry, asked', inbox', mItems')
  BY <1>1, <1>2 DEF OthersShown
<1>7. ASSUME orderly, owner = "ours" PROVE OursKnown(registry, items, inbox')
  BY <1>4, <1>7 DEF TrayInv, OursKnown
<1>8. ASSUME orderly PROVE ItemsShown(items, watched \cup watching, alive, inbox', mItems')
  BY <1>4, <1>8 DEF TrayInv, ItemsShown
<1>9. ASSUME orderly PROVE RestHidden(IF owner = "ours" THEN items ELSE registry, inbox', mItems')
  BY <1>4, <1>9 DEF TrayInv, RestHidden
<1> QED BY <1>1, <1>5, <1>6, <1>7, <1>8, <1>9, TrayInvPrimed

LEMMA RegisterStatusNotifierItemKeeps == ASSUME TrayInv, Tray!RegisterStatusNotifierItem PROVE TrayInv'
<1> DEFINE i == Head(inbox).about
           t == Tail(inbox)
           m == Tray!Msg("registered", i)
<1>1. /\ inbox # <<>> /\ Head(inbox).kind = "call"
      /\ UNCHANGED <<owner, alive, registry, watched, asked, mItems, orderly>>
  BY DEF Tray!RegisterStatusNotifierItem, Tray!Next_
<1>2. \/ (i \in items \/ Tray!App(i) \notin alive) /\ inbox' = t /\ UNCHANGED <<items, watching>>
      \/ /\ i \notin items /\ Tray!App(i) \in alive /\ items' = items \cup {i}
         /\ watching' = watching \cup ({Tray!App(i)} \ watched) /\ inbox' = Append(t, m)
  BY DEF Tray!RegisterStatusNotifierItem, Tray!About
<1>3. inbox \in Seq(TrayMsg) /\ Head(inbox) \in TrayMsg /\ t \in Seq(TrayMsg) /\ Head(inbox) = inbox[1] /\ 1 \in 1..Len(inbox)
      /\ \A k \in 1..Len(t) : k + 1 \in 1..Len(inbox) /\ t[k] = inbox[k + 1]
  BY <1>1, OneLess DEF TrayInv, TrayType
<1>4. i \in TrayItems
  BY <1>1, <1>3 DEF TrayMsg
<1>5. owner = "ours"
  BY <1>1, <1>3 DEF TrayInv, NotOurs
<1>6. m \in TrayMsg /\ m.kind = "registered" /\ m.about = i
  BY <1>4 DEF Tray!Msg, TrayMsg
<1>7. \A j : ~Adds(Head(inbox), j) /\ ~Removes(Head(inbox), j) /\ ~Ended(Head(inbox), j)
  BY <1>1 DEF Adds, Removes, Ended
<1>8. /\ \A j : ~Removes(m, j) /\ ~Ended(m, j) /\ (j # i => ~Adds(m, j))
      /\ Adds(m, i)
  BY <1>6 DEF Adds, Removes, Ended
<1>9. /\ \A j : /\ Shown(inbox, mItems, j) => Shown(t, mItems, j)
                /\ Hidden(inbox, mItems, j) => Hidden(t, mItems, j)
      /\ \A b : (Lost(t, b) => Lost(inbox, b)) /\ (Lost(inbox, b) => Lost(t, b))
      /\ \A j : Called(inbox, j) => Called(t, j) \/ (j = i /\ ~Lost(t, Tray!App(j)))
  BY <1>1, <1>3, <1>7, OneLess
<1> HIDE DEF i, t, m
<1>10. CASE (i \in items \/ Tray!App(i) \notin alive) /\ inbox' = t /\ UNCHANGED <<items, watching>>
  <2>1. TrayType' /\ OwnersAlive' /\ NoOwner' /\ NotOurs'
    BY <1>1, <1>3, <1>5, <1>10 DEF TrayInv, TrayType, OwnersAlive, NoOwner, NotOurs
  <2>2. ASSUME orderly PROVE OursKnown(registry, items, inbox')
    <3>1. i \in registry => i \in items
      BY <1>10 DEF TrayInv, OwnersAlive
    <3> QED BY <1>5, <1>9, <1>10, <2>2, <3>1 DEF TrayInv, OursKnown
  <2>3. ASSUME orderly PROVE ItemsShown(items, watched \cup watching, alive, inbox', mItems)
    BY <1>9, <1>10, <2>3 DEF TrayInv, ItemsShown
  <2>4. ASSUME orderly PROVE RestHidden(items, inbox', mItems)
    BY <1>5, <1>9, <1>10, <2>4 DEF TrayInv, RestHidden
  <2> QED BY <1>1, <1>5, <1>10, <2>1, <2>2, <2>3, <2>4, TrayInvPrimed
<1>11. CASE /\ i \notin items /\ Tray!App(i) \in alive /\ items' = items \cup {i}
            /\ watching' = watching \cup ({Tray!App(i)} \ watched) /\ inbox' = Append(t, m)
  <2>1. /\ inbox' \in Seq(TrayMsg)
        /\ \A j : Shown(t, mItems, j) => Shown(inbox', mItems, j)
        /\ Shown(inbox', mItems, i)
        /\ \A j : j # i /\ Hidden(t, mItems, j) => Hidden(inbox', mItems, j)
        /\ \A b : (Lost(t, b) => Lost(inbox', b)) /\ (Lost(inbox', b) => Lost(t, b))
        /\ \A j : Called(t, j) => Called(inbox', j)
    BY <1>3, <1>6, <1>8, <1>11, OneMore
  <2>2. TrayType' /\ OwnersAlive' /\ NoOwner' /\ NotOurs'
    BY <1>1, <1>4, <1>5, <1>11, <2>1 DEF TrayInv, TrayType, OwnersAlive, NoOwner, NotOurs
  <2>3. ASSUME orderly PROVE OursKnown(registry, items', inbox')
    BY <1>5, <1>9, <1>11, <2>1, <2>3 DEF TrayInv, OursKnown
  <2>4. ASSUME orderly PROVE ItemsShown(items', watched \cup watching', alive, inbox', mItems)
    <3>1. \A j \in items : /\ Tray!App(j) \in watched \cup watching
                           /\ Lost(inbox, Tray!App(j)) \/ (Tray!App(j) \in alive /\ Shown(inbox, mItems, j))
      BY <2>4 DEF TrayInv, ItemsShown
    <3>2. watched \cup watching \subseteq watched \cup watching' /\ Tray!App(i) \in watched \cup watching'
      BY <1>11
    <3>3. \A j \in items : Tray!App(j) \in watched \cup watching'
      BY <3>1, <3>2
    <3> QED BY <1>9, <1>11, <2>1, <3>1, <3>2, <3>3 DEF ItemsShown
  <2>5. ASSUME orderly PROVE RestHidden(items', inbox', mItems)
    BY <1>5, <1>9, <1>11, <2>1, <2>5 DEF TrayInv, RestHidden
  <2> QED BY <1>1, <1>5, <2>2, <2>3, <2>4, <2>5, TrayInvPrimed
<1> QED BY <1>2, <1>10, <1>11

LEMMA OnServiceUnregisteredKeeps == ASSUME TrayInv, Tray!OnServiceUnregistered PROVE TrayInv'
<1> DEFINE a == Head(inbox).about
           t == Tail(inbox)
           gone == items \cap Tray!ItemsOf(a)
<1>1. /\ inbox # <<>> /\ Head(inbox).kind = "died" /\ items' = items \ gone
      /\ watched' = watched \ {a} /\ watching' = watching \ {a}
      /\ orderly' = (orderly /\ \A i, j \in gone : i = j)
      /\ UNCHANGED <<owner, alive, registry, asked, mItems>>
      /\ IF gone = {} THEN inbox' = t
         ELSE \E i \in gone : inbox' = Append(t, Tray!Msg("unregistered", i))
  BY DEF Tray!OnServiceUnregistered, Tray!Next_, Tray!About
<1>2. inbox \in Seq(TrayMsg) /\ Head(inbox) \in TrayMsg /\ t \in Seq(TrayMsg) /\ Head(inbox) = inbox[1] /\ 1 \in 1..Len(inbox)
      /\ items \in SUBSET TrayItems /\ orderly \in BOOLEAN
  BY <1>1, OneLess DEF TrayInv, TrayType
<1>3. owner = "ours"
  BY <1>1, <1>2 DEF TrayInv, NotOurs
<1>4. \A j : ~Adds(Head(inbox), j) /\ ~Removes(Head(inbox), j)
  BY <1>1 DEF Adds, Removes
<1>5. \A b : Ended(Head(inbox), b) => b = a
  BY DEF Ended
<1>6. Lost(inbox, a)
  BY <1>1, <1>2 DEF Lost, Ended
<1>7. /\ \A j : /\ Shown(inbox, mItems, j) => Shown(t, mItems, j)
                /\ Hidden(inbox, mItems, j) => Hidden(t, mItems, j)
      /\ \A b : (Lost(t, b) => Lost(inbox, b)) /\ (b # a /\ Lost(inbox, b) => Lost(t, b))
      /\ \A j : Called(inbox, j) => Called(t, j)
  BY <1>1, <1>2, <1>4, <1>5, OneLess
<1>8. \A j \in items : j \in gone <=> Tray!App(j) = a
  BY <1>2 DEF Tray!ItemsOf
<1> HIDE DEF a, t, gone
<1>9. gone \subseteq items
  BY DEF gone
<1>10. /\ inbox' \in Seq(TrayMsg)
       /\ \A j : j \notin gone /\ Shown(t, mItems, j) => Shown(inbox', mItems, j)
       /\ \A j : Hidden(t, mItems, j) => Hidden(inbox', mItems, j)
       /\ orderly' => \A j \in gone : Hidden(inbox', mItems, j)
       /\ \A b : (Lost(t, b) => Lost(inbox', b)) /\ (Lost(inbox', b) => Lost(t, b))
       /\ \A j : Called(t, j) => Called(inbox', j)
  <2>1. CASE gone = {}
    BY <1>1, <1>2, <2>1
  <2>2. CASE gone # {}
    <3>1. PICK i \in gone : inbox' = Append(t, Tray!Msg("unregistered", i))
      BY <1>1, <2>2
    <3> DEFINE m == Tray!Msg("unregistered", i)
    <3>2. m \in TrayMsg /\ m.kind = "unregistered" /\ m.about = i
      BY <1>2, <1>9 DEF Tray!Msg, TrayMsg
    <3>3. inbox' = Append(t, m)
      BY <3>1
    <3> HIDE DEF m
    <3>4. \A j : ~Adds(m, j) /\ ~Ended(m, j) /\ (Removes(m, j) <=> j = i)
      BY <3>2 DEF Adds, Removes, Ended
    <3>5. orderly' => \A j \in gone : j = i
      BY <1>1, <1>2
    <3> QED BY <1>2, <3>2, <3>3, <3>4, <3>5, OneMore
  <2> QED BY <2>1, <2>2
<1>11. TrayType' /\ OwnersAlive' /\ NoOwner' /\ NotOurs'
  <2>1. orderly' \in BOOLEAN
    BY <1>1, <1>2
  <2> QED BY <1>1, <1>3, <1>10, <2>1 DEF TrayInv, TrayType, OwnersAlive, NoOwner, NotOurs
<1>12. orderly' => orderly
  BY <1>1, <1>2
<1>13. ASSUME orderly PROVE OursKnown(registry, items', inbox')
  <2> SUFFICES ASSUME NEW j \in registry PROVE Called(inbox', j) \/ (j \in items' /\ ~Lost(inbox', Tray!App(j)))
    BY DEF OursKnown
  <2>1. Called(inbox, j) \/ (j \in items /\ ~Lost(inbox, Tray!App(j)))
    BY <1>3, <1>13 DEF TrayInv, OursKnown
  <2> QED BY <1>1, <1>6, <1>7, <1>8, <1>10, <2>1
<1>14. ASSUME orderly PROVE ItemsShown(items', watched' \cup watching', alive, inbox', mItems)
  <2> SUFFICES ASSUME NEW j \in items'
               PROVE  /\ Tray!App(j) \in watched' \cup watching'
                      /\ Lost(inbox', Tray!App(j)) \/ (Tray!App(j) \in alive /\ Shown(inbox', mItems, j))
    BY DEF ItemsShown
  <2>1. j \in items /\ j \notin gone /\ Tray!App(j) # a
    BY <1>1, <1>8
  <2>2. /\ Tray!App(j) \in watched \cup watching
        /\ Lost(inbox, Tray!App(j)) \/ (Tray!App(j) \in alive /\ Shown(inbox, mItems, j))
    BY <1>14, <2>1 DEF TrayInv, ItemsShown
  <2> QED BY <1>1, <1>7, <1>10, <2>1, <2>2
<1>15. ASSUME orderly' PROVE RestHidden(items', inbox', mItems)
  BY <1>1, <1>3, <1>7, <1>10, <1>12, <1>15 DEF TrayInv, RestHidden
<1> QED BY <1>1, <1>3, <1>11, <1>12, <1>13, <1>14, <1>15, TrayInvPrimed

\* The host's items change by the message taken.
LEMMA HostKeeps ==
  ASSUME TrayInv, inbox # <<>>, Head(inbox).kind \in {"registered", "reply", "unregistered"}, inbox' = Tail(inbox),
         mItems' \in SUBSET TrayItems, UNCHANGED <<owner, alive, registry, items, watched, watching, asked, orderly>>,
         \A j \in TrayItems : /\ j \in mItems /\ ~Removes(Head(inbox), j) => j \in mItems'
                              /\ Tray!App(j) \in alive /\ Adds(Head(inbox), j) => j \in mItems'
                              /\ j \in mItems' => (j \in mItems /\ ~Removes(Head(inbox), j)) \/ Adds(Head(inbox), j)
  PROVE  TrayInv'
<1>1. inbox \in Seq(TrayMsg)
  BY DEF TrayInv, TrayType
<1>2. /\ inbox' \in Seq(TrayMsg)
      /\ \A k \in 1..Len(inbox') : k + 1 \in 1..Len(inbox) /\ inbox'[k] = inbox[k + 1]
      /\ \A j \in TrayItems : /\ Tray!App(j) \in alive /\ Shown(inbox, mItems, j) => Shown(inbox', mItems', j)
                              /\ Hidden(inbox, mItems, j) => Hidden(inbox', mItems', j)
      /\ Comes(inbox) => Comes(inbox')
  BY <1>1, OneLess
<1>3. \A b : ~Ended(Head(inbox), b)
  BY DEF Ended
<1>4. /\ \A b : (Lost(inbox', b) => Lost(inbox, b)) /\ (Lost(inbox, b) => Lost(inbox', b))
      /\ \A j : Called(inbox, j) => Called(inbox', j)
  BY <1>1, <1>3, OneLess
<1>5. TrayType' /\ OwnersAlive' /\ NoOwner' /\ NotOurs'
  BY <1>2 DEF TrayInv, TrayType, OwnersAlive, NoOwner, NotOurs
<1>6. /\ registry \in SUBSET TrayItems /\ items \in SUBSET TrayItems
      /\ \A j \in registry : Tray!App(j) \in alive
  BY DEF TrayInv, TrayType, OwnersAlive
<1>7. ASSUME orderly, owner = "other" PROVE OthersShown(registry, asked, inbox', mItems')
  BY <1>2, <1>6, <1>7 DEF TrayInv, OthersShown
<1>8. ASSUME orderly, owner = "ours" PROVE OursKnown(registry, items, inbox')
  BY <1>4, <1>8 DEF TrayInv, OursKnown
<1>9. ASSUME orderly PROVE ItemsShown(items, watched \cup watching, alive, inbox', mItems')
  BY <1>2, <1>4, <1>6, <1>9 DEF TrayInv, ItemsShown
<1>10. ASSUME orderly PROVE RestHidden(IF owner = "ours" THEN items ELSE registry, inbox', mItems')
  BY <1>2, <1>10 DEF TrayInv, RestHidden
<1> QED BY <1>5, <1>7, <1>8, <1>9, <1>10, TrayInvPrimed

LEMMA HostItemsKeep ==
  ASSUME TrayInv, Tray!OnItemRegistered \/ Tray!OnItemUnregistered PROVE TrayInv'
<1>1. /\ inbox # <<>> /\ inbox' = Tail(inbox)
      /\ UNCHANGED <<owner, alive, registry, items, watched, watching, asked, orderly>>
  BY DEF Tray!OnItemRegistered, Tray!OnItemUnregistered, Tray!Next_
<1>2. Head(inbox) \in TrayMsg /\ mItems \in SUBSET TrayItems
  BY <1>1, OneLess DEF TrayInv, TrayType
<1> DEFINE m == Head(inbox)
<1>3. CASE m.kind = "registered" /\ mItems' = mItems \cup {i \in {m.about} : Tray!App(i) \in alive}
  <2>1. m.about \in TrayItems
    BY <1>2, <1>3 DEF TrayMsg
  <2>2. \A j : (Adds(m, j) <=> j = m.about) /\ ~Removes(m, j)
    BY <1>3 DEF Adds, Removes
  <2> QED BY <1>1, <1>2, <1>3, <2>1, <2>2, HostKeeps
<1>4. CASE m.kind = "reply" /\ mItems' = mItems \cup {i \in m.about : Tray!App(i) \in alive}
  <2>1. m.about \in SUBSET TrayItems
    BY <1>2, <1>4 DEF TrayMsg
  <2>2. \A j : (Adds(m, j) <=> j \in m.about) /\ ~Removes(m, j)
    BY <1>4 DEF Adds, Removes
  <2> QED BY <1>1, <1>2, <1>4, <2>1, <2>2, HostKeeps
<1>5. CASE m.kind = "unregistered" /\ mItems' = mItems \ {m.about}
  <2>1. \A j : (Removes(m, j) <=> j = m.about) /\ ~Adds(m, j)
    BY <1>5 DEF Adds, Removes
  <2> QED BY <1>1, <1>2, <1>5, <2>1, HostKeeps
<1> QED BY <1>3, <1>4, <1>5 DEF Tray!OnItemRegistered, Tray!OnItemUnregistered, Tray!Next_, Tray!About, Tray!Registered

-----------------------------------------------------------------------------
LEMMA NextTrayInv == ASSUME TrayInv, [Tray!Next]_(Tray!trayVars) PROVE TrayInv'
<1>1. CASE UNCHANGED Tray!trayVars
  <2>1. UNCHANGED <<owner, alive, registry, items, watched, watching, inbox, asked, mItems, orderly>>
    BY <1>1 DEF Tray!trayVars
  <2>2. TrayType' /\ OwnersAlive' /\ NotOurs' /\ NoOwner'
    BY <2>1 DEF TrayInv, TrayType, OwnersAlive, NotOurs, NoOwner
  <2> QED BY <2>1, <2>2, TrayInvPrimed DEF TrayInv
<1>2. ASSUME NEW a \in Apps, Tray!Launch(a) \/ Tray!Ends(a) \/ Tray!Watches(a) PROVE TrayInv'
  BY <1>2, LaunchKeeps, OursEndsKeeps, OthersEndsKeeps, WatchesKeeps
<1>3. ASSUME NEW i \in TrayItems, Tray!Announce(i) PROVE TrayInv'
  BY <1>3, AnnounceKeeps
<1>4. CASE Tray!OtherComes \/ Tray!OtherGoes \/ Tray!OtherAnswers
  BY <1>4, OtherComesKeeps, OtherGoesKeeps, OtherAnswersKeeps
<1>5. CASE Tray!Shell
  BY <1>5, OnWatcherUnregisteredKeeps, OnWatcherRegisteredKeeps, RegisterStatusNotifierItemKeeps,
     OnServiceUnregisteredKeeps, HostItemsKeep DEF Tray!Shell
<1> QED BY <1>1, <1>2, <1>3, <1>4, <1>5 DEF Tray!Next

\* When everything was delivered the tray shows what was announced to the present watcher, ours or
\* another's, and nothing of an application that ended, whichever of them came and went, in the
\* orderly case (src/src/services/status_notifier/).
THEOREM TrayFollows == Spec => []TrayIsCurrent
<1>1. TrayInv => TrayIsCurrent
  <2> SUFFICES ASSUME TrayInv, orderly, inbox = <<>>, asked = 0
               PROVE  registry \subseteq mItems /\ \A i \in mItems : Tray!App(i) \in alive
    BY DEF TrayIsCurrent, Tray!TrayIsCurrent
  <2>1. \A k \in 1..Len(inbox) : FALSE
    OBVIOUS
  <2>2. /\ \A j : Shown(inbox, mItems, j) => j \in mItems
        /\ \A j : Hidden(inbox, mItems, j) => j \notin mItems
        /\ \A b : ~Lost(inbox, b)
        /\ \A j : ~Called(inbox, j)
        /\ ~Comes(inbox)
    BY <2>1 DEF Shown, Hidden, Lost, Called, Comes
  <2>3. /\ \A j \in items : Tray!App(j) \in alive /\ j \in mItems
        /\ \A j \in TrayItems : j \in mItems => j \in IF owner = "ours" THEN items ELSE registry
        /\ mItems \in SUBSET TrayItems /\ \A j \in registry : Tray!App(j) \in alive
    BY <2>2 DEF TrayInv, ItemsShown, RestHidden, TrayType, OwnersAlive
  <2>4. CASE owner = "ours"
    BY <2>2, <2>3, <2>4 DEF TrayInv, OursKnown
  <2>5. CASE owner = "other"
    BY <2>2, <2>3, <2>5 DEF TrayInv, OthersShown
  <2>6. CASE owner = "none"
    BY <2>3, <2>6 DEF TrayInv, NoOwner
  <2> QED BY <2>4, <2>5, <2>6 DEF TrayInv, TrayType
<1>2. TrayInv /\ [Tray!Next]_(Tray!trayVars) => TrayInv'
  BY NextTrayInv
<1> QED BY <1>1, <1>2, InitTrayInv, TraySteps, PTL DEF Tray!Spec

-----------------------------------------------------------------------------
(* A least number.                                                          *)

\* A set of numbers has a least one.
LEMMA Smallest == ASSUME NEW S \in SUBSET Nat, S # {} PROVE \E n \in S : \A k \in S : n <= k
<1> DEFINE Less == OpToRel(<, Nat)
<1>1. IsWellFoundedOn(Less, Nat)
  BY NatLessThanWellFounded
<1>2. \A j, k \in Nat : <<j, k>> \in Less <=> j < k
  BY DEF OpToRel
<1> HIDE DEF Less
<1>3. PICK m \in S : \A k \in S : <<k, m>> \notin Less
  <2>1. \E m \in S : \A k \in S : <<k, m>> \notin Less
    BY <1>1, WFMin
  <2> QED BY <2>1
<1>4. ASSUME NEW k \in S PROVE m <= k
  <2>1. m \in Nat /\ k \in Nat
    OBVIOUS
  <2>2. ~(k < m)
    BY <1>2, <1>3, <2>1
  <2> QED BY <2>1, <2>2
<1> QED BY <1>4

-----------------------------------------------------------------------------
(* The parser of streams: what a scan finds.                                 *)

\* The k-th position that a scan finds is the leftmost one from where it resumes, and after the
\* last it finds there is none.
Resumes(c, k, lo, skip) == IF k = 1 THEN lo ELSE c[k - 1] + skip
Leftmost(c, at, lo, hi, skip) ==
  /\ c \in Seq(Int)
  /\ \A k \in 1..Len(c) : /\ c[k] \in at /\ c[k] <= hi /\ Resumes(c, k, lo, skip) <= c[k]
                          /\ \A j \in Int : Resumes(c, k, lo, skip) <= j /\ j < c[k] => j \notin at
  /\ \A j \in Int : Resumes(c, Len(c) + 1, lo, skip) <= j /\ j <= hi => j \notin at

LEMMA FindsFirst ==
  ASSUME NEW at, NEW i \in Int, NEW hi \in Int, NEW skip \in Nat, NEW d,
         i <= hi, i \in at, Leftmost(d, at, i + skip, hi, skip)
  PROVE  Leftmost(<<i>> \o d, at, i, hi, skip)
<1> DEFINE c == <<i>> \o d
<1>1. d \in Seq(Int) /\ Len(d) \in Nat
  BY DEF Leftmost
<1>2. <<i>> \in Seq(Int) /\ Len(<<i>>) = 1 /\ <<i>>[1] = i
  OBVIOUS
<1>3. c \in Seq(Int) /\ Len(c) = Len(d) + 1 /\ c[1] = i /\ \A k \in 1..Len(d) : c[k + 1] = d[k]
  BY <1>1, <1>2, ConcatProperties
<1> HIDE DEF c
<1>4. ASSUME NEW k \in 1..Len(d) + 1
      PROVE  Resumes(c, k + 1, i, skip) = Resumes(d, k, i + skip, skip)
  <2>1. CASE k = 1
    BY <1>3, <2>1 DEF Resumes
  <2>2. CASE k # 1
    <3>1. k - 1 \in 1..Len(d) /\ k + 1 # 1 /\ (k + 1) - 1 = (k - 1) + 1
      BY <1>1, <2>2
    <3>2. c[(k - 1) + 1] = d[k - 1]
      BY <1>3, <3>1
    <3> QED BY <2>2, <3>1, <3>2 DEF Resumes
  <2> QED BY <2>1, <2>2
<1>5. ASSUME NEW k \in 1..Len(c)
      PROVE  /\ c[k] \in at /\ c[k] <= hi /\ Resumes(c, k, i, skip) <= c[k]
             /\ \A j \in Int : Resumes(c, k, i, skip) <= j /\ j < c[k] => j \notin at
  <2>1. CASE k = 1
    BY <1>3, <2>1 DEF Resumes
  <2>2. CASE k # 1
    <3>1. k - 1 \in 1..Len(d) /\ k = (k - 1) + 1
      BY <1>1, <1>3, <2>2
    <3>2. c[(k - 1) + 1] = d[k - 1]
      BY <1>3, <3>1
    <3>3. k - 1 \in 1..Len(d) + 1
      BY <1>1, <3>1
    <3>4. Resumes(c, (k - 1) + 1, i, skip) = Resumes(d, k - 1, i + skip, skip)
      BY <1>4, <3>3
    <3>5. c[k] = d[k - 1] /\ Resumes(c, k, i, skip) = Resumes(d, k - 1, i + skip, skip)
      BY <3>1, <3>2, <3>4
    <3> QED BY <3>1, <3>5 DEF Leftmost
  <2> QED BY <2>1, <2>2
<1>6. Resumes(c, Len(c) + 1, i, skip) = Resumes(d, Len(d) + 1, i + skip, skip)
  BY <1>1, <1>3, <1>4
<1> QED BY <1>3, <1>5, <1>6 DEF Leftmost, c

LEMMA SkipsFirst ==
  ASSUME NEW at, NEW i \in Int, NEW hi \in Int, NEW skip \in Nat, NEW d,
         i \notin at, Leftmost(d, at, i + 1, hi, skip)
  PROVE  Leftmost(d, at, i, hi, skip)
<1>1. Len(d) \in Nat
  BY DEF Leftmost
<1>2. \A k \in Nat : k # 1 => Resumes(d, k, i, skip) = Resumes(d, k, i + 1, skip)
  BY DEF Resumes
<1>3. Resumes(d, 1, i, skip) = i /\ Resumes(d, 1, i + 1, skip) = i + 1
  BY DEF Resumes
<1>4. ASSUME NEW k \in 1..Len(d)
      PROVE  /\ d[k] \in at /\ d[k] <= hi /\ Resumes(d, k, i, skip) <= d[k]
             /\ \A j \in Int : Resumes(d, k, i, skip) <= j /\ j < d[k] => j \notin at
  <2>1. d[k] \in Int
    BY DEF Leftmost
  <2>2. CASE k = 1
    BY <1>3, <2>1, <2>2 DEF Leftmost
  <2>3. CASE k # 1
    BY <1>2, <2>3 DEF Leftmost
  <2> QED BY <2>2, <2>3
<1>5. ASSUME NEW j \in Int, Resumes(d, Len(d) + 1, i, skip) <= j, j <= hi
      PROVE  j \notin at
  <2>1. CASE Len(d) = 0
    BY <1>3, <1>5, <2>1 DEF Leftmost
  <2>2. CASE Len(d) # 0
    BY <1>1, <1>2, <1>5, <2>2 DEF Leftmost
  <2> QED BY <2>1, <2>2
<1> QED BY <1>4, <1>5 DEF Leftmost

\* The scan of parseBytes() finds the leftmost positions.
LEMMA ScanIsLeftmost ==
  ASSUME NEW at, NEW lo \in Int, NEW hi \in Int, NEW skip \in Nat \ {0}, lo <= hi + skip
  PROVE  Leftmost(Parser!Scan(at, lo, hi, skip), at, lo, hi, skip)
<1> DEFINE Rest(f, i)    == IF i > hi THEN <<>> ELSE IF i \in at THEN <<i>> \o f[i + skip] ELSE f[i + 1]
           IsScan(f, bot) == f = [i \in bot..hi + skip |-> Rest(f, i)]
           Bad           == {n \in Nat : ~\E f : IsScan(f, hi + skip - n)}
<1>1. Bad = {}
  <2> SUFFICES ASSUME Bad # {} PROVE FALSE
    OBVIOUS
  <2>1. PICK n \in Bad : \A m \in Bad : n <= m
    BY Smallest
  <2> DEFINE bot == hi + skip - n
  <2>2. bot \in Int /\ bot <= hi + skip
    OBVIOUS
  <2>3. CASE n = 0
    <3> DEFINE f == [i \in bot..hi + skip |-> <<>>]
    <3>1. \A i \in bot..hi + skip : i > hi
      BY <2>3
    <3>2. IsScan(f, bot)
      BY <3>1
    <3> QED BY <3>2
  <2>4. CASE n # 0
    <3>1. n - 1 \in Nat /\ n - 1 \notin Bad
      <4>1. n \in Nat
        OBVIOUS
      <4> HIDE DEF Bad
      <4> QED BY <2>1, <2>4, <4>1
    <3>2. PICK g : IsScan(g, hi + skip - (n - 1))
      BY <3>1
    <3>3. hi + skip - (n - 1) = bot + 1
      OBVIOUS
    <3> DEFINE f == [i \in bot..hi + skip |-> IF i = bot THEN Rest(g, bot) ELSE g[i]]
    <3>4. ASSUME NEW i \in bot..hi + skip PROVE Rest(f, i) = Rest(g, i)
      <4>1. CASE i > hi
        BY <4>1
      <4>2. CASE ~(i > hi)
        <5>1. /\ i + skip \in bot..hi + skip /\ i + skip # bot
              /\ i + 1 \in bot..hi + skip /\ i + 1 # bot
          BY <2>2, <4>2
        <5>2. f[i + skip] = g[i + skip] /\ f[i + 1] = g[i + 1]
          BY <5>1
        <5> HIDE DEF f
        <5> QED BY <5>2
      <4> QED BY <4>1, <4>2
    <3>5. ASSUME NEW i \in bot..hi + skip PROVE f[i] = Rest(g, i)
      <4>1. CASE i = bot
        BY <4>1
      <4>2. CASE i # bot
        <5>1. i \in (bot + 1)..(hi + skip)
          BY <2>2, <4>2
        <5>2. g[i] = Rest(g, i)
          BY <3>2, <3>3, <5>1
        <5> QED BY <4>2, <5>2
      <4> QED BY <4>1, <4>2
    <3>6. IsScan(f, bot)
      <4>1. f = [i \in bot..hi + skip |-> f[i]]
        OBVIOUS
      <4> HIDE DEF f
      <4>2. \A i \in bot..hi + skip : f[i] = Rest(f, i)
        BY <3>4, <3>5
      <4> HIDE DEF Rest
      <4> QED BY <4>1, <4>2
    <3> HIDE DEF f, IsScan
    <3> QED BY <3>6
  <2> QED BY <2>3, <2>4
<1> DEFINE found == CHOOSE f : IsScan(f, lo)
<1>2. IsScan(found, lo)
  <2>1. hi + skip - lo \in Nat /\ hi + skip - (hi + skip - lo) = lo
    OBVIOUS
  <2>2. hi + skip - lo \notin Bad
    BY <1>1
  <2> HIDE DEF IsScan
  <2>3. \E f : IsScan(f, hi + skip - (hi + skip - lo))
    BY <2>1, <2>2
  <2>4. \E f : IsScan(f, lo)
    BY <2>1, <2>3
  <2> QED BY <2>4
<1>3. Parser!Scan(at, lo, hi, skip) = found[lo]
  BY DEF Parser!Scan
<1> HIDE DEF found
<1> DEFINE Wrong == {n \in Nat : /\ n <= hi + skip - lo
                                 /\ ~Leftmost(found[hi + skip - n], at, hi + skip - n, hi, skip)}
<1>4. \A i \in lo..hi + skip : found[i] = Rest(found, i)
  BY <1>2
<1> HIDE DEF IsScan, Bad
<1>5. Wrong = {}
  <2> SUFFICES ASSUME Wrong # {} PROVE FALSE
    OBVIOUS
  <2>1. PICK n \in Wrong : \A m \in Wrong : n <= m
    <3>1. Wrong \in SUBSET Nat
      OBVIOUS
    <3> HIDE DEF Wrong
    <3> QED BY <3>1, Smallest
  <2> DEFINE i == hi + skip - n
  <2>2. i \in lo..hi + skip /\ n \in Nat /\ i \in Int /\ ~Leftmost(found[i], at, i, hi, skip)
    OBVIOUS
  <2>3. ASSUME NEW j \in i + 1..hi + skip PROVE Leftmost(found[j], at, j, hi, skip)
    <3>1. hi + skip - j \in Nat /\ hi + skip - j < n /\ hi + skip - (hi + skip - j) = j
          /\ hi + skip - j <= hi + skip - lo
      BY <2>2
    <3>2. hi + skip - j \notin Wrong
      BY <2>1, <2>2, <3>1
    <3> QED BY <3>1, <3>2
  <2>4. found[i] = Rest(found, i)
    BY <1>4, <2>2
  <2> HIDE DEF i, Wrong
  <2>5. CASE i > hi
    <3>1. found[i] = <<>>
      BY <2>4, <2>5
    <3>2. Leftmost(<<>>, at, i, hi, skip)
      BY <2>2, <2>5 DEF Leftmost, Resumes
    <3> QED BY <2>2, <3>1, <3>2
  <2>6. CASE ~(i > hi) /\ i \in at
    <3>1. found[i] = <<i>> \o found[i + skip]
      BY <2>4, <2>6
    <3>2. i + skip \in i + 1..hi + skip /\ i <= hi
      BY <2>2, <2>6
    <3>3. Leftmost(<<i>> \o found[i + skip], at, i, hi, skip)
      BY <2>2, <2>3, <2>6, <3>2, FindsFirst
    <3> QED BY <2>2, <3>1, <3>3
  <2>7. CASE ~(i > hi) /\ i \notin at
    <3>1. found[i] = found[i + 1]
      BY <2>4, <2>7
    <3>2. i + 1 \in i + 1..hi + skip
      BY <2>2, <2>7
    <3>3. Leftmost(found[i + 1], at, i, hi, skip)
      BY <2>2, <2>3, <2>7, <3>2, SkipsFirst
    <3> QED BY <2>2, <3>1, <3>3
  <2> QED BY <2>5, <2>6, <2>7
<1>6. hi + skip - lo \in Nat /\ hi + skip - (hi + skip - lo) = lo
  OBVIOUS
<1>7. hi + skip - lo \notin Wrong
  BY <1>5
<1> QED BY <1>3, <1>6, <1>7

LEMMA ResumesLater ==
  ASSUME NEW at, NEW lo \in Int, NEW hi, NEW skip \in Nat, NEW c, Leftmost(c, at, lo, hi, skip),
         NEW k \in 1..Len(c) + 1
  PROVE  Resumes(c, k, lo, skip) \in Int /\ lo <= Resumes(c, k, lo, skip)
<1> DEFINE Low == {m \in 1..Len(c) + 1 : Resumes(c, m, lo, skip) < lo}
<1>1. Len(c) \in Nat /\ \A m \in 1..Len(c) : c[m] \in Int
  BY DEF Leftmost
<1>2. \A m \in 1..Len(c) + 1 : Resumes(c, m, lo, skip) \in Int
  BY <1>1 DEF Resumes
<1>3. ASSUME Low # {} PROVE FALSE
  <2>1. PICK m \in Low : \A l \in Low : m <= l
    <3>1. Low \in SUBSET Nat
      BY <1>1
    <3> HIDE DEF Low
    <3> QED BY <1>3, <3>1, Smallest
  <2>2. m \in 1..Len(c) + 1 /\ Resumes(c, m, lo, skip) < lo
    OBVIOUS
  <2>3. CASE m = 1
    BY <2>2, <2>3 DEF Resumes
  <2>4. CASE m # 1
    <3>1. m - 1 \in 1..Len(c) /\ m - 1 \notin Low /\ m - 1 \in 1..Len(c) + 1
      BY <1>1, <2>1, <2>2, <2>4
    <3>2. ~(Resumes(c, m - 1, lo, skip) < lo)
      BY <3>1
    <3>3. Resumes(c, m - 1, lo, skip) <= c[m - 1]
      BY <3>1 DEF Leftmost
    <3>4. Resumes(c, m, lo, skip) = c[m - 1] + skip
      BY <2>4 DEF Resumes
    <3>5. c[m - 1] \in Int /\ Resumes(c, m - 1, lo, skip) \in Int
      BY <1>1, <1>2, <3>1
    <3> QED BY <2>2, <3>2, <3>3, <3>4, <3>5
  <2> QED BY <2>3, <2>4
<1>4. ~(Resumes(c, k, lo, skip) < lo)
  BY <1>3
<1> QED BY <1>2, <1>4

Begins(c, d) == Len(c) <= Len(d) /\ \A k \in 1..Len(c) : d[k] = c[k]

\* Of two that find the same up to where the first ends, the first is the beginning of the second.
LEMMA LeftmostBegins ==
  ASSUME NEW at, NEW at2, NEW lo \in Int, NEW hi \in Int, NEW hi2 \in Int, NEW skip \in Nat,
         NEW c, NEW d, Leftmost(c, at, lo, hi, skip), Leftmost(d, at2, lo, hi2, skip),
         hi <= hi2, \A j \in Int : lo <= j /\ j <= hi => (j \in at <=> j \in at2)
  PROVE  Begins(c, d)
<1> DEFINE Bad == {k \in 1..Len(c) : ~(k <= Len(d) /\ d[k] = c[k])}
<1>1. /\ c \in Seq(Int) /\ d \in Seq(Int) /\ Len(c) \in Nat /\ Len(d) \in Nat
      /\ \A k \in 1..Len(c) : c[k] \in Int
      /\ \A k \in 1..Len(d) : d[k] \in Int
  BY DEF Leftmost
<1>2. ASSUME Bad # {} PROVE FALSE
  <2>1. PICK k \in Bad : \A m \in Bad : k <= m
    <3>1. Bad \in SUBSET Nat
      OBVIOUS
    <3> HIDE DEF Bad
    <3> QED BY <1>2, <3>1, Smallest
  <2>2. k \in 1..Len(c) /\ k \in Nat
    OBVIOUS
  <2>3. k = 1 \/ (k - 1 \in 1..Len(c) /\ k - 1 <= Len(d) /\ d[k - 1] = c[k - 1])
    <3>1. CASE k # 1
      <4>1. k - 1 \in 1..Len(c) /\ k - 1 < k /\ k - 1 \in Nat
        BY <1>1, <2>2, <3>1
      <4>2. k - 1 \notin Bad
        <5> HIDE DEF Bad
        <5> QED BY <2>1, <2>2, <4>1
      <4> QED BY <4>1, <4>2
    <3> QED BY <3>1
  <2>4. ~(k <= Len(d) /\ d[k] = c[k])
    OBVIOUS
  <2> HIDE DEF Bad
  <2> DEFINE r == Resumes(c, k, lo, skip)
  <2>5. r = Resumes(d, k, lo, skip)
    BY <2>3 DEF Resumes
  <2>6. r \in Int /\ lo <= c[k] /\ c[k] \in at2
    <3>0. k \in 1..Len(c) + 1
      BY <1>1, <2>2
    <3>1. r \in Int
      BY <3>0, ResumesLater
    <3>2. c[k] \in at /\ c[k] <= hi /\ r <= c[k]
      BY <2>2 DEF Leftmost
    <3>3. lo <= r
      BY <3>0, ResumesLater
    <3> QED BY <1>1, <2>2, <3>1, <3>2, <3>3
  <2>7. c[k] <= hi /\ r <= c[k] /\ c[k] \in Int /\ (\A j \in Int : r <= j /\ j < c[k] => j \notin at)
    BY <1>1, <2>2 DEF Leftmost
  <2> HIDE DEF r
  <2>8. CASE k <= Len(d)
    <3>1. k \in 1..Len(d) /\ d[k] \in Int
      BY <1>1, <2>2, <2>8
    <3>2. d[k] \in at2 /\ r <= d[k] /\ (\A j \in Int : r <= j /\ j < d[k] => j \notin at2)
      BY <2>5, <3>1 DEF Leftmost
    <3>3. ~(c[k] < d[k])
      BY <2>6, <2>7, <3>2
    <3>4. d[k] < c[k]
      BY <2>4, <2>7, <2>8, <3>1, <3>3
    <3>5. lo <= d[k]
      <4>1. lo <= r
        <5>1. k \in 1..Len(c) + 1
          BY <1>1, <2>2
        <5> QED BY <5>1, ResumesLater DEF r
      <4> QED BY <2>6, <3>1, <3>2, <4>1
    <3>6. d[k] \in at
      BY <2>7, <3>1, <3>2, <3>4, <3>5
    <3> QED BY <2>7, <3>1, <3>2, <3>4, <3>6
  <2>9. CASE ~(k <= Len(d))
    <3>1. k = Len(d) + 1
      BY <1>1, <2>2, <2>3, <2>9
    <3>2. \A j \in Int : Resumes(d, Len(d) + 1, lo, skip) <= j /\ j <= hi2 => j \notin at2
      BY DEF Leftmost
    <3> QED BY <2>5, <2>6, <2>7, <3>1, <3>2
  <2> QED BY <2>8, <2>9
<1>3. \A k \in 1..Len(c) : k <= Len(d) /\ d[k] = c[k]
  BY <1>2
<1>4. Len(c) <= Len(d)
  BY <1>1, <1>3
<1> QED BY <1>3, <1>4 DEF Begins

\* What is left of such positions, after some of them.
LEMMA LeftmostEnds ==
  ASSUME NEW at, NEW lo \in Int, NEW hi \in Int, NEW skip \in Nat, NEW c,
         Leftmost(c, at, lo, hi, skip), NEW b \in 0..Len(c), NEW e,
         e = [k \in 1..Len(c) - b |-> c[b + k]]
  PROVE  Leftmost(e, at, Resumes(c, b + 1, lo, skip), hi, skip)
<1> DEFINE from == Resumes(c, b + 1, lo, skip)
<1>1. c \in Seq(Int) /\ Len(c) \in Nat /\ \A k \in 1..Len(c) : c[k] \in Int
  BY DEF Leftmost
<1>2. Len(c) - b \in Nat /\ \A k \in 1..Len(c) - b : b + k \in 1..Len(c)
  BY <1>1
<1>3. e \in Seq(Int) /\ Len(e) = Len(c) - b /\ \A k \in 1..Len(e) : e[k] = c[b + k]
  BY <1>1, <1>2
<1>4. ASSUME NEW k \in 1..Len(e) + 1
      PROVE  Resumes(e, k, from, skip) = Resumes(c, b + k, lo, skip)
  <2>1. CASE k = 1
    BY <2>1 DEF Resumes
  <2>2. CASE k # 1
    <3>1. k - 1 \in 1..Len(e) /\ b + k # 1 /\ (b + k) - 1 = b + (k - 1)
      BY <1>2, <1>3, <2>2
    <3>2. e[k - 1] = c[b + (k - 1)]
      BY <1>3, <3>1
    <3> QED BY <2>2, <3>1, <3>2 DEF Resumes
  <2> QED BY <2>1, <2>2
<1> HIDE DEF from
<1>5. ASSUME NEW k \in 1..Len(e)
      PROVE  /\ e[k] \in at /\ e[k] <= hi /\ Resumes(e, k, from, skip) <= e[k]
             /\ \A j \in Int : Resumes(e, k, from, skip) <= j /\ j < e[k] => j \notin at
  <2>1. k \in 1..Len(e) + 1 /\ b + k \in 1..Len(c)
    BY <1>2, <1>3
  <2>2. e[k] = c[b + k] /\ Resumes(e, k, from, skip) = Resumes(c, b + k, lo, skip)
    BY <1>3, <1>4, <2>1
  <2> QED BY <2>1, <2>2 DEF Leftmost
<1>6. Resumes(e, Len(e) + 1, from, skip) = Resumes(c, Len(c) + 1, lo, skip)
  <2>1. Len(e) + 1 \in 1..Len(e) + 1 /\ b + (Len(e) + 1) = Len(c) + 1
    BY <1>2, <1>3
  <2> QED BY <1>4, <2>1
<1>7. \A j \in Int : Resumes(e, Len(e) + 1, from, skip) <= j /\ j <= hi => j \notin at
  BY <1>6 DEF Leftmost
<1> QED BY <1>3, <1>5, <1>7 DEF Leftmost, from

\* There is one sequence of them.
LEMMA OneLeftmost ==
  ASSUME NEW at, NEW lo \in Int, NEW hi \in Int, NEW skip \in Nat,
         NEW c, NEW d, Leftmost(c, at, lo, hi, skip), Leftmost(d, at, lo, hi, skip)
  PROVE  c = d
<1>0. hi <= hi /\ \A j \in Int : lo <= j /\ j <= hi => (j \in at <=> j \in at)
  OBVIOUS
<1>1. Begins(c, d) /\ Begins(d, c)
  BY <1>0, LeftmostBegins
<1>3. c \in Seq(Int) /\ d \in Seq(Int) /\ Len(c) \in Nat /\ Len(d) \in Nat
  BY DEF Leftmost
<1>4. Len(c) = Len(d)
  BY <1>1, <1>3 DEF Begins
<1> QED BY <1>1, <1>3, <1>4, SeqEqual DEF Begins

-----------------------------------------------------------------------------
(* The parser of streams: parts of sequences                                 *)

LEMMA PartOf ==
  ASSUME NEW S, NEW t \in Seq(S), NEW x \in Int, NEW y \in Int, 1 <= x, y <= Len(t)
  PROVE  /\ SubSeq(t, x, y) \in Seq(S)
         /\ Len(SubSeq(t, x, y)) = IF x <= y THEN y - x + 1 ELSE 0
         /\ \A i \in 1..y - x + 1 : SubSeq(t, x, y)[i] = t[x + i - 1]
<1>1. Len(t) \in Nat
  OBVIOUS
<1>2. \A i \in x..y : i \in 1..Len(t)
  BY <1>1
<1>3. \A i \in x..y : t[i] \in S
  BY <1>2, ElementOfSeq
<1> QED BY <1>3, SubSeqProperties

\* A part is equal to a sequence if their elements are.
LEMMA PartIs ==
  ASSUME NEW S, NEW t \in Seq(S), NEW m \in Seq(S), NEW p \in Nat, p + Len(m) <= Len(t)
  PROVE  SubSeq(t, p + 1, p + Len(m)) = m <=> \A k \in 1..Len(m) : t[p + k] = m[k]
<1> DEFINE q == SubSeq(t, p + 1, p + Len(m))
<1>1. Len(m) \in Nat /\ p + 1 \in Int /\ p + Len(m) \in Int
  OBVIOUS
<1>2. q \in Seq(S) /\ Len(q) = Len(m) /\ \A i \in 1..Len(m) : q[i] = t[p + 1 + i - 1]
  BY <1>1, PartOf
<1>3. \A i \in 1..Len(m) : q[i] = t[p + i]
  BY <1>1, <1>2
<1> HIDE DEF q
<1>4. (\A k \in 1..Len(m) : t[p + k] = m[k]) => q = m
  BY <1>2, <1>3, SeqEqual
<1>5. q = m => \A k \in 1..Len(m) : t[p + k] = m[k]
  BY <1>3
<1> QED BY <1>4, <1>5 DEF q

\* A part of what a sequence ends with is a part of the sequence.
SamePart(u, t, base, x, y) == SubSeq(u, x, y) = SubSeq(t, base + x, base + y)
EndOf(u, t, base) == Len(u) = Len(t) - base /\ \A i \in 1..Len(u) : u[i] = t[base + i]

LEMMA PartOfEnd ==
  ASSUME NEW S, NEW t \in Seq(S), NEW base \in Nat, base <= Len(t), NEW u \in Seq(S), EndOf(u, t, base),
         NEW x \in Int, NEW y \in Int, 1 <= x, y <= Len(u)
  PROVE  SamePart(u, t, base, x, y)
<1>0. Len(u) = Len(t) - base /\ \A i \in 1..Len(u) : u[i] = t[base + i]
  BY DEF EndOf
<1>1. Len(t) \in Nat /\ base + x \in Int /\ base + y \in Int /\ 1 <= base + x /\ base + y <= Len(t)
  BY <1>0
<1>2. /\ SubSeq(u, x, y) \in Seq(S) /\ Len(SubSeq(u, x, y)) = (IF x <= y THEN y - x + 1 ELSE 0)
      /\ \A i \in 1..y - x + 1 : SubSeq(u, x, y)[i] = u[x + i - 1]
  BY PartOf
<1>3. /\ SubSeq(t, base + x, base + y) \in Seq(S)
      /\ Len(SubSeq(t, base + x, base + y)) = (IF base + x <= base + y THEN base + y - (base + x) + 1 ELSE 0)
      /\ \A i \in 1..base + y - (base + x) + 1 : SubSeq(t, base + x, base + y)[i] = t[base + x + i - 1]
  BY <1>1, PartOf
<1> DEFINE a == SubSeq(u, x, y)
           b == SubSeq(t, base + x, base + y)
<1> HIDE DEF a, b
<1>4. a \in Seq(S) /\ b \in Seq(S) /\ Len(a) = Len(b)
  BY <1>2, <1>3 DEF a, b
<1>5. ASSUME NEW i \in 1..Len(a) PROVE a[i] = b[i]
  <2>1. i \in 1..y - x + 1 /\ x + i - 1 \in 1..Len(u) /\ base + (x + i - 1) = base + x + i - 1
        /\ i \in 1..base + y - (base + x) + 1
    <3>1. Len(a) = (IF x <= y THEN y - x + 1 ELSE 0)
      BY <1>2 DEF a
    <3>2. i \in Nat /\ i >= 1 /\ x <= y /\ i <= y - x + 1
      BY <3>1
    <3>3. Len(u) \in Nat
      OBVIOUS
    <3> QED BY <3>2, <3>3
  <2>2. a[i] = u[x + i - 1] /\ b[i] = t[base + x + i - 1]
    BY <1>2, <1>3, <2>1 DEF a, b
  <2>3. u[x + i - 1] = t[base + (x + i - 1)]
    BY <1>0, <2>1
  <2> QED BY <2>1, <2>2, <2>3
<1>6. a = b
  BY <1>4, <1>5, SeqEqual
<1> QED BY <1>6 DEF a, b, SamePart

\* A part of what a sequence begins with.
LEMMA PartOfBeginning ==
  ASSUME NEW S, NEW t \in Seq(S), NEW u \in Seq(S), Len(u) <= Len(t), \A i \in 1..Len(u) : u[i] = t[i],
         NEW x \in Int, NEW y \in Int, 1 <= x, y <= Len(u)
  PROVE  SubSeq(u, x, y) = SubSeq(t, x, y)
<1> DEFINE a == SubSeq(u, x, y)
           b == SubSeq(t, x, y)
<1>1. Len(t) \in Nat /\ Len(u) \in Nat /\ y <= Len(t)
  OBVIOUS
<1>2. a \in Seq(S) /\ Len(a) = (IF x <= y THEN y - x + 1 ELSE 0) /\ \A i \in 1..y - x + 1 : a[i] = u[x + i - 1]
  BY PartOf
<1>3. b \in Seq(S) /\ Len(b) = (IF x <= y THEN y - x + 1 ELSE 0) /\ \A i \in 1..y - x + 1 : b[i] = t[x + i - 1]
  BY <1>1, PartOf
<1> HIDE DEF a, b
<1>4. ASSUME NEW i \in 1..Len(a) PROVE a[i] = b[i]
  <2>1. i \in 1..y - x + 1 /\ x + i - 1 \in 1..Len(u)
    BY <1>1, <1>2
  <2> QED BY <1>2, <1>3, <2>1
<1>5. a = b
  BY <1>2, <1>3, <1>4, SeqEqual
<1> QED BY <1>5 DEF a, b

-----------------------------------------------------------------------------
(* The parser of streams: its pieces.                                        *)

LEMMA MarkerIs ==
  ASSUME splitMarker \in Markers, splitMarker # <<>>
  PROVE  splitMarker \in Seq(Bytes) /\ Len(splitMarker) \in Nat /\ Len(splitMarker) >= 1
<1>1. splitMarker \in Seq(Bytes)
  BY MarkersAreBytes
<1> QED BY <1>1, EmptySeq

\* Where the marker is in a sequence.
IsAt(s, i) == \A k \in 1..Len(splitMarker) : s[i + k] = splitMarker[k]

LEMMA MarkerIsAt ==
  ASSUME splitMarker \in Markers, splitMarker # <<>>, NEW s \in Seq(Bytes),
         NEW i \in 0..Len(s) - Len(splitMarker)
  PROVE  SubSeq(s, i + 1, i + Len(splitMarker)) = splitMarker <=> IsAt(s, i)
<1>1. splitMarker \in Seq(Bytes)
  BY MarkerIs
<1>2. i \in Nat /\ i + Len(splitMarker) <= Len(s)
  BY MarkerIs
<1> QED BY <1>1, <1>2, PartIs DEF IsAt

LEMMA MarkersAreLeftmost ==
  ASSUME splitMarker \in Markers, splitMarker # <<>>, NEW s \in Seq(Bytes)
  PROVE  Leftmost(Parser!MarkersIn(s), {i \in 0..Len(s) - Len(splitMarker) : IsAt(s, i)},
                  0, Len(s) - Len(splitMarker), Len(splitMarker))
<1> DEFINE n  == Len(splitMarker)
           at == {i \in 0..Len(s) - n : SubSeq(s, i + 1, i + n) = splitMarker}
<1>1. n \in Nat \ {0} /\ Len(s) \in Nat
  BY MarkerIs
<1>2. at = {i \in 0..Len(s) - n : IsAt(s, i)}
  BY MarkerIsAt
<1>3. Parser!MarkersIn(s) = Parser!Scan(at, 0, Len(s) - n, n)
  BY DEF Parser!MarkersIn
<1> HIDE DEF at
<1>4. Leftmost(Parser!Scan(at, 0, Len(s) - n, n), at, 0, Len(s) - n, n)
  <2>1. 0 <= (Len(s) - n) + n /\ Len(s) - n \in Int
    BY <1>1
  <2> QED BY <1>1, <2>1, ScanIsLeftmost
<1> QED BY <1>2, <1>3, <1>4

\* The first position of the scan of a part.
ScanStart(buf) == 0 - Parser!Least(Len(buf), Len(splitMarker) - 1)

LEMMA CutsAreLeftmost ==
  ASSUME splitMarker \in Markers, splitMarker # <<>>, NEW buf \in Seq(Bytes), NEW in \in Seq(Bytes)
  PROVE  /\ Leftmost(Parser!Cuts(buf, in), Parser!MarkersAt(buf, in, ScanStart(buf)),
                     ScanStart(buf), Len(in) - Len(splitMarker), Len(splitMarker) + 1)
         /\ ScanStart(buf) \in Int /\ ScanStart(buf) <= 0
         /\ 0 - Len(buf) <= ScanStart(buf) /\ 1 - Len(splitMarker) <= ScanStart(buf)
<1> DEFINE n  == Len(splitMarker)
           at == Parser!MarkersAt(buf, in, ScanStart(buf))
<1>1. n \in Nat /\ n >= 1 /\ Len(buf) \in Nat /\ Len(in) \in Nat
  BY MarkerIs
<1>2. /\ ScanStart(buf) \in Int /\ ScanStart(buf) <= 0
      /\ 0 - Len(buf) <= ScanStart(buf) /\ 1 - n <= ScanStart(buf)
  BY <1>1 DEF ScanStart, Parser!Least
<1>3. Parser!Cuts(buf, in) = Parser!Scan(at, ScanStart(buf), Len(in) - n, n + 1)
  BY DEF Parser!Cuts, ScanStart
<1> HIDE DEF at
<1>4. Leftmost(Parser!Scan(at, ScanStart(buf), Len(in) - n, n + 1), at, ScanStart(buf), Len(in) - n, n + 1)
  <2>1. ScanStart(buf) <= (Len(in) - n) + (n + 1) /\ Len(in) - n \in Int /\ n + 1 \in Nat \ {0}
    BY <1>1, <1>2
  <2> QED BY <1>2, <2>1, ScanIsLeftmost
<1> QED BY <1>2, <1>3, <1>4 DEF at

Within(c, lo, hi) ==
  /\ c \in Seq(Int) /\ Len(c) \in Nat /\ DOMAIN c = 1..Len(c) /\ (c = <<>> <=> Len(c) = 0)
  /\ \A k \in 1..Len(c) : c[k] \in Int /\ lo <= c[k] /\ c[k] <= hi

LEMMA LeftmostWithin ==
  ASSUME NEW at, NEW lo \in Int, NEW hi \in Int, NEW skip \in Nat, NEW c, Leftmost(c, at, lo, hi, skip)
  PROVE  Within(c, lo, hi)
<1>1. c \in Seq(Int) /\ Len(c) \in Nat /\ DOMAIN c = 1..Len(c) /\ (c = <<>> <=> Len(c) = 0)
  BY EmptySeq DEF Leftmost
<1>2. ASSUME NEW k \in 1..Len(c) PROVE c[k] \in Int /\ lo <= c[k] /\ c[k] <= hi
  <2>1. c[k] \in Int /\ c[k] <= hi /\ Resumes(c, k, lo, skip) <= c[k]
    BY <1>1 DEF Leftmost
  <2>2. k \in 1..Len(c) + 1
    BY <1>1
  <2>3. Resumes(c, k, lo, skip) \in Int /\ lo <= Resumes(c, k, lo, skip)
    BY <2>2, ResumesLater
  <2> QED BY <2>1, <2>3
<1> QED BY <1>1, <1>2 DEF Within

TypedPieces(t, c, off, n) ==
  /\ Parser!Pieces(t, c, off, n) \in Seq(Seq(Bytes))
  /\ Len(Parser!Pieces(t, c, off, n)) = Len(c)
  /\ Parser!Remainder(t, c, off, n) \in Seq(Bytes)

LEMMA PiecesTyped ==
  ASSUME NEW at, NEW lo \in Int, NEW hi \in Int, NEW skip \in Nat, NEW c, Leftmost(c, at, lo, hi, skip),
         NEW t \in Seq(Bytes), NEW n \in Nat, NEW off \in Int, lo + off + n + 1 >= 1, hi + off <= Len(t)
  PROVE  TypedPieces(t, c, off, n)
<1>1. /\ c \in Seq(Int) /\ Len(c) \in Nat /\ DOMAIN c = 1..Len(c) /\ (c = <<>> <=> Len(c) = 0)
      /\ \A k \in 1..Len(c) : c[k] \in Int /\ lo <= c[k] /\ c[k] <= hi
  <2>1. Within(c, lo, hi)
    BY LeftmostWithin
  <2> QED BY <2>1 DEF Within
<1>2. Len(t) \in Nat
  OBVIOUS
<1> DEFINE Start(k) == IF k = 1 THEN 1 ELSE c[k - 1] + off + n + 1
<1>3. ASSUME NEW k \in 1..Len(c) PROVE SubSeq(t, Start(k), c[k] + off) \in Seq(Bytes)
  <2>1. c[k] + off \in Int /\ c[k] + off <= Len(t)
    BY <1>1, <1>2
  <2>2. Start(k) \in Int /\ 1 <= Start(k)
    <3>1. CASE k = 1
      BY <3>1
    <3>2. CASE k # 1
      <4>1. k - 1 \in 1..Len(c)
        BY <1>1, <3>2
      <4>2. c[k - 1] \in Int /\ lo <= c[k - 1]
        BY <1>1, <4>1
      <4> QED BY <3>2, <4>2
    <3> QED BY <3>1, <3>2
  <2> HIDE DEF Start
  <2> QED BY <2>1, <2>2, PartOf
<1>4. Parser!Pieces(t, c, off, n) = [k \in 1..Len(c) |-> SubSeq(t, Start(k), c[k] + off)]
  BY <1>1 DEF Parser!Pieces
<1> HIDE DEF Start
<1> DEFINE p == [k \in 1..Len(c) |-> SubSeq(t, Start(k), c[k] + off)]
<1>5. p \in [1..Len(c) -> Seq(Bytes)]
  BY <1>3
<1>6. p \in Seq(Seq(Bytes)) /\ Len(p) = Len(c)
  <2> HIDE DEF p
  <2> QED BY <1>1, <1>5
<1>7. Parser!Remainder(t, c, off, n) \in Seq(Bytes)
  <2>1. CASE Len(c) = 0
    BY <1>1, <2>1 DEF Parser!Remainder
  <2>2. CASE Len(c) # 0
    <3>1. c[Len(c)] \in Int /\ lo <= c[Len(c)]
      BY <1>1, <2>2
    <3>2. c[Len(c)] + off + n + 1 \in Int /\ 1 <= c[Len(c)] + off + n + 1
      BY <3>1
    <3>3. SubSeq(t, c[Len(c)] + off + n + 1, Len(t)) \in Seq(Bytes)
      BY <1>2, <3>2, PartOf
    <3> QED BY <1>1, <2>2, <3>3 DEF Parser!Remainder, Parser!LastOf
  <2> QED BY <2>1, <2>2
<1> QED BY <1>4, <1>6, <1>7 DEF TypedPieces

\* The pieces and what remains, by where the scan resumes.
Between(t, c, n) ==
  /\ \A k \in 1..Len(c) : Parser!Pieces(t, c, 0, n)[k] = SubSeq(t, Resumes(c, k, 0, n) + 1, c[k])
  /\ Parser!Remainder(t, c, 0, n) = SubSeq(t, Resumes(c, Len(c) + 1, 0, n) + 1, Len(t))

LEMMA PiecesAre ==
  ASSUME NEW at, NEW hi \in Int, NEW n \in Nat, NEW c, Leftmost(c, at, 0, hi, n), NEW t \in Seq(Bytes)
  PROVE  Between(t, c, n)
<1>1. /\ Len(c) \in Nat /\ DOMAIN c = 1..Len(c) /\ (c = <<>> <=> Len(c) = 0)
      /\ \A k \in 1..Len(c) : c[k] \in Int
  <2>1. Within(c, 0, hi)
    BY LeftmostWithin
  <2> QED BY <2>1 DEF Within
<1>2. ASSUME NEW k \in 1..Len(c)
      PROVE  Parser!Pieces(t, c, 0, n)[k] = SubSeq(t, Resumes(c, k, 0, n) + 1, c[k])
  <2>1. c[k] + 0 = c[k]
    BY <1>1
  <2>2. (IF k = 1 THEN 1 ELSE c[k - 1] + 0 + n + 1) = Resumes(c, k, 0, n) + 1
    <3>1. CASE k = 1
      BY <3>1 DEF Resumes
    <3>2. CASE k # 1
      <4>1. k - 1 \in 1..Len(c)
        BY <1>1, <3>2
      <4>2. c[k - 1] \in Int
        BY <1>1, <4>1
      <4> QED BY <3>2, <4>2 DEF Resumes
    <3> QED BY <3>1, <3>2
  <2>3. Parser!Pieces(t, c, 0, n)[k] = SubSeq(t, IF k = 1 THEN 1 ELSE c[k - 1] + 0 + n + 1, c[k] + 0)
    BY <1>1 DEF Parser!Pieces
  <2> QED BY <2>1, <2>2, <2>3
<1>3. Parser!Remainder(t, c, 0, n) = SubSeq(t, Resumes(c, Len(c) + 1, 0, n) + 1, Len(t))
  <2>1. CASE Len(c) = 0
    <3>1. Resumes(c, Len(c) + 1, 0, n) + 1 = 1
      BY <2>1 DEF Resumes
    <3>2. SubSeq(t, 1, Len(t)) = t
      BY SubSeqFull
    <3> QED BY <1>1, <2>1, <3>1, <3>2 DEF Parser!Remainder
  <2>2. CASE Len(c) # 0
    <3>1. c[Len(c)] \in Int
      BY <1>1, <2>2
    <3>2. Resumes(c, Len(c) + 1, 0, n) + 1 = c[Len(c)] + 0 + n + 1
      BY <1>1, <2>2, <3>1 DEF Resumes
    <3> QED BY <1>1, <2>2, <3>2 DEF Parser!Remainder, Parser!LastOf
  <2> QED BY <2>1, <2>2
<1> QED BY <1>2, <1>3 DEF Between

\* Positions counted from elsewhere, of markers none of which follows another directly: a scan
\* that passes over one more after each finds the same.
LEMMA LeftmostMoved ==
  ASSUME NEW at, NEW at2, NEW l \in Int, NEW base \in Int, NEW from \in Int, NEW hi \in Int, NEW n \in Nat,
         NEW e, Leftmost(e, at, base, hi, n), base <= l + from,
         \A j \in Int : j \in at2 <=> from <= j /\ l + j \in at,
         \A j \in Int : base <= j /\ j < l + from => j \notin at,
         \A k \in 1..Len(e) : k # 1 => e[k] # e[k - 1] + n,
         NEW f, f = [k \in 1..Len(e) |-> e[k] - l]
  PROVE  Leftmost(f, at2, from, hi - l, n + 1)
<1>1. e \in Seq(Int) /\ Len(e) \in Nat /\ \A k \in 1..Len(e) : e[k] \in Int /\ base <= e[k] /\ e[k] <= hi
  <2>1. Within(e, base, hi)
    BY LeftmostWithin
  <2> QED BY <2>1 DEF Within
<1>2. f \in Seq(Int) /\ Len(f) = Len(e) /\ \A k \in 1..Len(e) : f[k] = e[k] - l
  <2>1. f \in [1..Len(e) -> Int]
    BY <1>1
  <2>2. f \in Seq(Int) /\ Len(f) = Len(e)
    BY <1>1, <2>1
  <2> QED BY <2>2
<1>3. ASSUME NEW k \in 1..Len(e) PROVE e[k] \in at /\ l + from <= e[k]
  <2>1. e[k] \in at
    BY DEF Leftmost
  <2>2. e[k] \in Int /\ base <= e[k]
    BY <1>1
  <2> QED BY <2>1, <2>2
<1>4. ASSUME NEW k \in 1..Len(e) + 1
      PROVE  /\ Resumes(f, k, from, n + 1) \in Int /\ Resumes(e, k, base, n) \in Int
             /\ from <= Resumes(f, k, from, n + 1)
             /\ Resumes(e, k, base, n) <= l + Resumes(f, k, from, n + 1)
  <2>1. CASE k = 1
    BY <2>1 DEF Resumes
  <2>2. CASE k # 1
    <3>1. k - 1 \in 1..Len(e)
      BY <1>1, <2>2
    <3>2. PICK x \in Int : x = e[k - 1]
      BY <1>1, <3>1
    <3>3. f[k - 1] = x - l /\ l + from <= x
      BY <1>2, <1>3, <3>1, <3>2
    <3>4. Resumes(f, k, from, n + 1) = (x - l) + (n + 1) /\ Resumes(e, k, base, n) = x + n
      BY <2>2, <3>2, <3>3 DEF Resumes
    <3> QED BY <3>3, <3>4
  <2> QED BY <2>1, <2>2
<1>5. ASSUME NEW k \in 1..Len(e)
      PROVE  /\ f[k] \in at2 /\ f[k] <= hi - l /\ Resumes(f, k, from, n + 1) <= f[k]
             /\ \A j \in Int : Resumes(f, k, from, n + 1) <= j /\ j < f[k] => j \notin at2
  <2>1. k \in 1..Len(e) + 1
    BY <1>1
  <2>2. PICK x \in Int : x = e[k]
    BY <1>1
  <2>3. f[k] = x - l /\ x \in at /\ l + from <= x /\ x <= hi
    BY <1>1, <1>2, <1>3, <2>2
  <2>4. f[k] \in at2
    <3>1. x - l \in Int /\ l + (x - l) = x /\ from <= x - l
      BY <2>3
    <3> QED BY <2>3, <3>1
  <2>5. Resumes(e, k, base, n) <= x /\ \A j \in Int : Resumes(e, k, base, n) <= j /\ j < x => j \notin at
    BY <2>2 DEF Leftmost
  <2>6. Resumes(f, k, from, n + 1) <= f[k]
    <3>1. CASE k = 1
      BY <2>3, <3>1 DEF Resumes
    <3>2. CASE k # 1
      <4>1. k - 1 \in 1..Len(e)
        BY <1>1, <3>2
      <4>2. PICK y \in Int : y = e[k - 1]
        BY <1>1, <4>1
      <4>3. f[k - 1] = y - l /\ x # y + n /\ y + n <= x
        BY <1>2, <2>2, <2>5, <3>2, <4>1, <4>2 DEF Resumes
      <4>4. Resumes(f, k, from, n + 1) = (y - l) + (n + 1)
        BY <3>2, <4>3 DEF Resumes
      <4> QED BY <2>3, <4>3, <4>4
    <3> QED BY <3>1, <3>2
  <2>7. ASSUME NEW j \in Int, Resumes(f, k, from, n + 1) <= j, j < f[k] PROVE j \notin at2
    <3>1. /\ Resumes(f, k, from, n + 1) \in Int /\ Resumes(e, k, base, n) \in Int
          /\ Resumes(e, k, base, n) <= l + Resumes(f, k, from, n + 1)
      BY <1>4, <2>1
    <3>2. l + j \in Int /\ Resumes(e, k, base, n) <= l + j /\ l + j < x
      BY <2>3, <2>7, <3>1
    <3> QED BY <2>5, <3>2
  <2> QED BY <2>3, <2>4, <2>6, <2>7
<1>6. ASSUME NEW j \in Int, Resumes(f, Len(f) + 1, from, n + 1) <= j, j <= hi - l PROVE j \notin at2
  <2>1. Len(e) + 1 \in 1..Len(e) + 1 /\ Len(f) = Len(e)
    BY <1>1, <1>2
  <2>2. /\ Resumes(f, Len(e) + 1, from, n + 1) \in Int /\ Resumes(e, Len(e) + 1, base, n) \in Int
        /\ Resumes(e, Len(e) + 1, base, n) <= l + Resumes(f, Len(e) + 1, from, n + 1)
    BY <1>4, <2>1
  <2>3. l + j \in Int /\ Resumes(e, Len(e) + 1, base, n) <= l + j /\ l + j <= hi
    BY <1>6, <2>1, <2>2
  <2>4. l + j \notin at
    BY <2>3 DEF Leftmost
  <2> QED BY <2>4
<1> QED BY <1>2, <1>5, <1>6 DEF Leftmost

\* The markers of a sequence are those with which the markers of one that goes on begin.
LEMMA MarkersBegin ==
  ASSUME splitMarker \in Markers, splitMarker # <<>>, NEW s \in Seq(Bytes), NEW in \in Seq(Bytes)
  PROVE  /\ Begins(Parser!MarkersIn(s), Parser!MarkersIn(s \o in))
         /\ \A j \in Int : 0 <= j /\ j <= Len(s) - Len(splitMarker) =>
              (j \in {i \in 0..Len(s) - Len(splitMarker) : IsAt(s, i)}
                 <=> j \in {i \in 0..Len(s \o in) - Len(splitMarker) : IsAt(s \o in, i)})
<1> DEFINE n    == Len(splitMarker)
           t    == s \o in
           c    == Parser!MarkersIn(s)
           d    == Parser!MarkersIn(t)
           at   == {i \in 0..Len(s) - n : IsAt(s, i)}
           at2  == {i \in 0..Len(t) - n : IsAt(t, i)}
<1>1. n \in Nat /\ n >= 1 /\ Len(s) \in Nat /\ Len(in) \in Nat
  BY MarkerIs
<1>2. /\ t \in Seq(Bytes) /\ Len(t) = Len(s) + Len(in)
      /\ \A i \in 1..Len(s) + Len(in) : t[i] = IF i <= Len(s) THEN s[i] ELSE in[i - Len(s)]
  BY ConcatProperties
<1> HIDE DEF t
<1>3. Leftmost(c, at, 0, Len(s) - n, n) /\ Leftmost(d, at2, 0, Len(t) - n, n)
  BY <1>2, MarkersAreLeftmost
<1> HIDE DEF c, d, n
<1>4. ASSUME NEW j \in Int, 0 <= j, j <= Len(s) - n PROVE j \in at <=> j \in at2
  <2>1. \A k \in 1..n : j + k \in 1..Len(s) /\ t[j + k] = s[j + k]
    BY <1>1, <1>2, <1>4
  <2>2. IsAt(s, j) <=> IsAt(t, j)
    BY <2>1 DEF IsAt, n
  <2>3. j \in 0..Len(s) - n /\ j \in 0..Len(t) - n
    BY <1>1, <1>2, <1>4
  <2> QED BY <2>2, <2>3
<1> HIDE DEF at, at2
<1>5. Len(s) - n \in Int /\ Len(t) - n \in Int /\ Len(s) - n <= Len(t) - n /\ 0 \in Int
  BY <1>1, <1>2
<1>6. Begins(c, d)
  <2>1. \A j \in Int : 0 <= j /\ j <= Len(s) - n => (j \in at <=> j \in at2)
    BY <1>4
  <2> DEFINE hi == Len(s) - n  hi2 == Len(t) - n  lo == 0
  <2>2. /\ lo \in Int /\ hi \in Int /\ hi2 \in Int /\ hi <= hi2
        /\ Leftmost(c, at, lo, hi, n) /\ Leftmost(d, at2, lo, hi2, n)
        /\ \A j \in Int : lo <= j /\ j <= hi => (j \in at <=> j \in at2)
    BY <1>3, <1>5, <2>1
  <2> HIDE DEF hi, hi2, lo
  <2>3. n \in Nat
    BY <1>1
  <2> QED BY <2>2, <2>3, LeftmostBegins
<1> QED BY <1>4, <1>6 DEF c, d, t, n, at, at2

\* Two markers that follow each other do so when the sequence goes on.
LEMMA AdjacentStays ==
  ASSUME splitMarker \in Markers, splitMarker # <<>>, NEW s \in Seq(Bytes), NEW in \in Seq(Bytes),
         ~Parser!Adjacent(Parser!MarkersIn(s \o in))
  PROVE  ~Parser!Adjacent(Parser!MarkersIn(s))
<1> DEFINE c == Parser!MarkersIn(s)
           d == Parser!MarkersIn(s \o in)
<1>1. Begins(c, d)
  BY MarkersBegin
<1>2. Len(c) \in Nat /\ Len(d) \in Nat
  <2>1. s \o in \in Seq(Bytes)
    BY ConcatProperties
  <2> QED BY <2>1, MarkersAreLeftmost DEF Leftmost
<1>3. ASSUME NEW k \in 1..Len(c) - 1, c[k + 1] = c[k] + Len(splitMarker)
      PROVE  k \in 1..Len(d) - 1 /\ d[k + 1] = d[k] + Len(splitMarker)
  <2>1. k \in 1..Len(c) /\ k + 1 \in 1..Len(c) /\ k \in 1..Len(d) - 1
    BY <1>1, <1>2 DEF Begins
  <2>2. d[k] = c[k] /\ d[k + 1] = c[k + 1]
    BY <1>1, <2>1 DEF Begins
  <2> QED BY <1>3, <2>1, <2>2
<1> QED BY <1>3 DEF Parser!Adjacent

\* A sequence goes on, and there is what is left of it behind its last marker.
GoesOn(s, in, base, buf) ==
  /\ splitMarker \in Markers /\ splitMarker # <<>>
  /\ ~Parser!Adjacent(Parser!MarkersIn(s \o in))
  /\ base = Resumes(Parser!MarkersIn(s), Len(Parser!MarkersIn(s)) + 1, 0, Len(splitMarker))
  /\ buf = SubSeq(s, base + 1, Len(s))

\* The markers of a stream that goes on, by what is left of it: those of the part, moved.
LEMMA CutsContinue ==
  ASSUME NEW s \in Seq(Bytes), NEW in \in Seq(Bytes), NEW base, NEW buf \in Seq(Bytes), GoesOn(s, in, base, buf)
  PROVE  LET c == Parser!MarkersIn(s)
             d == Parser!MarkersIn(s \o in)
             e == Parser!Cuts(buf, in)
         IN /\ base \in 0..Len(s) /\ Len(buf) = Len(s) - base /\ \A i \in 1..Len(buf) : buf[i] = s[base + i]
            /\ Len(d) = Len(c) + Len(e)
            /\ \A k \in 1..Len(c) : d[k] = c[k]
            /\ \A k \in 1..Len(e) : d[Len(c) + k] = Len(s) + e[k]
<1> DEFINE n    == Len(splitMarker)
           t    == s \o in
           c    == Parser!MarkersIn(s)
           d    == Parser!MarkersIn(t)
           at   == {i \in 0..Len(s) - n : IsAt(s, i)}
           at2  == {i \in 0..Len(t) - n : IsAt(t, i)}
           from == ScanStart(buf)
           at3  == Parser!MarkersAt(buf, in, from)
<1>1. n \in Nat /\ n >= 1 /\ Len(s) \in Nat /\ Len(in) \in Nat
  BY MarkerIs DEF GoesOn
<1>2. /\ t \in Seq(Bytes) /\ Len(t) = Len(s) + Len(in)
      /\ \A i \in 1..Len(s) + Len(in) : t[i] = IF i <= Len(s) THEN s[i] ELSE in[i - Len(s)]
  BY ConcatProperties
<1> HIDE DEF t
<1>3. Leftmost(c, at, 0, Len(s) - n, n) /\ Leftmost(d, at2, 0, Len(t) - n, n)
  BY <1>2, MarkersAreLeftmost DEF GoesOn
<1>0. base = Resumes(c, Len(c) + 1, 0, n) /\ buf = SubSeq(s, base + 1, Len(s))
  BY DEF GoesOn
<1> HIDE DEF c, d, n
<1>4. \A j \in Int : 0 <= j /\ j <= Len(s) - n => (j \in at <=> j \in at2)
  BY MarkersBegin DEF GoesOn, n, t
<1> HIDE DEF at, at2
<1>5. Len(s) - n \in Int /\ Len(t) - n \in Int /\ Len(s) - n <= Len(t) - n /\ 0 \in Int
  BY <1>1, <1>2
<1>6. Len(c) <= Len(d) /\ \A k \in 1..Len(c) : d[k] = c[k]
  BY MarkersBegin DEF GoesOn, Begins, c, d, t
<1>7. Within(c, 0, Len(s) - n) /\ Within(d, 0, Len(t) - n)
  BY <1>1, <1>3, <1>5, LeftmostWithin
<1>8. base \in 0..Len(s)
  <2>1. CASE Len(c) = 0
    BY <1>0, <1>1, <2>1 DEF Resumes
  <2>2. CASE Len(c) # 0
    <3>1. c[Len(c)] \in Int /\ 0 <= c[Len(c)] /\ c[Len(c)] <= Len(s) - n
      BY <1>7, <2>2 DEF Within
    <3>2. base = c[Len(c)] + n
      BY <1>0, <1>7, <2>2, <3>1 DEF Resumes, Within
    <3> QED BY <1>1, <3>1, <3>2
  <2> QED BY <2>1, <2>2
<1>9. Len(buf) = Len(s) - base /\ \A i \in 1..Len(buf) : buf[i] = s[base + i]
  <2>1. base + 1 \in Int /\ Len(s) \in Int /\ 1 <= base + 1 /\ Len(s) <= Len(s)
    BY <1>1, <1>8
  <2>2. /\ Len(buf) = IF base + 1 <= Len(s) THEN Len(s) - (base + 1) + 1 ELSE 0
        /\ \A i \in 1..Len(s) - (base + 1) + 1 : buf[i] = s[(base + 1) + i - 1]
    BY <1>0, <2>1, PartOf
  <2>3. Len(buf) = Len(s) - base
    BY <1>1, <1>8, <2>2
  <2>4. ASSUME NEW i \in 1..Len(buf) PROVE buf[i] = s[base + i]
    <3>1. i \in 1..Len(s) - (base + 1) + 1 /\ (base + 1) + i - 1 = base + i
      BY <1>1, <1>8, <2>3
    <3> QED BY <2>2, <3>1
  <2> QED BY <2>3, <2>4
<1>10. /\ Leftmost(Parser!Cuts(buf, in), at3, from, Len(in) - n, n + 1)
       /\ from \in Int /\ from <= 0 /\ 0 - Len(buf) <= from /\ 1 - n <= from
       /\ from = 0 - Len(buf) \/ from = 1 - n
  <2>1. from = 0 - (IF Len(buf) < n - 1 THEN Len(buf) ELSE n - 1)
    BY DEF ScanStart, Parser!Least, n
  <2>2. from = 0 - Len(buf) \/ from = 1 - n
    BY <1>1, <2>1
  <2> QED BY <2>2, CutsAreLeftmost DEF n, GoesOn
<1> HIDE DEF from
<1>11. ASSUME NEW j \in Int PROVE j \in at3 <=> from <= j /\ Len(s) + j \in at2
  <2>1. CASE j \in from..Len(in) - n
    <3>1. ASSUME NEW k \in 1..n PROVE Parser!Byte(buf, in, j + k - 1) = t[(Len(s) + j) + k]
      <4>1. j + k - 1 \in Int /\ 0 - Len(buf) <= j + k - 1 /\ j + k - 1 < Len(in)
        BY <1>1, <1>10, <2>1
      <4>2. CASE j + k - 1 < 0
        <5>1. Len(buf) + (j + k - 1) + 1 \in 1..Len(buf)
          BY <1>1, <1>8, <1>9, <4>1, <4>2
        <5>2. buf[Len(buf) + (j + k - 1) + 1] = s[base + (Len(buf) + (j + k - 1) + 1)]
          BY <1>9, <5>1
        <5>3. base + (Len(buf) + (j + k - 1) + 1) = (Len(s) + j) + k
              /\ (Len(s) + j) + k \in 1..Len(s) + Len(in) /\ (Len(s) + j) + k <= Len(s)
          BY <1>1, <1>8, <1>9, <4>1, <4>2, <5>1
        <5> QED BY <1>2, <4>2, <5>2, <5>3 DEF Parser!Byte
      <4>3. CASE ~(j + k - 1 < 0)
        <5>1. ((Len(s) + j) + k) - Len(s) = (j + k - 1) + 1
              /\ (Len(s) + j) + k \in 1..Len(s) + Len(in) /\ ~((Len(s) + j) + k <= Len(s))
          BY <1>1, <4>1, <4>3
        <5> QED BY <1>2, <4>3, <5>1 DEF Parser!Byte
      <4> QED BY <4>2, <4>3
    <3>2. (\A k \in 1..n : Parser!Byte(buf, in, j + k - 1) = splitMarker[k]) <=> IsAt(t, Len(s) + j)
      BY <3>1 DEF IsAt, n
    <3>3. Len(s) + j \in 0..Len(t) - n /\ from <= j
      BY <1>1, <1>2, <1>8, <1>9, <1>10, <2>1
    <3> QED BY <2>1, <3>2, <3>3 DEF Parser!MarkersAt, at2, n
  <2>2. CASE j \notin from..Len(in) - n
    <3>1. j \notin at3
      BY <2>2 DEF Parser!MarkersAt, n
    <3>2. from <= j => Len(s) + j \notin 0..Len(t) - n
      BY <1>1, <1>2, <1>10, <2>2
    <3> QED BY <3>1, <3>2 DEF at2
  <2> QED BY <2>1, <2>2
<1> HIDE DEF at3
<1> DEFINE b == Len(c)
           m == Len(d) - b
           e == [k \in 1..m |-> d[b + k]]
           f == [k \in 1..m |-> e[k] - Len(s)]
<1>12. b \in 0..Len(d) /\ Len(d) \in Nat /\ m \in Nat /\ b \in Nat /\ \A k \in 1..m : b + k \in 1..Len(d)
  <2>1. Len(c) \in Nat /\ Len(d) \in Nat
    BY <1>7 DEF Within
  <2> QED BY <1>6, <2>1
<1>13. base = Resumes(d, b + 1, 0, n)
  <2>1. CASE b = 0
    BY <1>0, <2>1 DEF Resumes
  <2>2. CASE b # 0
    <3>1. (b + 1) - 1 = b /\ b \in 1..Len(c)
      BY <1>12, <2>2
    <3>2. d[b] = c[b]
      BY <1>6, <3>1
    <3> QED BY <1>0, <2>2, <3>1, <3>2 DEF Resumes
  <2> QED BY <2>1, <2>2
<1>14. Leftmost(e, at2, base, Len(t) - n, n)
  <2>1. Leftmost(e, at2, Resumes(d, b + 1, 0, n), Len(t) - n, n)
    BY <1>1, <1>3, <1>5, <1>12, LeftmostEnds
  <2> QED BY <1>13, <2>1
<1>15. Len(e) = m /\ \A k \in 1..m : e[k] = d[b + k]
  <2>1. e \in Seq(Int)
    BY <1>14 DEF Leftmost
  <2>2. DOMAIN e = 1..m
    OBVIOUS
  <2>3. \A k \in 1..m : e[k] = d[b + k]
    OBVIOUS
  <2> HIDE DEF e, m
  <2> QED BY <1>12, <2>1, <2>2, <2>3
<1>16. ASSUME NEW k \in 1..m, k # 1 PROVE e[k] # e[k - 1] + n
  <2> HIDE DEF e, m, b
  <2>1. k - 1 \in 1..m /\ b + (k - 1) \in 1..Len(d) - 1 /\ (b + (k - 1)) + 1 = b + k
    BY <1>12, <1>16
  <2>2. d[(b + (k - 1)) + 1] # d[b + (k - 1)] + n
    BY <2>1 DEF Parser!Adjacent, d, t, n, GoesOn
  <2> QED BY <1>15, <2>1, <2>2
<1>17. \A j \in Int : base <= j /\ j <= Len(s) - n => j \notin at2
  <2>1. \A j \in Int : Resumes(c, Len(c) + 1, 0, n) <= j /\ j <= Len(s) - n => j \notin at
    BY <1>3 DEF Leftmost
  <2> HIDE DEF b
  <2> QED BY <1>0, <1>4, <1>8, <2>1
<1>18. base <= Len(s) + from /\ \A j \in Int : base <= j /\ j < Len(s) + from => j \notin at2
  <2>1. base \in Int /\ base <= Len(s) + from /\ (Len(s) + from <= base \/ Len(s) + from <= Len(s) - n + 1)
    BY <1>1, <1>8, <1>9, <1>10
  <2>2. ASSUME NEW j \in Int, base <= j, j < Len(s) + from PROVE j <= Len(s) - n
    BY <1>1, <1>10, <2>1, <2>2
  <2> QED BY <1>17, <2>1, <2>2
<1> HIDE DEF e
<1>19. Leftmost(f, at3, from, (Len(t) - n) - Len(s), n + 1)
  <2>1. Len(s) \in Int /\ base \in Int /\ from \in Int
    BY <1>1, <1>8, <1>10
  <2>2. f = [k \in 1..Len(e) |-> e[k] - Len(s)]
    BY <1>15
  <2> HIDE DEF f, m, b
  <2> QED BY <1>1, <1>5, <1>11, <1>14, <1>15, <1>16, <1>18, <2>1, <2>2, LeftmostMoved
<1>20. Parser!Cuts(buf, in) = f
  <2>1. Len(in) - n \in Int /\ n + 1 \in Nat /\ (Len(t) - n) - Len(s) = Len(in) - n
    BY <1>1, <1>2
  <2> HIDE DEF f, m, b
  <2> QED BY <1>10, <1>19, <2>1, OneLeftmost
<1>21. Len(f) = m /\ \A k \in 1..m : d[b + k] = Len(s) + f[k]
  <2>1. f \in Seq(Int)
    BY <1>19 DEF Leftmost
  <2>2. DOMAIN f = 1..m /\ \A k \in 1..m : f[k] = e[k] - Len(s)
    OBVIOUS
  <2> HIDE DEF f, m
  <2>3. Len(f) = m
    BY <1>12, <2>1, <2>2
  <2>4. ASSUME NEW k \in 1..m PROVE d[b + k] = Len(s) + f[k]
    <3>1. PICK x \in Int : x = d[b + k]
      BY <1>7, <1>12 DEF Within
    <3>2. f[k] = x - Len(s)
      BY <1>15, <2>2, <3>1
    <3> QED BY <1>1, <3>1, <3>2
  <2> QED BY <2>3, <2>4
<1>22. Len(d) = Len(c) + Len(f)
  BY <1>12, <1>21
<1> HIDE DEF f
<1> QED BY <1>6, <1>8, <1>9, <1>20, <1>21, <1>22 DEF c, d, t

\* So are the pieces and what remains.
LEMMA PiecesContinue ==
  ASSUME NEW s \in Seq(Bytes), NEW in \in Seq(Bytes), NEW base, NEW buf \in Seq(Bytes), GoesOn(s, in, base, buf)
  PROVE  LET c == Parser!MarkersIn(s)
             d == Parser!MarkersIn(s \o in)
             e == Parser!Cuts(buf, in)
             n == Len(splitMarker)
         IN /\ Parser!Pieces(s \o in, d, 0, n) = Parser!Pieces(s, c, 0, n) \o Parser!Pieces(buf \o in, e, Len(buf), n)
            /\ Parser!Remainder(s \o in, d, 0, n) = Parser!Remainder(buf \o in, e, Len(buf), n)
<1> DEFINE n   == Len(splitMarker)
           t   == s \o in
           u   == buf \o in
           c   == Parser!MarkersIn(s)
           d   == Parser!MarkersIn(t)
           e   == Parser!Cuts(buf, in)
           b   == Len(c)
           off == Len(buf)
           at  == {i \in 0..Len(s) - n : IsAt(s, i)}
           at2 == {i \in 0..Len(t) - n : IsAt(t, i)}
           at3 == Parser!MarkersAt(buf, in, ScanStart(buf))
           lo  == ScanStart(buf)
<1>1. n \in Nat /\ n >= 1 /\ Len(s) \in Nat /\ Len(in) \in Nat /\ off \in Nat
  BY MarkerIs DEF GoesOn
<1>2. /\ t \in Seq(Bytes) /\ Len(t) = Len(s) + Len(in)
      /\ \A i \in 1..Len(s) + Len(in) : t[i] = IF i <= Len(s) THEN s[i] ELSE in[i - Len(s)]
  BY ConcatProperties
<1>3. /\ u \in Seq(Bytes) /\ Len(u) = off + Len(in)
      /\ \A i \in 1..off + Len(in) : u[i] = IF i <= off THEN buf[i] ELSE in[i - off]
  BY ConcatProperties
<1> HIDE DEF t, u
<1>4. /\ base \in 0..Len(s) /\ off = Len(s) - base /\ \A i \in 1..off : buf[i] = s[base + i]
      /\ Len(d) = b + Len(e)
      /\ \A k \in 1..b : d[k] = c[k]
      /\ \A k \in 1..Len(e) : d[b + k] = Len(s) + e[k]
  BY CutsContinue DEF t
<1>5. /\ Leftmost(c, at, 0, Len(s) - n, n) /\ Leftmost(d, at2, 0, Len(t) - n, n)
      /\ Leftmost(e, at3, lo, Len(in) - n, n + 1)
      /\ lo \in Int /\ 0 - off <= lo
      /\ base = Resumes(c, b + 1, 0, n)
  BY <1>2, MarkersAreLeftmost, CutsAreLeftmost DEF GoesOn
<1> HIDE DEF n, c, d, e, at, at2, at3, lo, off
<1>6. Len(s) - n \in Int /\ Len(t) - n \in Int /\ Len(in) - n \in Int /\ n + 1 \in Nat
  BY <1>1, <1>2
<1>7. Within(c, 0, Len(s) - n) /\ Within(d, 0, Len(t) - n) /\ Within(e, lo, Len(in) - n)
  BY <1>1, <1>5, <1>6, LeftmostWithin
<1>8. b \in Nat /\ Len(e) \in Nat
  BY <1>7 DEF Within
<1>9. EndOf(u, t, base)
  <2>0. Len(u) = Len(t) - base
    BY <1>1, <1>2, <1>3, <1>4
  <2> SUFFICES ASSUME NEW i \in 1..Len(u) PROVE u[i] = t[base + i]
    BY <2>0 DEF EndOf
  <2>1. CASE i <= off
    <3>1. i \in 1..off /\ i \in 1..off + Len(in) /\ base + i \in 1..Len(s) + Len(in) /\ base + i <= Len(s)
      BY <1>1, <1>3, <1>4, <2>1
    <3> QED BY <1>2, <1>3, <1>4, <2>1, <3>1
  <2>2. CASE ~(i <= off)
    <3>1. /\ i \in 1..off + Len(in) /\ base + i \in 1..Len(s) + Len(in) /\ ~(base + i <= Len(s))
          /\ i - off = (base + i) - Len(s)
      BY <1>1, <1>3, <1>4, <2>2
    <3> QED BY <1>2, <1>3, <2>2, <3>1
  <2> QED BY <2>1, <2>2
\* Where the pieces begin.
<1> DEFINE Start(k) == IF k = 1 THEN 1 ELSE e[k - 1] + off + n + 1
<1>10. ASSUME NEW k \in 1..b PROVE Resumes(d, k, 0, n) = Resumes(c, k, 0, n)
  <2>1. CASE k = 1
    BY <2>1 DEF Resumes
  <2>2. CASE k # 1
    <3>1. k - 1 \in 1..b
      BY <1>8, <2>2
    <3> QED BY <1>4, <2>2, <3>1 DEF Resumes
  <2> QED BY <2>1, <2>2
<1>11. ASSUME NEW k \in 1..Len(e) + 1
       PROVE  /\ Start(k) \in Int /\ 1 <= Start(k)
              /\ Resumes(d, b + k, 0, n) + 1 = base + Start(k)
  <2>1. CASE k = 1
    <3>1. Resumes(d, b + 1, 0, n) = base
      <4>1. CASE b = 0
        BY <1>5, <4>1 DEF Resumes
      <4>2. CASE b # 0
        <5>1. b \in 1..b /\ (b + 1) - 1 = b /\ b + 1 # 1
          BY <1>8, <4>2
        <5> QED BY <1>4, <1>5, <5>1 DEF Resumes
      <4> QED BY <4>1, <4>2
    <3> QED BY <1>4, <2>1, <3>1
  <2>2. CASE k # 1
    <3>1. k - 1 \in 1..Len(e) /\ b + k # 1 /\ (b + k) - 1 = b + (k - 1)
      BY <1>8, <2>2
    <3>2. PICK x \in Int : x = e[k - 1] /\ lo <= x
      BY <1>7, <3>1 DEF Within
    <3>3. d[b + (k - 1)] = Len(s) + x
      BY <1>4, <3>1, <3>2
    <3>4. Resumes(d, b + k, 0, n) = (Len(s) + x) + n
      BY <3>1, <3>3 DEF Resumes
    <3>5. Start(k) = x + off + n + 1
      BY <2>2, <3>2
    <3> HIDE DEF Start
    <3>7. base \in Int /\ off = Len(s) - base
      BY <1>1, <1>4
    <3>8. off \in Int /\ lo \in Int /\ 0 - off <= lo
      BY <1>1, <1>5
    <3>6. base \in Int /\ off = Len(s) - base /\ off \in Int /\ 0 - off <= x /\ n \in Nat /\ Len(s) \in Int
      BY <1>1, <3>2, <3>7, <3>8
    <3> QED BY <3>4, <3>5, <3>6
  <2> QED BY <2>1, <2>2
<1> DEFINE p  == Parser!Pieces(t, d, 0, n)
           p1 == Parser!Pieces(s, c, 0, n)
           p2 == Parser!Pieces(u, e, off, n)
<1>12. /\ p \in Seq(Seq(Bytes)) /\ Len(p) = Len(d)
       /\ \A k \in 1..Len(d) : p[k] = SubSeq(t, Resumes(d, k, 0, n) + 1, d[k])
       /\ Parser!Remainder(t, d, 0, n) = SubSeq(t, Resumes(d, Len(d) + 1, 0, n) + 1, Len(t))
  <2>1. 0 + 0 + n + 1 >= 1 /\ (Len(t) - n) + 0 <= Len(t) /\ 0 \in Int
    BY <1>1, <1>2
  <2>2. TypedPieces(t, d, 0, n)
    BY <1>1, <1>2, <1>5, <1>6, <2>1, PiecesTyped
  <2>3. Between(t, d, n)
    BY <1>1, <1>2, <1>5, <1>6, PiecesAre
  <2> QED BY <2>2, <2>3 DEF TypedPieces, Between
<1>13. /\ p1 \in Seq(Seq(Bytes)) /\ Len(p1) = b
       /\ \A k \in 1..b : p1[k] = SubSeq(s, Resumes(c, k, 0, n) + 1, c[k])
  <2>1. 0 + 0 + n + 1 >= 1 /\ (Len(s) - n) + 0 <= Len(s) /\ 0 \in Int
    BY <1>1
  <2>2. TypedPieces(s, c, 0, n)
    BY <1>1, <1>5, <1>6, <2>1, PiecesTyped
  <2>3. Between(s, c, n)
    BY <1>1, <1>5, <1>6, PiecesAre
  <2> QED BY <2>2, <2>3 DEF TypedPieces, Between
<1>14. /\ p2 \in Seq(Seq(Bytes)) /\ Len(p2) = Len(e)
       /\ \A k \in 1..Len(e) : p2[k] = SubSeq(u, Start(k), e[k] + off)
  <2>1. lo + off + n + 1 >= 1 /\ (Len(in) - n) + off <= Len(u) /\ off \in Int
    <3>1. off \in Int /\ n \in Nat /\ Len(in) \in Nat
      BY <1>1
    <3>2. lo \in Int /\ 0 - off <= lo
      BY <1>5
    <3>3. Len(u) = off + Len(in)
      BY <1>3
    <3> QED BY <3>1, <3>2, <3>3, SMTT(30)
  <2>0. TypedPieces(u, e, off, n)
    BY <1>1, <1>3, <1>5, <1>6, <2>1, PiecesTyped
  <2>2. p2 \in Seq(Seq(Bytes)) /\ Len(p2) = Len(e)
    BY <2>0 DEF TypedPieces
  <2>3. DOMAIN e = 1..Len(e)
    BY <1>7 DEF Within
  <2> QED BY <2>2, <2>3 DEF Parser!Pieces
<1>15. p = p1 \o p2
  <2> HIDE DEF p, p1, p2
  <2>1. /\ p1 \o p2 \in Seq(Seq(Bytes)) /\ Len(p1 \o p2) = b + Len(e)
        /\ \A i \in 1..b + Len(e) : (p1 \o p2)[i] = IF i <= b THEN p1[i] ELSE p2[i - b]
    <3>1. /\ p1 \o p2 \in Seq(Seq(Bytes)) /\ Len(p1 \o p2) = Len(p1) + Len(p2)
          /\ \A i \in 1..Len(p1) + Len(p2) : (p1 \o p2)[i] = IF i <= Len(p1) THEN p1[i] ELSE p2[i - Len(p1)]
      <4>1. p1 \in Seq(Seq(Bytes)) /\ p2 \in Seq(Seq(Bytes))
        BY <1>13, <1>14
      <4> QED BY <4>1, ConcatProperties
    <3>2. Len(p1) = b /\ Len(p2) = Len(e)
      BY <1>13, <1>14
    <3> QED BY <3>1, <3>2
  <2>2. ASSUME NEW i \in 1..Len(p) PROVE p[i] = (p1 \o p2)[i]
    <3>1. CASE i <= b
      <4>1. i \in 1..b /\ i \in 1..Len(d) /\ i \in 1..b + Len(e)
        BY <1>4, <1>8, <1>12, <3>1
      <4>2. PICK x \in Int : x = Resumes(c, i, 0, n) /\ 0 <= x
        <5>1. i \in 1..Len(c) + 1
          BY <1>8, <4>1
        <5>2. Resumes(c, i, 0, n) \in Int /\ 0 <= Resumes(c, i, 0, n)
          BY <1>1, <1>5, <5>1, ResumesLater
        <5> QED BY <5>2
      <4>3. PICK y \in Int : y = c[i] /\ y <= Len(s) - n
        BY <1>7, <4>1 DEF Within
      <4>4. x + 1 \in Int /\ 1 <= x + 1 /\ y <= Len(s) /\ Len(s) <= Len(t)
        BY <1>1, <1>2, <4>2, <4>3
      <4>5. \A j \in 1..Len(s) : s[j] = t[j]
        BY <1>1, <1>2
      <4>6. SubSeq(s, x + 1, y) = SubSeq(t, x + 1, y)
        BY <1>2, <4>4, <4>5, PartOfBeginning
      <4>7. p[i] = SubSeq(t, x + 1, y)
        BY <1>4, <1>10, <1>12, <4>1, <4>2, <4>3
      <4>8. p1[i] = SubSeq(s, x + 1, y)
        BY <1>13, <4>1, <4>2, <4>3
      <4> QED BY <2>1, <3>1, <4>1, <4>6, <4>7, <4>8
    <3>2. CASE ~(i <= b)
      <4>1. PICK k \in 1..Len(e) : i = b + k
        <5>1. i - b \in 1..Len(e) /\ i = b + (i - b)
          BY <1>4, <1>8, <1>12, <3>2
        <5> QED BY <5>1
      <4>2. i \in 1..Len(d) /\ i \in 1..b + Len(e) /\ i - b = k /\ k \in 1..Len(e) + 1
        BY <1>4, <1>8, <1>12, <4>1
      <4>3. PICK x \in Int : x = Start(k) /\ 1 <= x /\ Resumes(d, b + k, 0, n) + 1 = base + x
        BY <1>11, <4>2
      <4>4. PICK y \in Int : y = e[k] /\ y <= Len(in) - n
        BY <1>7, <4>1 DEF Within
      <4>0. off \in Int /\ Len(u) = off + Len(in) /\ off = Len(s) - base /\ base \in Int
        BY <1>1, <1>3, <1>4
      <4>11. PICK z \in Int : z = y + off
        BY <4>0
      <4>12. z <= Len(u)
        <5>1. n \in Nat /\ Len(in) \in Nat
          BY <1>1
        <5> QED BY <4>0, <4>4, <4>11, <5>1, SMTT(30)
      <4>13. base + z = Len(s) + y
        BY <1>1, <4>0, <4>11
      <4>6. base \in Nat /\ base <= Len(t) /\ Len(u) = Len(t) - base
        BY <1>1, <1>2, <1>3, <1>4
      <4>7. SamePart(u, t, base, x, z)
        BY <1>2, <1>3, <1>9, <4>3, <4>6, <4>12, PartOfEnd
      <4>8. d[b + k] = Len(s) + y
        BY <1>4, <4>1, <4>4
      <4>9. p[i] = SubSeq(t, base + x, base + z)
        BY <1>12, <4>1, <4>2, <4>3, <4>8, <4>13
      <4>10. p2[k] = SubSeq(u, x, z)
        BY <1>14, <4>1, <4>3, <4>4, <4>11
      <4> QED BY <2>1, <3>2, <4>2, <4>7, <4>9, <4>10 DEF SamePart
    <3> QED BY <3>1, <3>2
  <2>3. Len(p) = Len(p1 \o p2)
    BY <1>4, <1>12, <2>1
  <2> QED BY <1>12, <2>1, <2>2, <2>3, SeqEqual
<1>16. Parser!Remainder(t, d, 0, n) = Parser!Remainder(u, e, off, n)
  <2> DEFINE k == Len(e) + 1
  <2>1. k \in 1..Len(e) + 1 /\ b + k = Len(d) + 1
    BY <1>4, <1>8
  <2>2. PICK x \in Int : x = Start(k) /\ 1 <= x /\ Resumes(d, b + k, 0, n) + 1 = base + x
    <3> HIDE DEF k
    <3> QED BY <1>11, <2>1
  <2>3. base \in Nat /\ base <= Len(t) /\ Len(u) = Len(t) - base /\ Len(u) \in Int /\ base + Len(u) = Len(t)
    BY <1>1, <1>2, <1>3, <1>4
  <2>4. SubSeq(u, x, Len(u)) = SubSeq(t, base + x, base + Len(u))
    <3>1. PICK z \in Int : z = Len(u) /\ z <= Len(u)
      BY <2>3
    <3>2. u \in Seq(Bytes) /\ t \in Seq(Bytes) /\ EndOf(u, t, base) /\ base \in Nat /\ base <= Len(t) /\ 1 <= x
      BY <1>2, <1>3, <1>9, <2>2, <2>3
    <3>3. SamePart(u, t, base, x, z)
      BY <3>1, <3>2, PartOfEnd
    <3> QED BY <3>1, <3>3 DEF SamePart
  <2>5. Parser!Remainder(t, d, 0, n) = SubSeq(t, base + x, Len(t))
    BY <1>12, <2>1, <2>2
  <2>6. Parser!Remainder(u, e, off, n) = SubSeq(u, x, Len(u))
    <3>1. CASE Len(e) = 0
      <4>1. e = <<>> /\ x = 1
        BY <1>7, <2>2, <3>1 DEF Within
      <4>2. SubSeq(u, 1, Len(u)) = u
        BY <1>3, SubSeqFull
      <4> QED BY <4>1, <4>2 DEF Parser!Remainder
    <3>2. CASE Len(e) # 0
      <4>1. e # <<>> /\ (Len(e) + 1) - 1 = Len(e) /\ Len(e) + 1 # 1
        BY <1>7, <1>8, <3>2 DEF Within
      <4>2. x = e[Len(e)] + off + n + 1
        BY <2>2, <4>1
      <4> QED BY <4>1, <4>2 DEF Parser!Remainder, Parser!LastOf
    <3> QED BY <3>1, <3>2
  <2> QED BY <2>3, <2>4, <2>5, <2>6
<1> QED BY <1>15, <1>16 DEF c, d, e, n, t, u, off

-----------------------------------------------------------------------------
(* The parser of streams: each of its steps.                                 *)

LEMMA ParserSteps == Spec => Parser!Spec
<1>1. Init => Parser!Init
  BY DEF Init
<1>2. [Next]_vars => [Parser!Next]_(Parser!parserVars)
  BY DEF Next, Streams, Others, vars, modelVars, streamVars, parserVars, processVars, socketVars, serverVars, otherVars, Parser!parserVars
<1> QED BY <1>1, <1>2, PTL DEF Spec, Parser!Spec

ParserType ==
  /\ splitMarker \in Markers /\ markerChanged \in BOOLEAN /\ switched \in BOOLEAN
  /\ buffer \in Seq(Bytes) /\ stream \in Seq(Bytes) /\ read \in Seq(Seq(Bytes))
\* Before anything came in nothing was read.
NothingYet == stream = <<>> => read = <<>> /\ buffer = <<>>
\* A marker that always was is not changed any more.
MarkerIsOld == ~switched /\ splitMarker # <<>> /\ markerChanged => stream = <<>>
ParserInv == ParserType /\ NothingYet /\ MarkerIsOld /\ Parser!SplitsExactly

LEMMA NothingSplits ==
  ASSUME splitMarker \in Markers, stream = <<>>, read = <<>>, buffer = <<>>
  PROVE  Parser!SplitsExactly
<1> SUFFICES ASSUME splitMarker # <<>> PROVE Parser!OncePerChunk
  BY DEF Parser!SplitsExactly
<1> DEFINE n == Len(splitMarker)
           c == Parser!MarkersIn(stream)
<1>1. n \in Nat /\ n >= 1
  BY MarkerIs
<1>2. stream \in Seq(Bytes) /\ Len(stream) = 0
  BY EmptySeq
<1>3. Leftmost(c, {i \in 0..Len(stream) - n : IsAt(stream, i)}, 0, Len(stream) - n, n)
  BY <1>2, MarkersAreLeftmost
<1> HIDE DEF n, c
<1>4. Within(c, 0, Len(stream) - n)
  BY <1>1, <1>2, <1>3, LeftmostWithin
<1>5. c = <<>>
  <2>1. Len(c) \in Nat /\ (c = <<>> <=> Len(c) = 0)
    BY <1>4 DEF Within
  <2>2. ASSUME Len(c) # 0 PROVE FALSE
    <3>1. 1 \in 1..Len(c)
      BY <2>1, <2>2
    <3>2. c[1] \in Int /\ 0 <= c[1] /\ c[1] <= Len(stream) - n
      BY <1>4, <3>1 DEF Within
    <3> QED BY <1>1, <1>2, <3>2
  <2> QED BY <2>1, <2>2
<1>6. Parser!Pieces(<<>>, <<>>, 0, n) = <<>> /\ Parser!Remainder(<<>>, <<>>, 0, n) = <<>>
  BY DEF Parser!Pieces, Parser!Remainder
<1> QED BY <1>5, <1>6 DEF Parser!OncePerChunk, c, n

\* What parseBytes() reads and keeps.
LEMMA PartTyped ==
  ASSUME splitMarker \in Markers, splitMarker # <<>>, NEW buf \in Seq(Bytes), NEW in \in Seq(Bytes)
  PROVE  /\ buf \o in \in Seq(Bytes)
         /\ TypedPieces(buf \o in, Parser!Cuts(buf, in), Len(buf), Len(splitMarker))
<1> DEFINE n == Len(splitMarker)
           e == Parser!Cuts(buf, in)
           at == Parser!MarkersAt(buf, in, ScanStart(buf))
           lo == ScanStart(buf)
           off == Len(buf)
           u == buf \o in
<1>1. n \in Nat /\ n >= 1 /\ Len(in) \in Nat /\ off \in Nat
  BY MarkerIs
<1>2. u \in Seq(Bytes) /\ Len(u) = off + Len(in)
  BY ConcatProperties
<1>3. Leftmost(e, at, lo, Len(in) - n, n + 1) /\ lo \in Int /\ 0 - off <= lo
  BY CutsAreLeftmost
<1> HIDE DEF n, e, at, lo, off, u
<1>4. lo + off + n + 1 >= 1 /\ (Len(in) - n) + off <= Len(u) /\ Len(in) - n \in Int /\ n + 1 \in Nat /\ off \in Int
  BY <1>1, <1>2, <1>3
<1>5. TypedPieces(u, e, off, n)
  BY <1>1, <1>2, <1>3, <1>4, PiecesTyped
<1> QED BY <1>2, <1>5 DEF u, e, off, n

LEMMA RescannedTyped ==
  ASSUME splitMarker \in Markers, splitMarker # <<>>, buffer \in Seq(Bytes)
  PROVE  /\ Parser!Rescanned.read \in Seq(Seq(Bytes)) /\ Parser!Rescanned.buffer \in Seq(Bytes)
         /\ buffer = <<>> => Parser!Rescanned = [read |-> <<>>, buffer |-> <<>>]
<1> DEFINE n == Len(splitMarker)
           e == Parser!Cuts(buffer, buffer)
           at == Parser!MarkersAt(buffer, buffer, ScanStart(buffer))
           lo == ScanStart(buffer)
<1>1. n \in Nat /\ n >= 1 /\ Len(buffer) \in Nat
  BY MarkerIs
<1>2. /\ Leftmost(e, at, lo, Len(buffer) - n, n + 1)
      /\ lo \in Int /\ 0 - Len(buffer) <= lo /\ 1 - n <= lo
  BY CutsAreLeftmost
<1>3. Parser!Rescanned = [read |-> Parser!Pieces(buffer, e, 0, n), buffer |-> Parser!Remainder(buffer, e, 0, n)]
  BY DEF Parser!Rescanned
<1> HIDE DEF n, e, at, lo
<1>4. lo + 0 + n + 1 >= 1 /\ (Len(buffer) - n) + 0 <= Len(buffer) /\ Len(buffer) - n \in Int /\ n + 1 \in Nat /\ 0 \in Int
  BY <1>1, <1>2
<1>5. TypedPieces(buffer, e, 0, n)
  BY <1>1, <1>2, <1>4, PiecesTyped
<1>6. ASSUME buffer = <<>> PROVE Parser!Rescanned = [read |-> <<>>, buffer |-> <<>>]
  <2>1. Within(e, lo, Len(buffer) - n)
    BY <1>2, <1>4, LeftmostWithin
  <2>2. Len(e) \in Nat /\ (e = <<>> <=> Len(e) = 0)
    BY <2>1 DEF Within
  <2>3. Len(buffer) = 0
    BY <1>6, EmptySeq
  <2>4. ASSUME Len(e) # 0 PROVE FALSE
    <3>1. 1 \in 1..Len(e)
      BY <2>2, <2>4
    <3>2. PICK x \in Int : lo <= x /\ x <= Len(buffer) - n
      BY <2>1, <3>1 DEF Within
    <3> QED BY <1>1, <1>2, <2>3, <3>2
  <2>5. Parser!Pieces(<<>>, <<>>, 0, n) = <<>> /\ Parser!Remainder(<<>>, <<>>, 0, n) = <<>>
    BY DEF Parser!Pieces, Parser!Remainder
  <2> QED BY <1>3, <1>6, <2>2, <2>4, <2>5
<1> QED BY <1>3, <1>5, <1>6 DEF TypedPieces

LEMMA InitParserInv == Parser!Init => ParserInv
<1> SUFFICES ASSUME Parser!Init PROVE ParserInv
  OBVIOUS
<1>1. ParserType /\ NothingYet /\ MarkerIsOld
  BY EmptySeq DEF Parser!Init, ParserType, NothingYet, MarkerIsOld
<1>2. Parser!SplitsExactly
  BY NothingSplits DEF Parser!Init
<1> QED BY <1>1, <1>2 DEF ParserInv

\* A part with a marker set.
LEMMA ParseSplits ==
  ASSUME ParserInv, NEW in \in Seq(Bytes), in # <<>>, splitMarker # <<>>, Parser!Parse(in),
         stream' = stream \o in, splitMarker' = splitMarker, switched' = switched
  PROVE  ParserInv'
<1> DEFINE n   == Len(splitMarker)
           old == IF markerChanged THEN Parser!Rescanned ELSE [read |-> <<>>, buffer |-> buffer]
           e   == Parser!Cuts(old.buffer, in)
<1>1. ParserType
  BY DEF ParserInv
<1>2. old.read \in Seq(Seq(Bytes)) /\ old.buffer \in Seq(Bytes)
  <2>1. CASE markerChanged
    <3>1. Parser!Rescanned.read \in Seq(Seq(Bytes)) /\ Parser!Rescanned.buffer \in Seq(Bytes)
      BY <1>1, RescannedTyped DEF ParserType
    <3> QED BY <2>1, <3>1
  <2>2. CASE ~markerChanged
    <3>1. old = [read |-> <<>>, buffer |-> buffer] /\ <<>> \in Seq(Seq(Bytes))
      BY <2>2
    <3> HIDE DEF old
    <3> QED BY <1>1, <3>1 DEF ParserType
  <2> QED BY <2>1, <2>2
<1>3. /\ read' = read \o old.read \o Parser!Pieces(old.buffer \o in, e, Len(old.buffer), n)
      /\ buffer' = Parser!Remainder(old.buffer \o in, e, Len(old.buffer), n)
      /\ markerChanged' = FALSE
  BY DEF Parser!Parse
<1> HIDE DEF old, e, n
<1>4. TypedPieces(old.buffer \o in, e, Len(old.buffer), n)
  BY <1>1, <1>2, PartTyped DEF ParserType, e, n
<1>5. stream' \in Seq(Bytes) /\ stream' # <<>>
  BY <1>1, ConcatProperties, ConcatEqualIffEmpty DEF ParserType
<1>6. ParserType'
  <2>1. read' \in Seq(Seq(Bytes))
    BY <1>1, <1>2, <1>3, <1>4, ConcatProperties DEF TypedPieces, ParserType
  <2>2. buffer' \in Seq(Bytes)
    BY <1>3, <1>4 DEF TypedPieces
  <2> QED BY <1>1, <1>3, <1>5, <2>1, <2>2 DEF ParserType
<1>7. NothingYet' /\ MarkerIsOld'
  BY <1>3, <1>5 DEF NothingYet, MarkerIsOld
<1>8. Parser!MarkersIn(stream)' = Parser!MarkersIn(stream \o in)
  BY DEF Parser!MarkersIn
<1>9. Parser!SplitsExactly'
  <2> SUFFICES ASSUME ~switched, ~Parser!Adjacent(Parser!MarkersIn(stream \o in))
               PROVE  /\ read' = Parser!Pieces(stream \o in, Parser!MarkersIn(stream \o in), 0, n)
                      /\ buffer' = Parser!Remainder(stream \o in, Parser!MarkersIn(stream \o in), 0, n)
    BY <1>8 DEF Parser!SplitsExactly, Parser!OncePerChunk, Parser!Adjacent, n
  <2>1. old.read = <<>> /\ old.buffer = buffer
    <3>1. CASE markerChanged
      <4>1. buffer = <<>>
        BY <3>1 DEF ParserInv, NothingYet, MarkerIsOld
      <4>2. Parser!Rescanned = [read |-> <<>>, buffer |-> <<>>]
        BY <1>1, <4>1, RescannedTyped DEF ParserType
      <4> QED BY <3>1, <4>1, <4>2 DEF old
    <3>2. CASE ~markerChanged
      BY <3>2 DEF old
    <3> QED BY <3>1, <3>2
  <2>2. stream \in Seq(Bytes) /\ buffer \in Seq(Bytes) /\ splitMarker \in Markers
    BY <1>1 DEF ParserType
  <2> DEFINE base == Resumes(Parser!MarkersIn(stream), Len(Parser!MarkersIn(stream)) + 1, 0, n)
  <2>3. Parser!OncePerChunk
    <3>1. ~Parser!Adjacent(Parser!MarkersIn(stream))
      BY <2>2, AdjacentStays
    <3> QED BY <3>1 DEF ParserInv, Parser!SplitsExactly
  <2>4. /\ read = Parser!Pieces(stream, Parser!MarkersIn(stream), 0, n)
        /\ buffer = Parser!Remainder(stream, Parser!MarkersIn(stream), 0, n)
    BY <2>3 DEF Parser!OncePerChunk, n
  <2>5. Between(stream, Parser!MarkersIn(stream), n)
    <3>1. Leftmost(Parser!MarkersIn(stream), {i \in 0..Len(stream) - n : IsAt(stream, i)}, 0, Len(stream) - n, n)
      BY <2>2, MarkersAreLeftmost DEF n
    <3>2. n \in Nat /\ Len(stream) - n \in Int
      BY <2>2, MarkerIs DEF n
    <3> QED BY <2>2, <3>1, <3>2, PiecesAre
  <2>6. GoesOn(stream, in, base, buffer)
    BY <2>2, <2>4, <2>5 DEF GoesOn, Between, n
  <2> HIDE DEF base
  <2>7. /\ Parser!Pieces(stream \o in, Parser!MarkersIn(stream \o in), 0, n)
             = Parser!Pieces(stream, Parser!MarkersIn(stream), 0, n)
                 \o Parser!Pieces(buffer \o in, Parser!Cuts(buffer, in), Len(buffer), n)
        /\ Parser!Remainder(stream \o in, Parser!MarkersIn(stream \o in), 0, n)
             = Parser!Remainder(buffer \o in, Parser!Cuts(buffer, in), Len(buffer), n)
    BY <2>2, <2>6, PiecesContinue DEF n
  <2>8. read \o <<>> = read
    BY <1>1, ConcatEmptySeq DEF ParserType
  <2> QED BY <1>3, <2>1, <2>4, <2>7, <2>8 DEF e
<1> QED BY <1>6, <1>7, <1>9 DEF ParserInv

LEMMA ParseBytesKeeps == ASSUME ParserInv, Parser!ParseBytes PROVE ParserInv'
<1>1. PICK m \in 1..MaxPart : \E in \in [1..m -> Bytes] :
        /\ stream' = stream \o in /\ Parser!Parse(in) /\ UNCHANGED <<splitMarker, switched>>
  BY DEF Parser!ParseBytes
<1>2. PICK in \in [1..m -> Bytes] :
        /\ stream' = stream \o in /\ Parser!Parse(in) /\ UNCHANGED <<splitMarker, switched>>
  BY <1>1
<1>3. m \in Nat /\ m >= 1
  OBVIOUS
<1>4. in \in Seq(Bytes) /\ Len(in) = m
  BY <1>3
<1>5. in # <<>>
  BY <1>3, <1>4, EmptySeq
<1>6. CASE splitMarker # <<>>
  BY <1>2, <1>4, <1>5, <1>6, ParseSplits
<1>7. CASE splitMarker = <<>>
  <2>1. /\ read' = read \o (IF buffer = <<>> THEN <<>> ELSE <<buffer>>) \o <<in>>
        /\ buffer' = <<>> /\ markerChanged' = markerChanged
    BY <1>2, <1>7 DEF Parser!Parse
  <2>2. ParserType
    BY DEF ParserInv
  <2>3. (IF buffer = <<>> THEN <<>> ELSE <<buffer>>) \in Seq(Seq(Bytes)) /\ <<in>> \in Seq(Seq(Bytes))
    BY <1>4, <2>2 DEF ParserType
  <2>4. read' \in Seq(Seq(Bytes))
    BY <2>1, <2>2, <2>3, ConcatProperties DEF ParserType
  <2>5. stream' \in Seq(Bytes) /\ stream' # <<>>
    BY <1>2, <1>4, <1>5, <2>2, ConcatProperties, ConcatEqualIffEmpty DEF ParserType
  <2>6. buffer' \in Seq(Bytes)
    BY <2>1, EmptySeq
  <2> QED BY <1>2, <1>7, <2>1, <2>2, <2>4, <2>5, <2>6
       DEF ParserInv, ParserType, NothingYet, MarkerIsOld, Parser!SplitsExactly
<1> QED BY <1>6, <1>7

LEMMA NothingSplitsPrimed ==
  (splitMarker \in Markers /\ stream = <<>> /\ read = <<>> /\ buffer = <<>>)' => Parser!SplitsExactly'
<1>1. splitMarker \in Markers /\ stream = <<>> /\ read = <<>> /\ buffer = <<>> => Parser!SplitsExactly
  BY NothingSplits
<1> QED BY <1>1, PTL

LEMMA SetSplitMarkerKeeps == ASSUME ParserInv, Parser!SetSplitMarker PROVE ParserInv'
<1>1. /\ splitMarker' \in Markers /\ markerChanged' = TRUE /\ switched' = (switched \/ stream # <<>>)
      /\ UNCHANGED <<buffer, read, stream>>
  BY DEF Parser!SetSplitMarker
<1>2. ParserType' /\ NothingYet' /\ MarkerIsOld'
  BY <1>1 DEF ParserInv, ParserType, NothingYet, MarkerIsOld
<1>3. Parser!SplitsExactly'
  <2>1. CASE stream = <<>>
    BY <1>1, <2>1, NothingSplitsPrimed DEF ParserInv, NothingYet
  <2>2. CASE stream # <<>>
    BY <1>1, <2>2 DEF Parser!SplitsExactly, Parser!OncePerChunk
  <2> QED BY <2>1, <2>2
<1> QED BY <1>2, <1>3 DEF ParserInv

LEMMA NextParserInv == ASSUME ParserInv, [Parser!Next]_(Parser!parserVars) PROVE ParserInv'
<1>1. CASE Parser!ParseBytes
  BY <1>1, ParseBytesKeeps
<1>2. CASE Parser!SetSplitMarker
  BY <1>2, SetSplitMarkerKeeps
<1>3. CASE UNCHANGED Parser!parserVars
  BY <1>3 DEF Parser!parserVars, ParserInv, ParserType, NothingYet, MarkerIsOld,
              Parser!SplitsExactly, Parser!OncePerChunk, Parser!MarkersIn, Parser!Adjacent, Parser!Pieces, Parser!Remainder
<1> QED BY <1>1, <1>2, <1>3 DEF Parser!Next

LEMMA ParserInvariance == Parser!Spec => []ParserInv
<1>1. ParserInv /\ [Parser!Next]_(Parser!parserVars) => ParserInv'
  BY NextParserInv
<1> QED BY <1>1, InitParserInv, PTL DEF Parser!Spec

\* SplitParser::parseBytes() (src/src/io/datastream.cpp) hands over the pieces of the stream between
\* its markers and keeps what has none behind it, in whatever parts the stream comes, as long as no
\* marker follows another directly and the marker always was the same.
THEOREM SplitsAtMarkers == Spec => []SplitsExactly
<1>1. ParserInv => SplitsExactly
  BY DEF ParserInv, SplitsExactly
<1> QED BY <1>1, ParserSteps, ParserInvariance, PTL

-----------------------------------------------------------------------------
(* The list model.                                                           *)

LEMMA ModelSteps == Spec => Model!Spec
<1>1. Init => Model!Init
  BY DEF Init
<1>2. [Next]_vars => [Model!Next]_(Model!modelVars)
  BY DEF Next, Streams, Others, vars, modelVars, otherVars, lockVars, trayVars, mirrorVars, adapterVars, Model!modelVars
<1> QED BY <1>1, <1>2, PTL DEF Spec, Model!Spec

\* The first k entries are those of the new list.
Arranged(v, new, k) ==
  k \in Nat /\ k <= Len(v) /\ k <= Len(new) /\ \A i \in 1..k : Model!Same(v[i], new[i])

ModelInv ==
  /\ values \in Seq(Items) /\ newValues \in Seq(Items) /\ view = values
  /\ busy \in BOOLEAN /\ newIter = iter
  /\ Arranged(values, newValues, iter)
  /\ ~busy => Len(values) = Len(newValues) /\ Arranged(values, newValues, Len(values))

LEMMA ListsAre == ASSUME NEW s \in Lists PROVE s \in Seq(Items)
<1>1. PICK n \in 0..MaxItems : s \in [1..n -> Items]
  BY DEF Lists
<1>2. n \in Nat
  OBVIOUS
<1> QED BY <1>1, <1>2

\* A part of a list, and parts one after the other.
IsPart(p, v, x, y) ==
  /\ p = SubSeq(v, x, y) /\ p \in Seq(Items) /\ Len(p) = y - x + 1
  /\ \A i \in 1..Len(p) : p[i] = v[x + i - 1]

LEMMA PartOfList ==
  ASSUME NEW v \in Seq(Items), NEW x \in Int, NEW y \in Int, 1 <= x, x <= y + 1, y <= Len(v)
  PROVE  IsPart(SubSeq(v, x, y), v, x, y)
<1> DEFINE p == SubSeq(v, x, y)
<1>1. p \in Seq(Items) /\ Len(p) = (IF x <= y THEN y - x + 1 ELSE 0) /\ \A i \in 1..y - x + 1 : p[i] = v[x + i - 1]
  BY PartOf
<1> HIDE DEF p
<1>2. Len(p) = y - x + 1
  BY <1>1
<1> QED BY <1>1, <1>2 DEF IsPart, p

\* What an update puts together: the entries passed, the run after them, and the rest.
Run(w, v, p, k, m) ==
  /\ w \in Seq(Items) /\ k + m <= Len(w)
  /\ \A i \in 1..k : w[i] = v[i]
  /\ \A i \in 1..m : w[k + i] = p[i]

RunOf(w, v, p, r, k) == Run(w, v, p, k, Len(p)) /\ Len(w) = k + Len(p) + Len(r)

LEMMA RunIs ==
  ASSUME NEW v \in Seq(Items), NEW k \in Nat, k <= Len(v), NEW p \in Seq(Items), NEW r \in Seq(Items)
  PROVE  RunOf(SubSeq(v, 1, k) \o p \o r, v, p, r, k)
<1> DEFINE a == SubSeq(v, 1, k)
           w == a \o p \o r
           b == a \o p
<1>1. IsPart(a, v, 1, k)
  BY PartOfList
<1>2. a \in Seq(Items) /\ Len(a) = k /\ \A i \in 1..k : a[i] = v[i]
  BY <1>1 DEF IsPart
<1> HIDE DEF a
<1>3. /\ b \in Seq(Items) /\ Len(b) = k + Len(p)
      /\ \A i \in 1..k + Len(p) : b[i] = IF i <= k THEN a[i] ELSE p[i - k]
  BY <1>2, ConcatProperties
<1>4. w = b \o r
  OBVIOUS
<1> HIDE DEF w
<1> HIDE DEF b
<1>5. /\ w \in Seq(Items) /\ Len(w) = (k + Len(p)) + Len(r)
      /\ \A i \in 1..(k + Len(p)) + Len(r) : w[i] = IF i <= k + Len(p) THEN b[i] ELSE r[i - (k + Len(p))]
  <2>1. /\ b \o r \in Seq(Items) /\ Len(b \o r) = Len(b) + Len(r)
        /\ \A i \in 1..Len(b) + Len(r) : (b \o r)[i] = IF i <= Len(b) THEN b[i] ELSE r[i - Len(b)]
    BY <1>3, ConcatProperties
  <2> QED BY <1>3, <1>4, <2>1
<1>6. Len(p) \in Nat /\ Len(r) \in Nat
  OBVIOUS
<1>7. ASSUME NEW i \in 1..k PROVE w[i] = v[i]
  <2>1. i \in 1..k + Len(p) /\ i \in 1..(k + Len(p)) + Len(r) /\ i <= k + Len(p) /\ i <= k
    BY <1>6
  <2> QED BY <1>2, <1>3, <1>5, <2>1
<1>8. ASSUME NEW i \in 1..Len(p) PROVE w[k + i] = p[i]
  <2>1. /\ k + i \in 1..k + Len(p) /\ k + i \in 1..(k + Len(p)) + Len(r) /\ k + i <= k + Len(p)
        /\ ~(k + i <= k) /\ (k + i) - k = i
    BY <1>6
  <2> QED BY <1>3, <1>5, <2>1
<1>9. k + Len(p) <= Len(w) /\ Len(w) = k + Len(p) + Len(r)
  BY <1>5, <1>6
<1>10. RunOf(w, v, p, r, k)
  BY <1>5, <1>7, <1>8, <1>9 DEF Run, RunOf
<1> QED BY <1>10 DEF w, a

\* Then one more run is arranged.
LEMMA RunArranges ==
  ASSUME NEW v, NEW w, NEW p, NEW new \in Seq(Items), NEW k, NEW m \in Nat,
         Arranged(v, new, k), Run(w, v, p, k, m), k + m <= Len(new),
         \A i \in 1..m : Model!Same(p[i], new[k + i])
  PROVE  Arranged(w, new, k + m)
<1>1. k \in Nat /\ k + m \in Nat /\ k + m <= Len(w)
  BY DEF Arranged, Run
<1>2. ASSUME NEW i \in 1..k + m PROVE Model!Same(w[i], new[i])
  <2>1. CASE i <= k
    <3>1. i \in 1..k
      BY <1>1, <2>1
    <3> QED BY <3>1 DEF Arranged, Run
  <2>2. CASE ~(i <= k)
    <3>1. PICK j \in 1..m : i = k + j
      <4>1. i - k \in 1..m /\ i = k + (i - k)
        BY <1>1, <2>2
      <4> QED BY <4>1
    <3> QED BY <3>1 DEF Run
  <2> QED BY <2>1, <2>2
<1> QED BY <1>1, <1>2 DEF Arranged

\* A run ends, at latest where it may not go on.
LEMMA RunEnds ==
  ASSUME NEW top \in Nat, NEW stops, NEW n \in stops, stops \subseteq 1..top
  PROVE  \E k \in 1..top : k \in stops /\ k <= n /\ \A m \in 1..k - 1 : m \notin stops
<1>1. stops \in SUBSET Nat /\ stops # {}
  OBVIOUS
<1>2. PICK k \in stops : \A m \in stops : k <= m
  BY <1>1, Smallest
<1>3. k \in 1..top /\ k <= n
  BY <1>2
<1>4. ASSUME NEW m \in 1..k - 1 PROVE m \notin stops
  BY <1>2, <1>3
<1> QED BY <1>2, <1>3, <1>4

LEMMA InitModelInv == Model!Init => ModelInv
<1> SUFFICES ASSUME Model!Init PROVE ModelInv
  OBVIOUS
<1>1. values = <<>> /\ newValues = <<>> /\ iter = 0 /\ newIter = 0 /\ busy = FALSE /\ view = <<>>
  BY DEF Model!Init
<1>2. <<>> \in Seq(Items) /\ Len(<<>>) = 0
  BY EmptySeq
<1>3. Arranged(<<>>, <<>>, 0)
  BY <1>2 DEF Arranged
<1> QED BY <1>1, <1>2, <1>3 DEF ModelInv

LEMMA SetValuesKeeps == ASSUME ModelInv, NEW new \in Lists, Model!SetValues(new) PROVE ModelInv'
<1>1. values' = values /\ view' = view /\ newValues' = new /\ iter' = 0 /\ newIter' = 0 /\ busy' = TRUE
  BY DEF Model!SetValues
<1>2. new \in Seq(Items)
  BY ListsAre
<1>3. Arranged(values, new, 0)
  BY <1>2 DEF Arranged, ModelInv
<1> QED BY <1>1, <1>2, <1>3 DEF ModelInv

LEMMA FinishKeeps == ASSUME ModelInv, Model!Finish PROVE ModelInv'
<1>1. iter = Len(values) /\ newIter = Len(newValues) /\ busy' = FALSE
      /\ UNCHANGED <<values, newValues, iter, newIter, view>>
  BY DEF Model!Finish, Model!AtEnd, Model!NewAtEnd
<1> QED BY <1>1 DEF ModelInv

LEMMA ChopKeeps == ASSUME ModelInv, Model!Chop PROVE ModelInv'
<1>1. /\ newIter = Len(newValues)
      /\ values' = SubSeq(values, 1, iter)
      /\ view' = SubSeq(view, 1, Len(newValues)) \o SubSeq(view, Len(values) - 1 + 1 + 1, Len(view))
      /\ busy' = FALSE /\ UNCHANGED <<newValues, iter, newIter>>
  BY DEF Model!Chop, Model!NewAtEnd, Model!RemoveRows, Model!From
<1>2. values \in Seq(Items) /\ view = values /\ iter = Len(newValues) /\ iter \in Nat /\ iter <= Len(values)
      /\ newValues \in Seq(Items) /\ newIter = iter
  BY <1>1 DEF ModelInv, Arranged
<1>3. IsPart(SubSeq(values, 1, iter), values, 1, iter)
  BY <1>2, PartOfList
<1>4. values' \in Seq(Items) /\ Len(values') = iter /\ \A i \in 1..iter : values'[i] = values[i]
  BY <1>1, <1>2, <1>3 DEF IsPart
<1>5. SubSeq(values, Len(values) - 1 + 1 + 1, Len(values)) = <<>>
  BY <1>2, SubSeqEmpty
<1>6. view' = values'
  BY <1>1, <1>2, <1>4, <1>5, ConcatEmptySeq
<1>7. Arranged(values', newValues, iter)
  BY <1>2, <1>4 DEF ModelInv, Arranged
<1> QED BY <1>1, <1>2, <1>4, <1>6, <1>7 DEF ModelInv

LEMMA AppendRestKeeps == ASSUME ModelInv, Model!AppendRest PROVE ModelInv'
<1> DEFINE L == Len(values)
           rest == SubSeq(newValues, L + 1, Len(newValues))
<1>1. /\ iter = L /\ newIter # Len(newValues)
      /\ values' = values \o rest
      /\ view' = SubSeq(view, 1, L) \o SubSeq(values', L + 1, Len(newValues) - 1 + 1) \o SubSeq(view, L + 1, Len(view))
      /\ busy' = FALSE /\ UNCHANGED <<newValues, iter, newIter>>
  BY DEF Model!AppendRest, Model!AtEnd, Model!NewAtEnd, Model!InsertRows, Model!From
<1>2. /\ values \in Seq(Items) /\ newValues \in Seq(Items) /\ view = values /\ newIter = iter
      /\ L \in Nat /\ L <= Len(newValues) /\ Len(newValues) \in Nat
      /\ Arranged(values, newValues, L)
  BY <1>1 DEF ModelInv, Arranged
<1> HIDE DEF L
<1>3. IsPart(rest, newValues, L + 1, Len(newValues))
  BY <1>2, PartOfList
<1>4. /\ rest \in Seq(Items) /\ Len(rest) = Len(newValues) - L
      /\ \A i \in 1..Len(rest) : rest[i] = newValues[L + i]
  <2>1. \A i \in 1..Len(rest) : (L + 1) + i - 1 = L + i
    BY <1>2, <1>3 DEF IsPart
  <2> QED BY <1>2, <1>3, <2>1 DEF IsPart
<1> HIDE DEF rest
<1>5. /\ values' \in Seq(Items) /\ Len(values') = L + Len(rest)
      /\ \A i \in 1..L + Len(rest) : values'[i] = IF i <= L THEN values[i] ELSE rest[i - L]
  BY <1>1, <1>2, <1>4, ConcatProperties DEF L
<1>6. Len(values') = Len(newValues)
  BY <1>2, <1>4, <1>5
<1>7. view' = values'
  <2>1. SubSeq(values, 1, L) = values /\ SubSeq(values, L + 1, Len(values)) = <<>>
    BY <1>2, SubSeqFull, SubSeqEmpty DEF L
  <2>2. Len(newValues) - 1 + 1 = Len(newValues)
    BY <1>2
  <2>3. IsPart(SubSeq(values', L + 1, Len(newValues)), values', L + 1, Len(newValues))
    BY <1>2, <1>5, <1>6, PartOfList
  <2> DEFINE q == SubSeq(values', L + 1, Len(newValues))
  <2>4. q \in Seq(Items) /\ Len(q) = Len(rest) /\ \A i \in 1..Len(q) : q[i] = values'[(L + 1) + i - 1]
    BY <1>2, <1>4, <2>3 DEF IsPart
  <2> HIDE DEF q
  <2>5. ASSUME NEW i \in 1..Len(q) PROVE q[i] = rest[i]
    <3>1. (L + 1) + i - 1 = L + i /\ L + i \in 1..L + Len(rest) /\ ~(L + i <= L) /\ (L + i) - L = i
      BY <1>2, <1>4, <2>4
    <3> QED BY <1>5, <2>4, <3>1
  <2>6. q = rest
    BY <1>4, <2>4, <2>5, SeqEqual
  <2>7. view' = (values \o rest) \o <<>>
    BY <1>1, <1>2, <2>1, <2>2, <2>6 DEF q, L
  <2> QED BY <1>1, <1>5, <2>7, ConcatEmptySeq
<1>8. Arranged(values', newValues, Len(values'))
  <2>1. ASSUME NEW i \in 1..Len(values') PROVE Model!Same(values'[i], newValues[i])
    <3>1. CASE i <= L
      <4>1. i \in 1..L /\ i \in 1..L + Len(rest)
        BY <1>2, <1>5, <3>1
      <4> QED BY <1>2, <1>5, <3>1, <4>1 DEF Arranged
    <3>2. CASE ~(i <= L)
      <4>1. i - L \in 1..Len(rest) /\ L + (i - L) = i /\ i \in 1..L + Len(rest)
        BY <1>2, <1>4, <1>5, <3>2
      <4> QED BY <1>4, <1>5, <3>2, <4>1 DEF Model!Same
    <3> QED BY <3>1, <3>2
  <2> QED BY <1>2, <1>6, <2>1 DEF Arranged
<1>9. Arranged(values', newValues, iter)
  BY <1>1, <1>2, <1>6, <1>8 DEF Arranged
<1> QED BY <1>1, <1>2, <1>5, <1>6, <1>7, <1>8, <1>9 DEF ModelInv

\* What stands in the way is not in the new list, and goes.
LEMMA RemoveRunKeeps == ASSUME ModelInv, Model!RemoveRun PROVE ModelInv'
<1> DEFINE Goes(n) == iter + n < Len(values) /\ ~Model!Found(values[iter + n + 1], newValues, newIter)
           top == Len(values) + Len(newValues)
           n == CHOOSE k \in 1..top : ~Goes(k) /\ \A m \in 1..k - 1 : Goes(m)
<1>1. /\ busy /\ iter # Len(values)
      /\ values' = SubSeq(values, 1, iter) \o SubSeq(values, iter + n + 1, Len(values))
      /\ view' = SubSeq(view, 1, iter) \o SubSeq(view, iter + n - 1 + 1 + 1, Len(view))
      /\ UNCHANGED <<newValues, iter, newIter, busy>>
  BY DEF Model!RemoveRun, Model!Differ, Model!AtEnd, Model!RunLength, Model!RemoveRows, Model!From
<1>2. /\ values \in Seq(Items) /\ newValues \in Seq(Items) /\ view = values /\ newIter = iter
      /\ iter \in Nat /\ iter < Len(values) /\ top \in Nat /\ Len(values) \in Nat /\ Len(newValues) \in Nat
      /\ Arranged(values, newValues, iter)
  BY <1>1 DEF ModelInv, Arranged
<1>3. n \in 1..top /\ iter + n <= Len(values)
  <2> DEFINE stops == {k \in 1..top : ~Goes(k)}
             end_ == Len(values) - iter
  <2>1. end_ \in stops /\ stops \subseteq 1..top
    BY <1>2
  <2>2. PICK k \in 1..top : k \in stops /\ k <= end_ /\ \A m \in 1..k - 1 : m \notin stops
    <3> HIDE DEF stops, end_, top
    <3> QED BY <1>2, <2>1, RunEnds
  <2>3. ~Goes(k) /\ \A m \in 1..k - 1 : Goes(m)
    <3>1. \A m \in 1..k - 1 : m \in 1..top
      BY <1>2, <2>2
    <3> HIDE DEF Goes, top
    <3> QED BY <2>2, <3>1
  <2>4. n \in 1..top /\ ~Goes(n) /\ \A m \in 1..n - 1 : Goes(m)
    <3> HIDE DEF Goes, top
    <3> QED BY <2>3
  <2> HIDE DEF n
  <2>5. ~(iter + n <= Len(values)) => end_ \in 1..n - 1
    BY <1>2, <2>4
  <2>6. ~Goes(end_)
    BY <1>2
  <2> HIDE DEF Goes, end_
  <2> QED BY <2>4, <2>5, <2>6
<1> HIDE DEF n, top
<1>4. n \in Nat /\ iter + n - 1 + 1 + 1 = iter + n + 1
  BY <1>2, <1>3
<1> DEFINE rest == SubSeq(values, iter + n + 1, Len(values))
<1>5. rest \in Seq(Items)
  <2>1. IsPart(rest, values, iter + n + 1, Len(values))
    BY <1>2, <1>3, <1>4, PartOfList
  <2> QED BY <2>1 DEF IsPart
<1> HIDE DEF rest
<1>6. Run(values', values, <<>>, iter, 0) /\ Len(values') = iter + Len(rest)
  <2>1. IsPart(SubSeq(values, 1, iter), values, 1, iter)
    BY <1>2, PartOfList
  <2>2. SubSeq(values, 1, iter) \o <<>> = SubSeq(values, 1, iter)
    BY <2>1, ConcatEmptySeq DEF IsPart
  <2>3. values' = SubSeq(values, 1, iter) \o <<>> \o rest
    BY <1>1, <2>2 DEF rest
  <2>4. <<>> \in Seq(Items) /\ Len(<<>>) = 0
    BY EmptySeq
  <2>5. RunOf(values', values, <<>>, rest, iter)
    <3>1. ASSUME NEW p \in Seq(Items) PROVE RunOf(SubSeq(values, 1, iter) \o p \o rest, values, p, rest, iter)
      BY <1>2, <1>5, RunIs
    <3>2. RunOf(SubSeq(values, 1, iter) \o <<>> \o rest, values, <<>>, rest, iter)
      BY <2>4, <3>1
    <3> QED BY <2>3, <3>2
  <2> QED BY <1>2, <1>5, <2>4, <2>5 DEF RunOf
<1>7. Arranged(values', newValues, iter)
  BY <1>2, <1>5, <1>6 DEF Arranged, Run
<1>8. view' = values'
  BY <1>1, <1>2, <1>4
<1> QED BY <1>1, <1>2, <1>6, <1>7, <1>8 DEF ModelInv, Run

\* A run of the new list that the model has further on.
LEMMA MoveRunKeeps == ASSUME ModelInv, Model!MoveRun PROVE ModelInv'
<1> DEFINE old == CHOOSE j \in iter..Len(values) - 1 :
                    Model!Same(values[j + 1], Model!New) /\ \A i \in iter..j - 1 : ~Model!Same(values[i + 1], Model!New)
           Goes(k) == /\ old + k < Len(values) /\ newIter + k < Len(newValues)
                      /\ Model!Same(values[old + k + 1], newValues[newIter + k + 1])
           top == Len(values) + Len(newValues)
           n == CHOOSE k \in 1..top : ~Goes(k) /\ \A m \in 1..k - 1 : Goes(m)
<1>1. /\ busy /\ iter # Len(values) /\ newIter # Len(newValues)
      /\ Model!Found(Model!New, values, iter)
      /\ values' = SubSeq(values, 1, iter) \o SubSeq(values, old + 1, old + n)
                     \o SubSeq(values, iter + 1, old) \o SubSeq(values, old + n + 1, Len(values))
      /\ view' = SubSeq(view, 1, iter) \o SubSeq(view, old + 1, old + n - 1 + 1)
                     \o SubSeq(view, iter + 1, old) \o SubSeq(view, old + n - 1 + 1 + 1, Len(view))
      /\ iter' = iter + n /\ newIter' = newIter + n
      /\ UNCHANGED <<newValues, busy>>
  BY DEF Model!MoveRun, Model!Differ, Model!AtEnd, Model!NewAtEnd, Model!RunLength, Model!MoveRows, Model!From
<1>2. /\ values \in Seq(Items) /\ newValues \in Seq(Items) /\ view = values /\ newIter = iter
      /\ iter \in Nat /\ iter < Len(values) /\ iter < Len(newValues)
      /\ top \in Nat /\ Len(values) \in Nat /\ Len(newValues) \in Nat
      /\ Arranged(values, newValues, iter)
  <2> HIDE DEF n, old, Goes
  <2> QED BY <1>1 DEF ModelInv, Arranged
<1>3. old \in iter..Len(values) - 1 /\ Model!Same(values[old + 1], Model!New)
  <2> DEFINE hits == {j \in iter..Len(values) - 1 : Model!Same(values[j + 1], Model!New)}
  <2>1. hits # {}
    <3>1. PICK j \in iter + 1..Len(values) : Model!Same(values[j], Model!New)
      BY <1>1 DEF Model!Found
    <3>2. j - 1 \in iter..Len(values) - 1 /\ (j - 1) + 1 = j
      BY <1>2
    <3> QED BY <3>1, <3>2
  <2>2. hits \in SUBSET Nat
    BY <1>2
  <2>3. PICK j \in hits : \A i \in hits : j <= i
    <3> HIDE DEF hits
    <3> QED BY <2>1, <2>2, Smallest
  <2>4. /\ j \in iter..Len(values) - 1 /\ Model!Same(values[j + 1], Model!New)
        /\ \A i \in iter..j - 1 : ~Model!Same(values[i + 1], Model!New)
    <3>1. ASSUME NEW i \in iter..j - 1 PROVE i \in iter..Len(values) - 1 /\ ~(j <= i)
      BY <1>2, <2>3
    <3> QED BY <2>3, <3>1
  <2> QED BY <2>4
<1> HIDE DEF old
<1>4. n \in 1..top /\ old + n <= Len(values) /\ iter + n <= Len(newValues) /\ \A m \in 1..n - 1 : Goes(m)
  <2> DEFINE stops == {k \in 1..top : ~Goes(k)}
             endV == Len(values) - old
             endN == Len(newValues) - iter
  <2>1. endV \in stops /\ endN \in stops /\ stops \subseteq 1..top
    BY <1>2, <1>3
  <2>2. PICK k \in 1..top : k \in stops /\ k <= endV /\ \A m \in 1..k - 1 : m \notin stops
    <3> HIDE DEF stops, endV, top
    <3> QED BY <1>2, <2>1, RunEnds
  <2>3. ~Goes(k) /\ \A m \in 1..k - 1 : Goes(m)
    <3>1. \A m \in 1..k - 1 : m \in 1..top
      BY <1>2, <2>2
    <3> HIDE DEF Goes, top
    <3> QED BY <2>2, <3>1
  <2>4. n \in 1..top /\ ~Goes(n) /\ \A m \in 1..n - 1 : Goes(m)
    <3> HIDE DEF Goes, top
    <3> QED BY <2>3
  <2> HIDE DEF n
  <2>5. /\ ~(old + n <= Len(values)) => endV \in 1..n - 1
        /\ ~(iter + n <= Len(newValues)) => endN \in 1..n - 1
    BY <1>2, <1>3, <2>4
  <2>6. ~Goes(endV) /\ ~Goes(endN)
    BY <1>2, <1>3
  <2> HIDE DEF Goes, endV, endN
  <2> QED BY <2>4, <2>5, <2>6
<1> HIDE DEF n, top
<1>5. /\ n \in Nat /\ n >= 1 /\ old \in Nat
      /\ old + n - 1 + 1 = old + n /\ old + n - 1 + 1 + 1 = old + n + 1
  BY <1>2, <1>3, <1>4
<1> DEFINE p == SubSeq(values, old + 1, old + n)
           q == SubSeq(values, iter + 1, old)
           r == SubSeq(values, old + n + 1, Len(values))
<1>6. IsPart(p, values, old + 1, old + n) /\ IsPart(q, values, iter + 1, old) /\ IsPart(r, values, old + n + 1, Len(values))
  <2>1. IsPart(p, values, old + 1, old + n)
    BY <1>2, <1>4, <1>5, PartOfList
  <2>2. IsPart(q, values, iter + 1, old)
    BY <1>2, <1>3, <1>5, PartOfList
  <2>3. IsPart(r, values, old + n + 1, Len(values))
    BY <1>2, <1>4, <1>5, PartOfList
  <2> QED BY <2>1, <2>2, <2>3
<1> DEFINE a == SubSeq(values, 1, iter)
<1>7. values' = a \o p \o (q \o r) /\ view' = values'
  <2>1. IsPart(a, values, 1, iter)
    BY <1>2, PartOfList
  <2>2. a \in Seq(Items) /\ p \in Seq(Items) /\ q \in Seq(Items) /\ r \in Seq(Items)
    BY <1>6, <2>1 DEF IsPart
  <2>3. values' = ((a \o p) \o q) \o r /\ view' = ((a \o p) \o q) \o r
    BY <1>1, <1>2, <1>5
  <2> HIDE DEF a, p, q, r
  <2>4. a \o p \in Seq(Items)
    BY <2>2, ConcatProperties
  <2>5. ((a \o p) \o q) \o r = (a \o p) \o (q \o r)
    <3>1. ASSUME NEW b \in Seq(Items) PROVE (b \o q) \o r = b \o (q \o r)
      BY <2>2, ConcatAssociative
    <3> QED BY <2>4, <3>1
  <2> QED BY <2>3, <2>5
<1> HIDE DEF p, q, r
<1>8. p \in Seq(Items) /\ Len(p) = n /\ q \o r \in Seq(Items) /\ \A i \in 1..n : p[i] = values[old + i]
  <2>1. q \o r \in Seq(Items)
    BY <1>6, ConcatProperties DEF IsPart
  <2>2. Len(p) = n
    BY <1>5, <1>6 DEF IsPart
  <2>3. \A i \in 1..n : (old + 1) + i - 1 = old + i
    BY <1>5
  <2> QED BY <1>6, <2>1, <2>2, <2>3 DEF IsPart
<1>9. Run(values', values, p, iter, n)
  <2> DEFINE s == q \o r
  <2>1. s \in Seq(Items) /\ values' = SubSeq(values, 1, iter) \o p \o s
    BY <1>7, <1>8
  <2> HIDE DEF s
  <2>2. RunOf(values', values, p, s, iter)
    <3>1. p \in Seq(Items) /\ iter <= Len(values)
      BY <1>2, <1>8
    <3>2. RunOf(SubSeq(values, 1, iter) \o p \o s, values, p, s, iter)
      BY <1>2, <2>1, <3>1, RunIs
    <3> QED BY <2>1, <3>2
  <2> QED BY <1>8, <2>2 DEF RunOf
<1>10. ASSUME NEW i \in 1..n PROVE Model!Same(p[i], newValues[iter + i])
  <2>1. CASE i = 1
    BY <1>2, <1>3, <1>8, <2>1 DEF Model!New
  <2>2. CASE i # 1
    <3>1. i - 1 \in 1..n - 1 /\ old + (i - 1) + 1 = old + i /\ iter + (i - 1) + 1 = iter + i
      BY <1>2, <1>5, <2>2
    <3>2. Goes(i - 1)
      BY <1>4, <3>1
    <3> QED BY <1>2, <1>8, <3>1, <3>2
  <2> QED BY <2>1, <2>2
<1>11. Arranged(values', newValues, iter + n)
  BY <1>2, <1>4, <1>5, <1>9, <1>10, RunArranges
<1> QED BY <1>1, <1>2, <1>7, <1>9, <1>11 DEF ModelInv, Run

\* A run of the new list that the model does not have.
LEMMA InsertRunKeeps == ASSUME ModelInv, Model!InsertRun PROVE ModelInv'
<1> DEFINE Goes(k) == newIter + k < Len(newValues) /\ ~Model!Found(newValues[newIter + k + 1], values, iter)
           top == Len(values) + Len(newValues)
           n == CHOOSE k \in 1..top : ~Goes(k) /\ \A m \in 1..k - 1 : Goes(m)
<1>1. /\ busy /\ iter # Len(values) /\ newIter # Len(newValues)
      /\ values' = SubSeq(values, 1, iter) \o SubSeq(newValues, newIter + 1, newIter + n)
                     \o SubSeq(values, iter + 1, Len(values))
      /\ view' = SubSeq(view, 1, iter) \o SubSeq(values', iter + 1, iter + n - 1 + 1) \o SubSeq(view, iter + 1, Len(view))
      /\ iter' = iter + n /\ newIter' = newIter + n
      /\ UNCHANGED <<newValues, busy>>
  BY DEF Model!InsertRun, Model!Differ, Model!AtEnd, Model!NewAtEnd, Model!RunLength, Model!InsertRows, Model!From
<1>2. /\ values \in Seq(Items) /\ newValues \in Seq(Items) /\ view = values /\ newIter = iter
      /\ iter \in Nat /\ iter < Len(values) /\ iter < Len(newValues)
      /\ top \in Nat /\ Len(values) \in Nat /\ Len(newValues) \in Nat
      /\ Arranged(values, newValues, iter)
  BY <1>1 DEF ModelInv, Arranged
<1>3. n \in 1..top /\ iter + n <= Len(newValues)
  <2> DEFINE stops == {k \in 1..top : ~Goes(k)}
             endN == Len(newValues) - iter
  <2>1. endN \in stops /\ stops \subseteq 1..top
    BY <1>2
  <2>2. PICK k \in 1..top : k \in stops /\ k <= endN /\ \A m \in 1..k - 1 : m \notin stops
    <3> HIDE DEF stops, endN, top
    <3> QED BY <1>2, <2>1, RunEnds
  <2>3. ~Goes(k) /\ \A m \in 1..k - 1 : Goes(m)
    <3>1. \A m \in 1..k - 1 : m \in 1..top
      BY <1>2, <2>2
    <3> HIDE DEF Goes, top
    <3> QED BY <2>2, <3>1
  <2>4. n \in 1..top /\ ~Goes(n) /\ \A m \in 1..n - 1 : Goes(m)
    <3> HIDE DEF Goes, top
    <3> QED BY <2>3
  <2> HIDE DEF n
  <2>5. ~(iter + n <= Len(newValues)) => endN \in 1..n - 1
    BY <1>2, <2>4
  <2>6. ~Goes(endN)
    BY <1>2
  <2> HIDE DEF Goes, endN
  <2> QED BY <2>4, <2>5, <2>6
<1> HIDE DEF n, top
<1>4. n \in Nat /\ n >= 1 /\ iter + n - 1 + 1 = iter + n
  BY <1>2, <1>3
<1> DEFINE p == SubSeq(newValues, iter + 1, iter + n)
           r == SubSeq(values, iter + 1, Len(values))
<1>5. IsPart(p, newValues, iter + 1, iter + n) /\ IsPart(r, values, iter + 1, Len(values))
  <2>1. IsPart(p, newValues, iter + 1, iter + n)
    BY <1>2, <1>3, <1>4, PartOfList
  <2>2. IsPart(r, values, iter + 1, Len(values))
    BY <1>2, PartOfList
  <2> QED BY <2>1, <2>2
<1>6. values' = SubSeq(values, 1, iter) \o p \o r
  BY <1>1, <1>2
<1> HIDE DEF p, r
<1>7. p \in Seq(Items) /\ Len(p) = n /\ r \in Seq(Items) /\ \A i \in 1..n : p[i] = newValues[iter + i]
  <2>1. Len(p) = n
    BY <1>2, <1>4, <1>5 DEF IsPart
  <2>2. \A i \in 1..n : (iter + 1) + i - 1 = iter + i
    BY <1>2
  <2> QED BY <1>5, <2>1, <2>2 DEF IsPart
<1>8. Run(values', values, p, iter, n)
  <2>1. RunOf(values', values, p, r, iter)
    <3>1. RunOf(SubSeq(values, 1, iter) \o p \o r, values, p, r, iter)
      BY <1>2, <1>7, RunIs
    <3> QED BY <1>6, <3>1
  <2> QED BY <1>7, <2>1 DEF RunOf
<1>9. view' = values'
  <2> DEFINE q == SubSeq(values', iter + 1, iter + n)
  <2>1. IsPart(q, values', iter + 1, iter + n)
    BY <1>2, <1>4, <1>8, PartOfList DEF Run
  <2>2. q \in Seq(Items) /\ Len(q) = n /\ \A i \in 1..n : q[i] = values'[iter + i]
    <3>1. Len(q) = n
      BY <1>2, <1>4, <2>1 DEF IsPart
    <3>2. \A i \in 1..n : (iter + 1) + i - 1 = iter + i
      BY <1>2
    <3> QED BY <2>1, <3>1, <3>2 DEF IsPart
  <2> HIDE DEF q
  <2>3. q = p
    BY <1>7, <1>8, <2>2, SeqEqual DEF Run
  <2> QED BY <1>1, <1>2, <1>4, <1>6, <2>3 DEF q, r
<1>10. Arranged(values', newValues, iter + n)
  <2>1. \A i \in 1..n : Model!Same(p[i], newValues[iter + i])
    BY <1>7 DEF Model!Same
  <2> QED BY <1>2, <1>3, <1>4, <1>8, <2>1, RunArranges
<1> QED BY <1>1, <1>2, <1>8, <1>9, <1>10 DEF ModelInv, Run

\* Entries that are the same by their key and differ, and those after them.
LEMMA ReplaceRunKeeps == ASSUME ModelInv, Model!ReplaceRun PROVE ModelInv'
<1> DEFINE Goes(k) == /\ iter + k < Len(values) /\ newIter + k < Len(newValues)
                      /\ values[iter + k + 1] # newValues[newIter + k + 1]
           top == Len(values) + Len(newValues)
           n == CHOOSE k \in 1..top : ~Goes(k) /\ \A m \in 1..k - 1 : Goes(m)
<1>1. /\ busy /\ iter # Len(values) /\ newIter # Len(newValues)
      /\ values' = [i \in DOMAIN values |->
                      IF i \in iter + 1..iter + n THEN newValues[newIter + i - iter] ELSE values[i]]
      /\ view' = [i \in DOMAIN view |-> IF i \in iter + 1..iter + n - 1 + 1 THEN values'[i] ELSE view[i]]
      /\ iter' = iter + n /\ newIter' = newIter + n
      /\ UNCHANGED <<newValues, busy>>
  BY DEF Model!ReplaceRun, Model!AtEnd, Model!NewAtEnd, Model!RunLength, Model!DataChanged
<1>2. /\ values \in Seq(Items) /\ newValues \in Seq(Items) /\ view = values /\ newIter = iter
      /\ iter \in Nat /\ iter < Len(values) /\ iter < Len(newValues)
      /\ top \in Nat /\ Len(values) \in Nat /\ Len(newValues) \in Nat
      /\ Arranged(values, newValues, iter)
  BY <1>1 DEF ModelInv, Arranged
<1>3. n \in 1..top /\ iter + n <= Len(values) /\ iter + n <= Len(newValues)
  <2> DEFINE stops == {k \in 1..top : ~Goes(k)}
             endV == Len(values) - iter
             endN == Len(newValues) - iter
  <2>1. endV \in stops /\ endN \in stops /\ stops \subseteq 1..top
    BY <1>2
  <2>2. PICK k \in 1..top : k \in stops /\ k <= endV /\ \A m \in 1..k - 1 : m \notin stops
    <3> HIDE DEF stops, endV, top
    <3> QED BY <1>2, <2>1, RunEnds
  <2>3. ~Goes(k) /\ \A m \in 1..k - 1 : Goes(m)
    <3>1. \A m \in 1..k - 1 : m \in 1..top
      BY <1>2, <2>2
    <3> HIDE DEF Goes, top
    <3> QED BY <2>2, <3>1
  <2>4. n \in 1..top /\ ~Goes(n) /\ \A m \in 1..n - 1 : Goes(m)
    <3> HIDE DEF Goes, top
    <3> QED BY <2>3
  <2> HIDE DEF n
  <2>5. /\ ~(iter + n <= Len(values)) => endV \in 1..n - 1
        /\ ~(iter + n <= Len(newValues)) => endN \in 1..n - 1
    BY <1>2, <2>4
  <2>6. ~Goes(endV) /\ ~Goes(endN)
    BY <1>2
  <2> HIDE DEF Goes, endV, endN
  <2> QED BY <2>4, <2>5, <2>6
<1> HIDE DEF n, top, Goes
<1>4. n \in Nat /\ n >= 1 /\ iter + n - 1 + 1 = iter + n /\ DOMAIN values = 1..Len(values)
  BY <1>2, <1>3
<1>5. \A i \in iter + 1..iter + n : iter + i - iter = i /\ i \in 1..Len(newValues)
  BY <1>2, <1>3, <1>4
<1>6. \A i \in 1..Len(values) : values'[i] = IF i \in iter + 1..iter + n THEN newValues[i] ELSE values[i]
  BY <1>1, <1>2, <1>4, <1>5
<1>7. values' \in Seq(Items) /\ Len(values') = Len(values)
  <2>1. \A i \in 1..Len(values) : values'[i] \in Items
    BY <1>2, <1>5, <1>6
  <2>2. values' \in [1..Len(values) -> Items]
    BY <1>1, <1>4, <2>1
  <2> QED BY <1>2, <2>2
<1>8. view' = values'
  <2>1. view' = [i \in 1..Len(values) |-> IF i \in iter + 1..iter + n THEN values'[i] ELSE values[i]]
    BY <1>1, <1>2, <1>4
  <2>2. \A i \in 1..Len(values) : (IF i \in iter + 1..iter + n THEN values'[i] ELSE values[i]) = values'[i]
    BY <1>6
  <2>3. values' = [i \in 1..Len(values) |-> values'[i]]
    BY <1>1, <1>4
  <2> QED BY <2>1, <2>2, <2>3
<1>9. Arranged(values', newValues, iter + n)
  <2>1. ASSUME NEW i \in 1..iter + n PROVE Model!Same(values'[i], newValues[i])
    <3>1. i \in 1..Len(values)
      BY <1>2, <1>3, <1>4
    <3>2. CASE i \in iter + 1..iter + n
      BY <1>6, <3>1, <3>2 DEF Model!Same
    <3>3. CASE i \notin iter + 1..iter + n
      <4>1. i \in 1..iter
        BY <1>2, <1>4, <3>3
      <4> QED BY <1>2, <1>6, <3>1, <3>3, <4>1 DEF Arranged
    <3> QED BY <3>2, <3>3
  <2> QED BY <1>2, <1>3, <1>4, <1>7, <2>1 DEF Arranged
<1> QED BY <1>1, <1>2, <1>7, <1>8, <1>9 DEF ModelInv

LEMMA PassKeeps == ASSUME ModelInv, Model!Pass PROVE ModelInv'
<1>1. /\ busy /\ iter # Len(values) /\ newIter # Len(newValues)
      /\ newValues[newIter + 1] = values[iter + 1]
      /\ iter' = iter + 1 /\ newIter' = newIter + 1 /\ UNCHANGED <<values, newValues, busy, view>>
  BY DEF Model!Pass, Model!AtEnd, Model!NewAtEnd, Model!New, Model!Old
<1>2. Arranged(values, newValues, iter + 1)
  <2>1. newIter = iter /\ Arranged(values, newValues, iter) /\ Len(values) \in Nat /\ Len(newValues) \in Nat
    BY DEF ModelInv
  <2>2. ASSUME NEW i \in 1..iter + 1 PROVE Model!Same(values[i], newValues[i])
    <3>1. CASE i = iter + 1
      BY <1>1, <2>1, <3>1 DEF Model!Same
    <3>2. CASE i # iter + 1
      <4>1. i \in 1..iter
        BY <2>1, <3>2 DEF Arranged
      <4> QED BY <2>1, <4>1 DEF Arranged
    <3> QED BY <3>1, <3>2
  <2> QED BY <1>1, <2>1, <2>2 DEF Arranged
<1> QED BY <1>1, <1>2 DEF ModelInv

LEMMA NextModelInv == ASSUME ModelInv, [Model!Next]_(Model!modelVars) PROVE ModelInv'
<1>1. ASSUME NEW new \in Lists, Model!SetValues(new) PROVE ModelInv'
  BY <1>1, SetValuesKeeps
<1>2. CASE UNCHANGED Model!modelVars
  BY <1>2 DEF Model!modelVars, ModelInv, Arranged
<1> QED BY <1>1, <1>2, FinishKeeps, ChopKeeps, AppendRestKeeps, RemoveRunKeeps, MoveRunKeeps, InsertRunKeeps,
           ReplaceRunKeeps, PassKeeps DEF Model!Next

LEMMA ModelInvHolds == ModelInv => Model!TypeOK /\ Model!ViewFollows
<1> SUFFICES ASSUME ModelInv PROVE Model!TypeOK /\ Model!ViewFollows
  OBVIOUS
<1>1. Len(values) \in Nat /\ Len(newValues) \in Nat /\ DOMAIN values = 1..Len(values)
  BY DEF ModelInv
<1> QED BY <1>1 DEF ModelInv, Arranged, Model!TypeOK, Model!ViewFollows

LEMMA ModelInvariance == Model!Spec => []ModelInv
<1>1. ModelInv /\ [Model!Next]_(Model!modelVars) => ModelInv'
  BY NextModelInv
<1> QED BY <1>1, InitModelInv, PTL DEF Model!Spec

-----------------------------------------------------------------------------
(* The child process                                                         *)

LEMMA ProcessSteps == Spec => Process!Spec
<1>1. Init => Process!Init
  BY DEF Init
<1>2. [Next]_vars => [Process!Next]_(Process!processVars)
  BY DEF Next, Streams, Others, vars, streamVars, processVars, Process!processVars
<1> QED BY <1>1, <1>2, PTL DEF Spec, Process!Spec

Chunks  == Seq(Nat \X {"line", "part"})
Outputs == [open : BOOLEAN, pipe : Chunks, ready : BOOLEAN, buffer : Chunks,
            wrote : Chunks, heard : Chunks, kept : BOOLEAN]

ProcessType ==
  /\ isPostReload \in BOOLEAN /\ targetRunning \in BOOLEAN /\ announced \in BOOLEAN /\ failed \in BOOLEAN
  /\ process \in [st : {"none", "starting", "running"}, terminated : BOOLEAN]
  /\ process.st = "none" => process = Process!NoProcess
  /\ step \in {"none", "changed", "exited", "runningChanged"}
  /\ parser \in {"none", "split", "collect"}
  /\ output \in Outputs

\* A wish to run is being served, cannot be yet, or will be when the end was told.
WishServed == ~failed /\ step \notin {"exited", "runningChanged"} /\ targetRunning /\ isPostReload /\ command # NoCommand
              => Process!Running
\* `running' is what was told.
ToldRuns   == announced /\ step # "exited" => Process!Running
RunIsTold  == process.st = "running" => announced
\* Nothing that was started while the end of the former process is told has been reported yet.
EndIsTold  == step \in {"exited", "runningChanged"} => process.st # "running"

\* What this parser got or waits, in this order, is all that was written.
InOrder(p, out) ==
  /\ p = "split"   => out.wrote = (out.heard \o out.buffer) \o out.pipe
  /\ p = "collect" => out.heard = <<>> /\ out.wrote = out.buffer \o out.pipe
NothingIsLost ==
  /\ output.kept => parser # "none"
  /\ output.kept /\ Process!Running => /\ output.open /\ InOrder(parser, output)
                                       /\ ~output.ready => output.pipe = <<>>
  /\ output.kept /\ step = "exited" => output.heard = output.wrote
  /\ ~output.open => output.pipe = <<>> /\ ~output.ready

ProcessInv == ProcessType /\ WishServed /\ ToldRuns /\ RunIsTold /\ EndIsTold /\ NothingIsLost

-----------------------------------------------------------------------------
\* A splitter gives on a part of what it has, and keeps the rest.
LEMMA WholeIsPart == ASSUME NEW s \in Chunks PROVE Process!Whole(s) \in 0..Len(s)
<1> DEFINE Ends(n) == /\ n = 0 \/ s[n][2] = "line"
                      /\ \A i \in n+1..Len(s) : s[i][2] = "part"
           Rests == {k \in 0..Len(s) : \A i \in k+1..Len(s) : s[i][2] = "part"}
<1>1. Len(s) \in Nat /\ \A i \in 1..Len(s) : s[i][2] \in {"line", "part"}
  BY DEF Chunks
<1>2. Rests \in SUBSET Nat /\ Len(s) \in Rests
  BY <1>1
<1>3. PICK n \in Rests : \A k \in Rests : n <= k
  <2> HIDE DEF Rests
  <2> QED BY <1>2, Smallest
<1>4. n \in 0..Len(s)
  BY <1>3
<1>5. n # 0 => s[n][2] = "line"
  <2> SUFFICES ASSUME n # 0, s[n][2] # "line" PROVE FALSE
    OBVIOUS
  <2>1. n \in 1..Len(s) /\ n - 1 \in 0..Len(s)
    BY <1>1, <1>4
  <2>2. s[n][2] = "part"
    BY <1>1, <2>1
  <2>3. n - 1 \in Rests
    BY <1>3, <2>1, <2>2
  <2> HIDE DEF Rests
  <2>4. n <= n - 1
    BY <1>3, <2>3
  <2> QED BY <1>1, <1>4, <2>4
<1>6. Ends(n)
  BY <1>3, <1>5
<1> QED BY <1>4, <1>6 DEF Process!Whole

LEMMA SplitsWhole ==
  ASSUME NEW s \in Chunks
  PROVE  /\ SubSeq(s, 1, Process!Whole(s)) \in Chunks /\ SubSeq(s, Process!Whole(s) + 1, Len(s)) \in Chunks
         /\ SubSeq(s, 1, Process!Whole(s)) \o SubSeq(s, Process!Whole(s) + 1, Len(s)) = s
<1> DEFINE n == Process!Whole(s)
           C == Nat \X {"line", "part"}
<1>1. n \in 0..Len(s) /\ Len(s) \in Nat /\ s \in Seq(C) /\ \A i \in 1..Len(s) : s[i] \in C
  BY WholeIsPart DEF Chunks
<1> HIDE DEF n, C
<1>2. SubSeq(s, 1, n) \in Seq(C) /\ SubSeq(s, n + 1, Len(s)) \in Seq(C)
  BY <1>1, SubSeqProperties
<1>3. SubSeq(s, 1, n) \o SubSeq(s, n + 1, Len(s)) = SubSeq(s, 1, Len(s))
  <2>1. 1 \in 1..Len(s)+1 /\ n \in 1-1..Len(s) /\ Len(s) \in n..Len(s)
    BY <1>1
  <2> QED BY <1>1, <2>1, ConcatAdjacentSubSeq
<1>4. SubSeq(s, 1, Len(s)) = s
  BY <1>1, SubSeqFull
<1> QED BY <1>2, <1>3, <1>4 DEF n, C, Chunks

LEMMA Joined ==
  ASSUME NEW s \in Chunks, NEW t \in Chunks
  PROVE  s \o t \in Chunks /\ s \o <<>> = s /\ <<>> \o s = s
BY ConcatProperties, ConcatEmptySeq DEF Chunks

LEMMA JoinedTwice ==
  ASSUME NEW s \in Chunks, NEW t \in Chunks, NEW u \in Chunks
  PROVE  (s \o t) \o u = s \o (t \o u)
BY ConcatAssociative DEF Chunks

LEMMA AddsChunk ==
  ASSUME NEW s \in Chunks, NEW c \in Nat \X {"line", "part"}
  PROVE  Append(s, c) \in Chunks /\ Append(s, c) = s \o <<c>> /\ <<c>> \in Chunks
BY AppendProperties, AppendIsConcat DEF Chunks

LEMMA AddsLast ==
  ASSUME NEW s \in Chunks, NEW t \in Chunks, NEW c \in Nat \X {"line", "part"}
  PROVE  Append(t \o s, c) = t \o Append(s, c)
<1>1. t \o s \in Chunks
  BY Joined
<1>2. Append(s, c) = s \o <<c>> /\ Append(t \o s, c) = (t \o s) \o <<c>> /\ <<c>> \in Chunks
  BY <1>1, AddsChunk
<1> QED BY <1>2, JoinedTwice

LEMMA EmptyChunks == <<>> \in Chunks /\ Process!NoOutput(FALSE, FALSE) \in Outputs /\ Process!NoOutput(TRUE, TRUE) \in Outputs
BY DEF Chunks, Outputs, Process!NoOutput

\* What parseBytes() leaves of a stream.
Parsed(p, out, chunks, new) ==
  /\ new \in Outputs
  /\ new.open = out.open /\ new.pipe = out.pipe /\ new.ready = out.ready
  /\ new.wrote = out.wrote /\ new.kept = out.kept
  /\ p = "collect" => new.heard = out.heard /\ new.buffer = chunks
  /\ out.kept /\ p = "split" => new.heard \o new.buffer = out.heard \o chunks

LEMMA ParseKeeps ==
  ASSUME NEW p \in {"split", "collect"}, NEW out \in Outputs, NEW chunks \in Chunks
  PROVE  Parsed(p, out, chunks, Process!ParseBytes(p, out, chunks))
<1> DEFINE new == Process!ParseBytes(p, out, chunks)
           first == SubSeq(chunks, 1, Process!Whole(chunks))
           rest  == SubSeq(chunks, Process!Whole(chunks) + 1, Len(chunks))
<1>1. first \in Chunks /\ rest \in Chunks /\ first \o rest = chunks
  BY SplitsWhole
<1>2. CASE p = "collect"
  <2>1. new = [out EXCEPT !.buffer = chunks]
    BY <1>2 DEF Process!ParseBytes
  <2> HIDE DEF new
  <2>2. /\ new \in Outputs
        /\ new.open = out.open /\ new.pipe = out.pipe /\ new.ready = out.ready
        /\ new.wrote = out.wrote /\ new.kept = out.kept
        /\ new.heard = out.heard /\ new.buffer = chunks
    BY <2>1 DEF Outputs
  <2> QED BY <1>2, <2>2 DEF new, Parsed
<1>3. CASE p = "split"
  <2>1. new = [out EXCEPT !.heard = IF out.kept THEN out.heard \o first ELSE out.heard, !.buffer = rest]
    BY <1>3 DEF Process!ParseBytes
  <2>2. out.heard \in Chunks
    BY DEF Outputs
  <2> HIDE DEF new, first, rest
  <2>3. out.heard \o first \in Chunks /\ (out.heard \o first) \o rest = out.heard \o chunks
    <3>1. out.heard \o first \in Chunks
      BY <1>1, <2>2, Joined
    <3>2. (out.heard \o first) \o rest = out.heard \o (first \o rest)
      BY <1>1, <2>2, JoinedTwice
    <3> QED BY <1>1, <3>1, <3>2
  <2>4. /\ new \in Outputs
        /\ new.open = out.open /\ new.pipe = out.pipe /\ new.ready = out.ready
        /\ new.wrote = out.wrote /\ new.kept = out.kept
        /\ out.kept => new.heard = out.heard \o first
        /\ new.buffer = rest
    BY <1>1, <2>1, <2>2, <2>3 DEF Outputs
  <2> QED BY <1>3, <2>3, <2>4 DEF new, Parsed
<1> QED BY <1>2, <1>3

-----------------------------------------------------------------------------
LEMMA InitProcessInv == Process!Init => ProcessInv
<1> SUFFICES ASSUME Process!Init PROVE ProcessInv
  OBVIOUS
<1>1. /\ isPostReload = FALSE /\ targetRunning = FALSE /\ process = Process!NoProcess /\ step = "none"
      /\ announced = FALSE /\ failed = FALSE /\ parser = "none" /\ output = Process!NoOutput(FALSE, FALSE)
  BY DEF Process!Init
<1>2. ~Process!Running /\ process.st = "none" /\ process \in [st : {"none", "starting", "running"}, terminated : BOOLEAN]
  BY <1>1 DEF Process!Running, Process!NoProcess
<1>3. ~output.open /\ ~output.kept /\ ~output.ready /\ output.pipe = <<>> /\ output \in Outputs
  BY <1>1, EmptyChunks DEF Process!NoOutput
<1> QED BY <1>1, <1>2, <1>3 DEF ProcessInv, ProcessType, WishServed, ToldRuns, RunIsTold, EndIsTold, NothingIsLost

\* What the shell does to members, outside of the streams.
LEMMA StartKeeps ==
  ASSUME ProcessInv, NEW post \in BOOLEAN, NEW cmd, NEW wanted \in BOOLEAN, NEW proc,
         proc = process \/ proc = Process!Terminated(process),
         Process!StartProcessIfReady(post, cmd, wanted, proc),
         isPostReload' = post, command' = cmd, UNCHANGED <<parser, announced, failed>>,
         step' = step \/ (step = "runningChanged" /\ step' = "none")
  PROVE  ProcessInv'
<1>1. /\ proc \in [st : {"none", "starting", "running"}, terminated : BOOLEAN] /\ proc.st = process.st
      /\ proc = Process!NoProcess <=> process = Process!NoProcess
      /\ proc.st = "none" => proc = Process!NoProcess
  <2>1. /\ process \in [st : {"none", "starting", "running"}, terminated : BOOLEAN]
        /\ process.st = "none" <=> process = Process!NoProcess
    BY DEF ProcessInv, ProcessType, Process!NoProcess
  <2>2. CASE proc = process
    BY <2>1, <2>2
  <2>3. CASE proc = Process!Terminated(process)
    <3>1. CASE process = Process!NoProcess
      BY <2>1, <2>3, <3>1 DEF Process!Terminated
    <3>2. CASE process # Process!NoProcess
      <4>1. proc = [process EXCEPT !.terminated = TRUE]
        BY <2>3, <3>2 DEF Process!Terminated
      <4>2. proc \in [st : {"none", "starting", "running"}, terminated : BOOLEAN] /\ proc.st = process.st
        BY <2>1, <4>1
      <4>3. proc # Process!NoProcess
        BY <2>1, <3>2, <4>2 DEF Process!NoProcess
      <4> QED BY <2>1, <3>2, <4>2, <4>3
    <3> QED BY <3>1, <3>2
  <2> QED BY <2>2, <2>3
<1>2. CASE /\ proc = Process!NoProcess /\ post /\ wanted /\ cmd # NoCommand
           /\ process' = [st |-> "starting", terminated |-> FALSE] /\ targetRunning' = FALSE
           /\ output' = Process!NoOutput(parser # "none", parser # "none")
  <2> DEFINE has == parser # "none"
  <2>1. has \in BOOLEAN /\ output' = Process!NoOutput(has, has)
    BY <1>2
  <2>2. /\ output'.open = has /\ output'.kept = has /\ ~output'.ready
        /\ output'.pipe = <<>> /\ output'.buffer = <<>> /\ output'.wrote = <<>> /\ output'.heard = <<>>
        /\ output' \in Outputs
    BY <2>1, EmptyChunks DEF Process!NoOutput
  <2>3. <<>> \o <<>> = <<>>
    BY EmptyChunks, Joined
  <2>4. InOrder(parser, output')
    BY <2>2, <2>3 DEF InOrder
  <2>5. ProcessType'
    BY <1>2, <2>2 DEF ProcessInv, ProcessType, Process!NoProcess
  <2>6. Process!Running' /\ process'.st = "starting"
    BY <1>2 DEF Process!Running, Process!NoProcess
  <2>7. NothingIsLost'
    BY <2>2, <2>4 DEF NothingIsLost, InOrder
  <2> QED BY <2>5, <2>6, <2>7 DEF ProcessInv, WishServed, ToldRuns, RunIsTold, EndIsTold
<1>3. CASE /\ ~(proc = Process!NoProcess /\ post /\ wanted /\ cmd # NoCommand)
           /\ process' = proc /\ targetRunning' = wanted /\ UNCHANGED output
  <2>1. ProcessType'
    BY <1>1, <1>3 DEF ProcessInv, ProcessType
  <2>2. Process!Running' <=> Process!Running
    BY <1>1, <1>3 DEF Process!Running
  <2>3. NothingIsLost'
    BY <1>3, <2>2 DEF ProcessInv, NothingIsLost, InOrder
  <2>4. WishServed'
    BY <1>3 DEF WishServed, Process!Running
  <2>5. ToldRuns' /\ RunIsTold' /\ EndIsTold'
    BY <1>1, <1>3, <2>2 DEF ProcessInv, ToldRuns, RunIsTold, EndIsTold
  <2> QED BY <2>1, <2>3, <2>4, <2>5 DEF ProcessInv
<1> QED BY <1>2, <1>3 DEF Process!StartProcessIfReady

LEMMA ShellKeeps ==
  ASSUME ProcessInv,
         \/ Process!OnPostReload \/ Process!Restart
         \/ \E running \in BOOLEAN : Process!SetRunning(running)
         \/ \E cmd \in Commands \cup {NoCommand} : Process!SetCommand(cmd) \/ Process!Exec(cmd)
  PROVE  ProcessInv'
<1>1. isPostReload \in BOOLEAN /\ targetRunning \in BOOLEAN
  BY DEF ProcessInv, ProcessType
<1>2. CASE Process!OnPostReload
  <2>1. /\ Process!StartProcessIfReady(TRUE, command, targetRunning, process)
        /\ isPostReload' = TRUE /\ UNCHANGED <<command, parser, step, announced, failed>>
    BY <1>2 DEF Process!OnPostReload
  <2> QED BY <1>1, <2>1, StartKeeps
<1>3. CASE Process!Restart
  <2>1. /\ Process!StartProcessIfReady(isPostReload, command, targetRunning, process)
        /\ step = "runningChanged" /\ step' = "none"
        /\ UNCHANGED <<isPostReload, command, parser, announced, failed>>
    BY <1>3 DEF Process!Restart
  <2> QED BY <1>1, <2>1, StartKeeps
<1>4. ASSUME NEW running \in BOOLEAN, Process!SetRunning(running) PROVE ProcessInv'
  <2>1. UNCHANGED <<isPostReload, command, parser, step, announced, failed>>
    BY <1>4 DEF Process!SetRunning
  <2>2. CASE running
    <3>1. Process!StartProcessIfReady(isPostReload, command, TRUE, process)
      BY <1>4, <2>2 DEF Process!SetRunning
    <3> QED BY <1>1, <2>1, <3>1, StartKeeps
  <2>3. CASE ~running
    <3>1. Process!StartProcessIfReady(isPostReload, command, FALSE, Process!Terminated(process))
      BY <1>4, <2>3 DEF Process!SetRunning, Process!StartProcessIfReady
    <3> QED BY <1>1, <2>1, <3>1, StartKeeps
  <2> QED BY <2>2, <2>3
<1>5. ASSUME NEW cmd, Process!SetCommand(cmd) \/ Process!Exec(cmd) PROVE ProcessInv'
  <2>1. command' = cmd /\ UNCHANGED <<isPostReload, parser, step, announced, failed>>
    BY <1>5 DEF Process!SetCommand, Process!Exec
  <2>2. CASE Process!SetCommand(cmd)
    <3>1. Process!StartProcessIfReady(isPostReload, cmd, targetRunning, process)
      BY <2>2 DEF Process!SetCommand
    <3> QED BY <1>1, <2>1, <3>1, StartKeeps
  <2>3. CASE Process!Exec(cmd)
    <3>1. Process!StartProcessIfReady(isPostReload, cmd, cmd # NoCommand, Process!Terminated(process)) /\ (cmd # NoCommand) \in BOOLEAN
      BY <2>3 DEF Process!Exec
    <3> QED BY <1>1, <2>1, <3>1, StartKeeps
  <2> QED BY <1>5, <2>2, <2>3
<1> QED BY <1>2, <1>3, <1>4, <1>5

LEMMA ReportsKeep ==
  ASSUME ProcessInv, Process!OnStarted \/ Process!OnErrorOccurred \/ Process!RunningChanged \/ Process!Changed
  PROVE  ProcessInv'
<1>1. CASE Process!OnStarted
  <2>1. /\ step = "none" /\ process.st = "starting" /\ process' = [process EXCEPT !.st = "running"]
        /\ step' = "changed" /\ announced' = TRUE
        /\ UNCHANGED <<isPostReload, command, targetRunning, parser, output, failed>>
    BY <1>1 DEF Process!OnStarted
  <2>2. /\ process' \in [st : {"none", "starting", "running"}, terminated : BOOLEAN] /\ process'.st = "running"
        /\ Process!Running /\ Process!Running'
    BY <2>1 DEF ProcessInv, ProcessType, Process!Running, Process!NoProcess
  <2> QED BY <2>1, <2>2 DEF ProcessInv, ProcessType, WishServed, ToldRuns, RunIsTold, EndIsTold, NothingIsLost, InOrder
<1>2. CASE Process!OnErrorOccurred
  <2>1. /\ process' = Process!NoProcess /\ step' = "changed" /\ announced' = FALSE /\ failed' = (failed \/ targetRunning)
        /\ UNCHANGED <<isPostReload, command, targetRunning, parser, output>>
    BY <1>2 DEF Process!OnErrorOccurred
  <2>2. ~Process!Running' /\ process'.st = "none" /\ process' \in [st : {"none", "starting", "running"}, terminated : BOOLEAN]
    BY <2>1 DEF Process!Running, Process!NoProcess
  <2> QED BY <2>1, <2>2 DEF ProcessInv, ProcessType, WishServed, ToldRuns, RunIsTold, EndIsTold, NothingIsLost, InOrder
<1>3. CASE Process!RunningChanged
  <2>1. /\ step = "exited" /\ step' = "runningChanged" /\ announced' = Process!Running
        /\ UNCHANGED <<isPostReload, command, targetRunning, process, parser, output, failed>>
    BY <1>3 DEF Process!RunningChanged
  <2>2. (Process!Running' <=> Process!Running) /\ Process!Running \in BOOLEAN
    BY <2>1 DEF Process!Running
  <2> QED BY <2>1, <2>2 DEF ProcessInv, ProcessType, WishServed, ToldRuns, RunIsTold, EndIsTold, NothingIsLost, InOrder
<1>4. CASE Process!Changed
  <2>1. /\ step = "changed" /\ step' = "none"
        /\ UNCHANGED <<isPostReload, command, targetRunning, process, parser, output, announced, failed>>
    BY <1>4 DEF Process!Changed
  <2>2. Process!Running' <=> Process!Running
    BY <2>1 DEF Process!Running
  <2> QED BY <2>1, <2>2 DEF ProcessInv, ProcessType, WishServed, ToldRuns, RunIsTold, EndIsTold, NothingIsLost, InOrder
<1> QED BY <1>1, <1>2, <1>3, <1>4

-----------------------------------------------------------------------------
\* onFinished(): QProcess has read all that was written, and the parser has the rest of it now.
LEMMA OnFinishedKeeps == ASSUME ProcessInv, Process!OnFinished PROVE ProcessInv'
<1>1. /\ step = "none" /\ process.st = "running" /\ ~output.ready
      /\ process' = Process!NoProcess /\ output' = Process!StreamEnded(parser, output) /\ step' = "exited"
      /\ UNCHANGED <<isPostReload, command, targetRunning, parser, announced, failed>>
  BY DEF Process!OnFinished
<1>2. output \in Outputs /\ output.heard \in Chunks /\ output.buffer \in Chunks /\ Process!Running
  BY <1>1 DEF ProcessInv, ProcessType, Outputs, Process!Running, Process!NoProcess
<1>3. /\ output.heard \o output.buffer \in Chunks /\ <<>> \in Chunks
      /\ (output.heard \o output.buffer) \o <<>> = output.heard \o output.buffer
      /\ output.buffer \o <<>> = output.buffer
  BY <1>2, Joined, EmptyChunks
<1>4. LET given == IF ~output.kept THEN output.heard
                  ELSE IF parser = "split" THEN output.heard \o output.buffer ELSE output.buffer
      IN output' = [output EXCEPT !.heard = given, !.buffer = <<>>]
  BY <1>1 DEF Process!StreamEnded
<1>5. /\ output' \in Outputs /\ output'.open = output.open /\ output'.pipe = output.pipe
      /\ output'.ready = output.ready /\ output'.kept = output.kept /\ output'.wrote = output.wrote
      /\ output'.heard = IF ~output.kept THEN output.heard
                         ELSE IF parser = "split" THEN output.heard \o output.buffer ELSE output.buffer
  BY <1>2, <1>3, <1>4 DEF Outputs
<1>6. process' \in [st : {"none", "starting", "running"}, terminated : BOOLEAN] /\ process'.st = "none" /\ ~Process!Running'
  BY <1>1 DEF Process!NoProcess, Process!Running
<1>7. ProcessType'
  BY <1>1, <1>5, <1>6 DEF ProcessInv, ProcessType
<1>8. WishServed' /\ ToldRuns' /\ RunIsTold' /\ EndIsTold'
  BY <1>1, <1>6 DEF WishServed, ToldRuns, RunIsTold, EndIsTold
<1>9. output.kept => /\ output.pipe = <<>> /\ parser \in {"split", "collect"} /\ InOrder(parser, output)
  BY <1>1, <1>2 DEF ProcessInv, ProcessType, NothingIsLost
<1>10. output'.kept => output'.heard = output'.wrote
  BY <1>3, <1>5, <1>9 DEF InOrder
<1>11. NothingIsLost'
  BY <1>1, <1>5, <1>6, <1>10 DEF ProcessInv, NothingIsLost
<1> QED BY <1>7, <1>8, <1>11 DEF ProcessInv

\* What happens to the stream only.
LEMMA StreamKeeps ==
  ASSUME ProcessInv, UNCHANGED Process!streamKeeps, parser' \in {"none", "split", "collect"},
         output' \in Outputs, NothingIsLost'
  PROVE  ProcessInv'
<1>1. UNCHANGED <<isPostReload, command, targetRunning, process, step, announced, failed>>
  BY DEF Process!streamKeeps
<1>2. Process!Running' <=> Process!Running
  BY <1>1 DEF Process!Running
<1>3. WishServed' /\ ToldRuns' /\ RunIsTold' /\ EndIsTold'
  BY <1>1, <1>2 DEF ProcessInv, WishServed, ToldRuns, RunIsTold, EndIsTold
<1>4. ProcessType'
  BY <1>1 DEF ProcessInv, ProcessType
<1> QED BY <1>3, <1>4 DEF ProcessInv

LEMMA SetStdoutParserKeeps ==
  ASSUME ProcessInv, NEW p \in {"none", "split", "collect"}, Process!SetStdoutParser(p) PROVE ProcessInv'
<1> DEFINE discards == parser # "none" /\ process # Process!NoProcess
           left == IF discards THEN [output EXCEPT !.open = FALSE, !.pipe = <<>>, !.ready = FALSE, !.buffer = <<>>]
                               ELSE output
           over == [left EXCEPT !.heard = <<>>, !.kept = FALSE]
           again == IF p = "collect" THEN left.buffer \o left.buffer ELSE left.buffer
<1>1. /\ parser' = p /\ UNCHANGED Process!streamKeeps
      /\ output' = IF p = "none" \/ left.buffer = <<>> THEN over ELSE Process!ParseBytes(p, over, again)
  BY DEF Process!SetStdoutParser
<1>2. output \in Outputs /\ (~output.open => output.pipe = <<>> /\ ~output.ready) /\ <<>> \in Chunks
  BY EmptyChunks DEF ProcessInv, ProcessType, NothingIsLost
<1>3. left \in Outputs /\ (~left.open => left.pipe = <<>> /\ ~left.ready) /\ left.buffer \in Chunks
  BY <1>2 DEF Outputs
<1> HIDE DEF left
<1>4. /\ over \in Outputs /\ over.open = left.open /\ over.pipe = left.pipe /\ over.ready = left.ready
      /\ ~over.kept
  BY <1>2, <1>3 DEF Outputs
<1>5. again \in Chunks
  BY <1>3, Joined
<1> HIDE DEF over, again
<1>6. /\ output' \in Outputs /\ output'.open = left.open /\ output'.pipe = left.pipe /\ output'.ready = left.ready
      /\ ~output'.kept
  <2>1. CASE p = "none" \/ left.buffer = <<>>
    BY <1>1, <1>4, <2>1
  <2>2. CASE ~(p = "none" \/ left.buffer = <<>>)
    <3>1. output' = Process!ParseBytes(p, over, again) /\ p \in {"split", "collect"}
      BY <1>1, <2>2
    <3>2. Parsed(p, over, again, output')
      BY <1>4, <1>5, <3>1, ParseKeeps
    <3> QED BY <1>4, <3>2 DEF Parsed
  <2> QED BY <2>1, <2>2
<1>7. NothingIsLost'
  BY <1>3, <1>6 DEF NothingIsLost
<1> QED BY <1>1, <1>6, <1>7, StreamKeeps

LEMMA OnStdoutParserDestroyedKeeps == ASSUME ProcessInv, Process!OnStdoutParserDestroyed PROVE ProcessInv'
<1>1. /\ parser' = "none" /\ UNCHANGED Process!streamKeeps
      /\ output' = [output EXCEPT !.heard = <<>>, !.kept = FALSE]
  BY DEF Process!OnStdoutParserDestroyed
<1>2. output \in Outputs /\ (~output.open => output.pipe = <<>> /\ ~output.ready) /\ <<>> \in Chunks
  BY EmptyChunks DEF ProcessInv, ProcessType, NothingIsLost
<1>3. /\ output' \in Outputs /\ output'.open = output.open /\ output'.pipe = output.pipe /\ output'.ready = output.ready
      /\ ~output'.kept
  BY <1>1, <1>2 DEF Outputs
<1>4. NothingIsLost'
  BY <1>2, <1>3 DEF NothingIsLost
<1> QED BY <1>1, <1>3, <1>4, StreamKeeps

LEMMA ChildWritesKeeps ==
  ASSUME ProcessInv, NEW kind \in {"line", "part"}, Process!ChildWrites(kind) PROVE ProcessInv'
<1> DEFINE chunk == <<Len(output.wrote) + 1, kind>>
<1>1. /\ process.st = "running" /\ parser' = parser /\ UNCHANGED Process!streamKeeps
      /\ output' = [output EXCEPT !.wrote = Append(output.wrote, chunk),
                                  !.pipe = IF output.open THEN Append(output.pipe, chunk) ELSE output.pipe,
                                  !.ready = output.open]
  BY DEF Process!ChildWrites
<1>2. /\ output \in Outputs /\ output.wrote \in Chunks /\ output.pipe \in Chunks /\ output.heard \in Chunks
      /\ output.buffer \in Chunks /\ output.open \in BOOLEAN /\ parser \in {"none", "split", "collect"}
  BY DEF ProcessInv, ProcessType, Outputs
<1>3. chunk \in Nat \X {"line", "part"}
  BY <1>2 DEF Chunks
<1> HIDE DEF chunk
<1>4. Append(output.wrote, chunk) \in Chunks /\ Append(output.pipe, chunk) \in Chunks
  BY <1>2, <1>3, AddsChunk
<1>5. /\ output' \in Outputs /\ output'.open = output.open /\ output'.kept = output.kept
      /\ output'.heard = output.heard /\ output'.buffer = output.buffer /\ output'.ready = output.open
      /\ output'.wrote = Append(output.wrote, chunk)
      /\ output'.pipe = IF output.open THEN Append(output.pipe, chunk) ELSE output.pipe
  BY <1>1, <1>2, <1>4 DEF Outputs
<1>6. /\ process' = process /\ step' = step
      /\ step # "exited" /\ Process!Running /\ Process!Running'
  BY <1>1 DEF Process!streamKeeps, ProcessInv, EndIsTold, Process!Running, Process!NoProcess
<1>7. output.kept => InOrder(parser, output')
  <2> SUFFICES ASSUME output.kept PROVE InOrder(parser, output')
    OBVIOUS
  <2>1. output.open /\ InOrder(parser, output)
    BY <1>6 DEF ProcessInv, NothingIsLost
  <2>2. output.heard \o output.buffer \in Chunks
    BY <1>2, Joined
  <2>3. Append((output.heard \o output.buffer) \o output.pipe, chunk) = (output.heard \o output.buffer) \o Append(output.pipe, chunk)
    BY <1>2, <1>3, <2>2, AddsLast
  <2>4. Append(output.buffer \o output.pipe, chunk) = output.buffer \o Append(output.pipe, chunk)
    BY <1>2, <1>3, AddsLast
  <2> QED BY <1>5, <2>1, <2>3, <2>4 DEF InOrder
<1>8. NothingIsLost'
  BY <1>1, <1>5, <1>6, <1>7 DEF ProcessInv, NothingIsLost, InOrder
<1> QED BY <1>1, <1>2, <1>5, <1>8, StreamKeeps

LEMMA OnStdoutReadyReadKeeps == ASSUME ProcessInv, Process!OnStdoutReadyRead PROVE ProcessInv'
<1> DEFINE unread == [output EXCEPT !.ready = FALSE, !.pipe = <<>>]
           all   == output.buffer \o output.pipe
<1>1. /\ step = "none" /\ output.ready /\ parser' = parser /\ UNCHANGED Process!streamKeeps
      /\ output' = IF parser = "none" THEN [output EXCEPT !.ready = FALSE] ELSE Process!ParseBytes(parser, unread, all)
  BY DEF Process!OnStdoutReadyRead
<1>2. /\ output \in Outputs /\ output.pipe \in Chunks /\ output.heard \in Chunks /\ output.buffer \in Chunks
      /\ parser \in {"none", "split", "collect"} /\ output.open
  BY <1>1 DEF ProcessInv, ProcessType, Outputs, NothingIsLost
<1>3. (Process!Running' <=> Process!Running) /\ step' = step
  BY <1>1 DEF Process!streamKeeps, Process!Running
<1>4. CASE parser = "none"
  <2>1. ~output.kept
    BY <1>4 DEF ProcessInv, NothingIsLost
  <2>2. output' \in Outputs /\ ~output'.kept /\ output'.open
    BY <1>1, <1>2, <1>4, <2>1 DEF Outputs
  <2>3. NothingIsLost'
    BY <2>2 DEF NothingIsLost
  <2> QED BY <1>1, <1>2, <2>2, <2>3, StreamKeeps
<1>5. CASE parser # "none"
  <2>1. /\ unread \in Outputs /\ unread.heard = output.heard /\ unread.kept = output.kept /\ unread.wrote = output.wrote
        /\ unread.open /\ ~unread.ready /\ unread.pipe = <<>>
    BY <1>2, EmptyChunks DEF Outputs
  <2>2. all \in Chunks /\ <<>> \in Chunks
    BY <1>2, Joined, EmptyChunks
  <2>3. (output.heard \o output.buffer) \o output.pipe = output.heard \o all
    BY <1>2, JoinedTwice
  <2> HIDE DEF unread, all
  <2>4. parser \in {"split", "collect"} /\ output' = Process!ParseBytes(parser, unread, all)
    BY <1>1, <1>2, <1>5
  <2>5. /\ output' \in Outputs /\ output'.open /\ output'.pipe = <<>> /\ ~output'.ready
        /\ output'.wrote = output.wrote /\ output'.kept = output.kept
        /\ parser = "collect" => output'.heard = output.heard /\ output'.buffer = all
        /\ output.kept /\ parser = "split" => output'.heard \o output'.buffer = output.heard \o all
    <3>1. Parsed(parser, unread, all, output')
      BY <2>1, <2>2, <2>4, ParseKeeps
    <3> QED BY <2>1, <3>1 DEF Parsed
  <2>6. output'.heard \in Chunks /\ output'.buffer \in Chunks
    BY <2>5 DEF Outputs
  <2>7. /\ (output'.heard \o output'.buffer) \o output'.pipe = output'.heard \o output'.buffer
        /\ output'.buffer \o output'.pipe = output'.buffer
    BY <2>2, <2>5, <2>6, Joined
  <2>8. output.kept /\ Process!Running => InOrder(parser, output')
    BY <2>3, <2>5, <2>7 DEF ProcessInv, NothingIsLost, InOrder, all
  <2>9. NothingIsLost'
    BY <1>1, <1>3, <1>5, <2>5, <2>8 DEF ProcessInv, NothingIsLost, InOrder
  <2> QED BY <1>1, <1>2, <2>5, <2>9, StreamKeeps
<1> QED BY <1>4, <1>5

-----------------------------------------------------------------------------
LEMMA NextProcessInv == ASSUME ProcessInv, [Process!Next]_(Process!processVars) PROVE ProcessInv'
<1>1. CASE UNCHANGED Process!processVars
  <2>1. UNCHANGED Process!streamKeeps /\ UNCHANGED <<parser, output, process, step>>
    BY <1>1 DEF Process!processVars, Process!streamKeeps
  <2>2. NothingIsLost'
    BY <2>1 DEF ProcessInv, NothingIsLost, InOrder, Process!Running
  <2> QED BY <2>1, <2>2, StreamKeeps DEF ProcessInv, ProcessType
<1>2. CASE \/ Process!OnPostReload \/ Process!Restart
           \/ \E running \in BOOLEAN : Process!SetRunning(running)
           \/ \E cmd \in Commands \cup {NoCommand} : Process!SetCommand(cmd) \/ Process!Exec(cmd)
  BY <1>2, ShellKeeps
<1>3. CASE Process!OnStarted \/ Process!OnErrorOccurred \/ Process!RunningChanged \/ Process!Changed
  BY <1>3, ReportsKeep
<1>4. CASE Process!OnFinished \/ Process!OnStdoutParserDestroyed \/ Process!OnStdoutReadyRead
  BY <1>4, OnFinishedKeeps, OnStdoutParserDestroyedKeeps, OnStdoutReadyReadKeeps
<1>5. ASSUME NEW p \in {"none", "split", "collect"}, Process!SetStdoutParser(p) PROVE ProcessInv'
  BY <1>5, SetStdoutParserKeeps
<1>6. ASSUME NEW kind \in {"line", "part"}, Process!ChildWrites(kind) PROVE ProcessInv'
  BY <1>6, ChildWritesKeeps
<1> QED BY <1>1, <1>2, <1>3, <1>4, <1>5, <1>6 DEF Process!Next

LEMMA ProcessInvHolds == ProcessInv => Process!WishIsServed /\ Process!OutputIsHeard
<1> SUFFICES ASSUME ProcessInv PROVE Process!WishIsServed /\ Process!OutputIsHeard
  OBVIOUS
<1>1. Process!WishIsServed
  BY DEF ProcessInv, WishServed, ToldRuns, RunIsTold, Process!WishIsServed
<1>2. Process!OutputIsHeard
  BY DEF ProcessInv, NothingIsLost, Process!OutputIsHeard, Process!Running
<1> QED BY <1>1, <1>2

-----------------------------------------------------------------------------
(* The properties of a JSON file                                             *)

LEMMA AdapterSteps == Spec => Adapter!Init /\ [][Adapter!Next]_(Adapter!jsonVars)
<1>1. Init => Adapter!Init
  BY DEF Init
<1>2. [Next]_vars => [Adapter!Next]_(Adapter!jsonVars)
  BY DEF Next, Streams, Others, vars, otherVars, adapterVars, Adapter!jsonVars
<1> QED BY <1>1, <1>2, PTL DEF Spec

Holders  == [p : Numbers, sub : {"own", "made", "null"}, v : Numbers]
OwnDocs  == [p : Numbers, sub : Numbers \cup {"null", "bare"}]
JsonDocs == [p : Numbers \cup {"none"}, sub : Numbers \cup {"none", "null", "bare"}] \cup {Adapter!Broken}

JsonOps == [kind : {"none", "read", "write"}, content : JsonDocs, done : BOOLEAN]

JsonType ==
  /\ props \in Holders /\ text \in JsonDocs /\ told \in BOOLEAN
  /\ missed \subseteq {"busy", "reverted", "dropped", "overtaken"}
  /\ fview \in [data : JsonDocs, writeData : JsonDocs, op : JsonOps]
  /\ fview.op.kind = "none"  => fview.op = Adapter!NoOp
  /\ fview.op.kind = "write" => fview.op.content \in OwnDocs
  /\ fview.writeData # Adapter!None => fview.op.kind = "write" /\ fview.writeData = fview.op.content

\* The properties are as a document says.
Agrees(a, d) ==
  d # Adapter!Broken =>
    /\ d.p \in Numbers => a.p = d.p
    /\ d.sub = "null"  => a.sub = "null"
    /\ d.sub \in Numbers /\ a.sub = "own" => a.v = d.sub
    /\ d.sub \in Numbers \cup {"bare"} => a.sub # "null"

\* What was read or written is what the file has, or news of it are on the way.
DataIsFile ==
  ~told /\ "busy" \notin missed =>
    /\ fview.op.kind = "none" => fview.data = text
    /\ fview.op.done => fview.op.content = text
\* The properties are as the data held says, except while other data is being written.
DataIsShown == fview.op.kind # "write" \/ fview.op.content = fview.data => Agrees(props, fview.data)
SetIsWritten == fview.op.kind = "write" /\ fview.writeData = fview.op.content => props.p = fview.op.content.p
\* What p was set to last is on its way to the file, or there.
LastIsWritten ==
  last # "none" /\ missed \cap {"dropped", "overtaken"} = {} =>
    /\ last \in Numbers
    /\ fview.op.kind = "write" => fview.op.content.p = last /\ (props.p = last \/ "reverted" \in missed)
    /\ fview.op.kind # "write" => props.p = last
    /\ fview.op.kind # "write" \/ fview.op.done => text.p = last
    /\ fview.op.kind = "read" /\ fview.op.done => fview.op.content.p = last

JsonInv == JsonType /\ DataIsFile /\ DataIsShown /\ SetIsWritten /\ LastIsWritten

-----------------------------------------------------------------------------
LEMMA JsonValues == /\ OwnDocs \subseteq JsonDocs /\ {Adapter!None, Adapter!Broken} \subseteq JsonDocs
                    /\ Adapter!None \notin OwnDocs /\ Adapter!Broken \notin OwnDocs
                    /\ Documents \subseteq JsonDocs /\ Adapter!NoOp \in JsonOps
<1>1. /\ "none" \notin Numbers /\ "broken" \notin Numbers /\ "1" \in Numbers /\ "2" \in Numbers
  BY NumbersAreValues
<1>2. OwnDocs \subseteq JsonDocs /\ {Adapter!None, Adapter!Broken} \subseteq JsonDocs
  BY DEF OwnDocs, JsonDocs, Adapter!None, Adapter!Doc
<1>3. Adapter!None \notin OwnDocs /\ Adapter!Broken \notin OwnDocs
  BY <1>1 DEF OwnDocs, Adapter!None, Adapter!Broken, Adapter!Doc
<1>4. Documents \subseteq JsonDocs
  BY <1>1 DEF Documents, JsonDocs, Adapter!Broken, Adapter!Doc
<1>5. Adapter!NoOp \in JsonOps
  BY <1>2 DEF JsonOps, Adapter!NoOp
<1> QED BY <1>2, <1>3, <1>4, <1>5

\* What is loaded is shown.
LEMMA LoadedIsShown ==
  ASSUME NEW a \in Holders, NEW d \in JsonDocs, NEW u \in Adapter!Deserialize(a, d)
  PROVE  u \in Holders /\ Agrees(u, d)
<1>1. "none" \notin Numbers /\ "null" \notin Numbers /\ "bare" \notin Numbers
  BY NumbersAreValues
<1>2. CASE d \in {Adapter!Broken, Adapter!None}
  BY <1>1, <1>2 DEF Adapter!Deserialize, Agrees, Adapter!None, Adapter!Doc
<1>3. CASE d \notin {Adapter!Broken, Adapter!None}
  <2> DEFINE b == IF d.p = "none" THEN a ELSE [a EXCEPT !.p = d.p]
  <2>1. d.p \in Numbers \cup {"none"} /\ d.sub \in Numbers \cup {"none", "null", "bare"}
    BY <1>3 DEF JsonDocs
  <2>2. b \in Holders /\ (d.p \in Numbers => b.p = d.p)
    BY <1>1, <2>1 DEF Holders
  <2>3. PICK v \in IF b.p = a.p THEN {b.v} ELSE Numbers : u = Adapter!WithSub([b EXCEPT !.v = v], d.sub)
    BY <1>3 DEF Adapter!Deserialize
  <2> DEFINE c == [b EXCEPT !.v = v]
  <2>4. c \in Holders /\ c.p = b.p
    BY <2>2, <2>3 DEF Holders
  <2> HIDE DEF b, c
  <2>5. u = Adapter!WithSub(c, d.sub)
    BY <2>3 DEF c
  <2>6. u \in Holders /\ u.p = c.p
    BY <1>1, <2>1, <2>4, <2>5 DEF Adapter!WithSub, Holders
  <2>7. /\ d.sub = "null"  => u.sub = "null"
        /\ d.sub \in Numbers /\ u.sub = "own" => u.v = d.sub
        /\ d.sub \in Numbers \cup {"bare"} => u.sub # "null"
    BY <1>1, <2>1, <2>4, <2>5 DEF Adapter!WithSub, Holders
  <2> QED BY <2>2, <2>4, <2>6, <2>7 DEF Agrees
<1> QED BY <1>2, <1>3

\* What is saved is what is shown.
LEMMA SavedIsShown ==
  ASSUME NEW a \in Holders
  PROVE  /\ Adapter!Serialize(a) \in OwnDocs /\ Adapter!Serialize(a).p = a.p
         /\ Agrees(a, Adapter!Serialize(a))
<1>1. "null" \notin Numbers /\ "bare" \notin Numbers
  BY NumbersAreValues
<1> QED BY <1>1 DEF Adapter!Serialize, Adapter!Doc, Agrees, Holders, OwnDocs

\* updateState(), with what was written or read.
LEMMA UpdatedIsShown ==
  ASSUME NEW a \in Holders, NEW d \in JsonDocs, NEW u \in Adapter!UpdateState(a, d),
         d = fview.data => Agrees(a, d)
  PROVE  u \in Holders /\ Agrees(u, d)
BY LoadedIsShown DEF Adapter!UpdateState

-----------------------------------------------------------------------------
LEMMA InitJsonInv == Adapter!Init => JsonInv
<1> SUFFICES ASSUME Adapter!Init PROVE JsonInv
  OBVIOUS
<1>1. "none" \notin Numbers /\ "null" \notin Numbers /\ "bare" \notin Numbers
  BY NumbersAreValues
<1>2. fview = [data |-> Adapter!None, writeData |-> Adapter!None, op |-> [Adapter!NoOp EXCEPT !.kind = "read"]]
      /\ [Adapter!NoOp EXCEPT !.kind = "read"] \in JsonOps
  BY JsonValues DEF Adapter!Init, JsonOps, Adapter!NoOp
<1>3. fview.op.kind = "read" /\ ~fview.op.done /\ fview.data = Adapter!None /\ fview.writeData = Adapter!None
  BY <1>2 DEF Adapter!NoOp
<1>4. props \in Holders /\ text \in JsonDocs /\ told = FALSE /\ last = "none" /\ missed = {}
  BY JsonValues DEF Adapter!Init, Holders
<1>5. JsonType
  BY <1>2, <1>3, <1>4, JsonValues DEF JsonType
<1>6. Agrees(props, fview.data)
  BY <1>1, <1>3 DEF Agrees, Adapter!None, Adapter!Doc
<1> QED BY <1>3, <1>4, <1>5, <1>6 DEF JsonInv, DataIsFile, DataIsShown, SetIsWritten, LastIsWritten

LEMMA ThreadRunsKeeps == ASSUME JsonInv, Adapter!ThreadRuns PROVE JsonInv'
<1>1. /\ fview.op.kind # "none" /\ ~fview.op.done /\ UNCHANGED <<props, last, missed>>
  BY DEF Adapter!ThreadRuns
<1>2. fview \in [data : JsonDocs, writeData : JsonDocs, op : JsonOps] /\ text \in JsonDocs
  BY DEF JsonInv, JsonType
<1>3. CASE fview.op.kind = "read"
  <2>1. fview' = [fview EXCEPT !.op.content = text, !.op.done = TRUE] /\ UNCHANGED <<text, told>>
    BY <1>3 DEF Adapter!ThreadRuns
  <2>2. /\ fview' \in [data : JsonDocs, writeData : JsonDocs, op : JsonOps]
        /\ fview'.data = fview.data /\ fview'.writeData = fview.writeData
        /\ fview'.op.kind = "read" /\ fview'.op.content = text /\ fview'.op.done
    BY <1>2, <1>3, <2>1 DEF JsonOps
  <2>3. JsonType'
    BY <1>1, <1>3, <2>1, <2>2 DEF JsonInv, JsonType
  <2> QED BY <1>1, <1>3, <2>1, <2>2, <2>3 DEF JsonInv, DataIsFile, DataIsShown, SetIsWritten, LastIsWritten, Agrees
<1>4. CASE fview.op.kind = "write"
  <2>1. fview' = [fview EXCEPT !.op.done = TRUE] /\ text' = fview.op.content /\ told' = TRUE
    BY <1>4 DEF Adapter!ThreadRuns
  <2>2. /\ fview' \in [data : JsonDocs, writeData : JsonDocs, op : JsonOps]
        /\ fview'.data = fview.data /\ fview'.writeData = fview.writeData
        /\ fview'.op.kind = "write" /\ fview'.op.content = fview.op.content /\ fview'.op.done
        /\ text' \in JsonDocs
    BY <1>2, <1>4, <2>1 DEF JsonOps
  <2>3. JsonType'
    BY <1>1, <1>4, <2>1, <2>2 DEF JsonInv, JsonType
  <2> QED BY <1>1, <1>4, <2>1, <2>2, <2>3 DEF JsonInv, DataIsFile, DataIsShown, SetIsWritten, LastIsWritten, Agrees
<1> QED BY <1>1, <1>2, <1>3, <1>4 DEF JsonOps

LEMMA OperationFinishedKeeps == ASSUME JsonInv, Adapter!OperationFinished PROVE JsonInv'
<1> DEFINE content == fview.op.content
<1>1. /\ fview.op.done /\ props' \in Adapter!UpdateState(props, content) /\ missed' = missed \ {"reverted"}
      /\ fview' = [fview EXCEPT !.data = content, !.writeData = Adapter!None, !.op = Adapter!NoOp]
      /\ UNCHANGED <<text, told, last>>
  BY DEF Adapter!OperationFinished, Adapter!Ends
<1>2. /\ fview \in [data : JsonDocs, writeData : JsonDocs, op : JsonOps] /\ props \in Holders
      /\ content \in JsonDocs /\ fview.op.kind # "none"
  BY <1>1 DEF JsonInv, JsonType, JsonOps, Adapter!NoOp
<1>3. content = fview.data => Agrees(props, content)
  BY DEF JsonInv, DataIsShown
<1> HIDE DEF content
<1>4. props' \in Holders /\ Agrees(props', content)
  BY <1>1, <1>2, <1>3, UpdatedIsShown
<1>5. /\ fview' \in [data : JsonDocs, writeData : JsonDocs, op : JsonOps]
      /\ fview'.data = content /\ fview'.writeData = Adapter!None /\ fview'.op = Adapter!NoOp
      /\ fview'.op.kind = "none" /\ ~fview'.op.done
  BY <1>1, <1>2, JsonValues DEF Adapter!NoOp
<1>6. JsonType'
  BY <1>1, <1>4, <1>5 DEF JsonInv, JsonType
<1>7. DataIsFile'
  BY <1>1, <1>5 DEF JsonInv, DataIsFile, content
<1>8. DataIsShown' /\ SetIsWritten'
  BY <1>4, <1>5 DEF DataIsShown, SetIsWritten, Agrees
<1>9. LastIsWritten'
  <2> SUFFICES ASSUME last # "none", missed \cap {"dropped", "overtaken"} = {}
               PROVE  last \in Numbers /\ props'.p = last /\ text.p = last
    BY <1>1, <1>5 DEF LastIsWritten
  <2>1. last \in Numbers /\ content.p = last /\ text.p = last
    BY <1>1, <1>2 DEF JsonInv, LastIsWritten, JsonOps, content
  <2>2. content # Adapter!Broken
    BY <2>1, NumbersAreValues DEF Adapter!Broken, Adapter!Doc
  <2> QED BY <1>4, <2>1, <2>2 DEF Agrees
<1> QED BY <1>6, <1>7, <1>8, <1>9 DEF JsonInv

LEMMA FileChangedKeeps == ASSUME JsonInv, Adapter!FileChanged PROVE JsonInv'
<1>1. /\ told' = FALSE /\ UNCHANGED <<props, text, last>>
      /\ fview' = IF fview.op.kind = "none" THEN [fview EXCEPT !.op = [Adapter!NoOp EXCEPT !.kind = "read"]] ELSE fview
      /\ missed' = IF fview.op.done /\ fview.op.content # text THEN missed \cup {"busy"}
                   ELSE IF fview.op.kind = "none" THEN missed \ {"busy"} ELSE missed
  BY DEF Adapter!FileChanged
<1>2. /\ fview \in [data : JsonDocs, writeData : JsonDocs, op : JsonOps]
      /\ fview.op.kind = "none" => ~fview.op.done
  BY DEF JsonInv, JsonType, Adapter!NoOp
<1>3. CASE fview.op.kind = "none"
  <2>1. [Adapter!NoOp EXCEPT !.kind = "read"] \in JsonOps
    BY JsonValues DEF JsonOps, Adapter!NoOp
  <2>2. /\ fview' \in [data : JsonDocs, writeData : JsonDocs, op : JsonOps]
        /\ fview'.data = fview.data /\ fview'.writeData = fview.writeData
        /\ fview'.op.kind = "read" /\ ~fview'.op.done
    BY <1>1, <1>2, <1>3, <2>1 DEF Adapter!NoOp
  <2>3. missed' = missed \ {"busy"}
    BY <1>1, <1>2, <1>3
  <2>4. JsonType'
    BY <1>1, <1>3, <2>2, <2>3 DEF JsonInv, JsonType
  <2> QED BY <1>1, <1>3, <2>2, <2>3, <2>4 DEF JsonInv, DataIsFile, DataIsShown, SetIsWritten, LastIsWritten, Agrees
<1>4. CASE fview.op.kind # "none"
  <2>1. fview' = fview /\ missed' \cap {"dropped", "overtaken", "reverted"} = missed \cap {"dropped", "overtaken", "reverted"}
    BY <1>1, <1>4
  <2>2. JsonType'
    BY <1>1, <2>1 DEF JsonInv, JsonType
  <2>3. DataIsFile'
    BY <1>1, <1>4, <2>1 DEF DataIsFile
  <2> QED BY <1>1, <2>1, <2>2, <2>3 DEF JsonInv, DataIsShown, SetIsWritten, LastIsWritten, Agrees
<1> QED BY <1>3, <1>4

LEMMA OtherWritesKeeps == ASSUME JsonInv, NEW d \in Documents, Adapter!OtherWrites(d) PROVE JsonInv'
<1>1. text' = d /\ told' = TRUE /\ last' = "none" /\ UNCHANGED <<props, fview, missed>>
  BY DEF Adapter!OtherWrites
<1>2. JsonType'
  BY <1>1, JsonValues DEF JsonInv, JsonType
<1> QED BY <1>1, <1>2 DEF JsonInv, DataIsFile, DataIsShown, SetIsWritten, LastIsWritten, Agrees

-----------------------------------------------------------------------------
\* writeAdapter() of what is held or being written already.
LEMMA NotWrittenKeeps ==
  ASSUME JsonInv, NEW a \in Holders, NEW setsP \in BOOLEAN, Adapter!WriteAdapter(a, setsP),
         Adapter!Serialize(a) = Adapter!WriteCmpData,
         setsP => a.p # props.p, ~setsP => a.p = props.p /\ last' = last
  PROVE  JsonInv'
<1> DEFINE content == Adapter!Serialize(a)
           waited  == fview.op.kind = "write"
<1>1. /\ props' = a /\ UNCHANGED <<text, fview, told>>
      /\ "busy" \in missed' <=> "busy" \in missed
      /\ "reverted" \in missed' <=> "reverted" \in missed
      /\ ~setsP => missed \cap {"dropped", "overtaken"} \subseteq missed'
      /\ missed' \subseteq {"busy", "reverted", "dropped", "overtaken"}
      /\ waited /\ fview.op.content # content /\ setsP => "dropped" \in missed'
  BY DEF Adapter!WriteAdapter
<1>2. content \in OwnDocs /\ content.p = a.p /\ Agrees(a, content)
  BY SavedIsShown
<1>4. content = fview.data \/ (waited /\ content = fview.op.content /\ fview.writeData = content)
  BY DEF Adapter!WriteCmpData, JsonInv, JsonType
<1>5. waited => fview.op.content \in OwnDocs /\ fview.op.content # Adapter!None
  BY JsonValues DEF JsonInv, JsonType
<1> HIDE DEF content
<1>6. JsonType' /\ DataIsFile'
  BY <1>1 DEF JsonInv, JsonType, DataIsFile
<1>7. DataIsShown'
  BY <1>1, <1>2, <1>4 DEF DataIsShown, Agrees
<1>8. SetIsWritten'
  BY <1>1, <1>2, <1>4, <1>5 DEF SetIsWritten, Adapter!WriteCmpData, content
<1>9. LastIsWritten'
  <2>1. CASE ~setsP
    BY <1>1, <2>1 DEF JsonInv, LastIsWritten
  <2>2. CASE setsP
    <3>1. /\ content.p \in Numbers /\ content # Adapter!Broken /\ content # Adapter!None
          /\ content.p # props.p
      BY <1>2, <2>2, JsonValues DEF OwnDocs
    <3>2. ~(fview.writeData = content /\ waited)
      BY <1>4, <3>1 DEF JsonInv, JsonType, SetIsWritten
    <3>3. waited /\ fview.op.content # content
      BY <1>4, <3>1, <3>2 DEF JsonInv, DataIsShown, Agrees
    <3> QED BY <1>1, <2>2, <3>3 DEF LastIsWritten
  <2> QED BY <2>1, <2>2
<1> QED BY <1>6, <1>7, <1>8, <1>9 DEF JsonInv

\* writeAdapter() of something else: the write under way, if there is one, is waited for.
LEMMA WrittenKeeps ==
  ASSUME JsonInv, NEW a \in Holders, NEW setsP \in BOOLEAN, Adapter!WriteAdapter(a, setsP),
         Adapter!Serialize(a) # Adapter!WriteCmpData,
         setsP => last' = a.p, ~setsP => a.p = props.p /\ last' = last
  PROVE  JsonInv'
<1> DEFINE content == Adapter!Serialize(a)
           waited  == fview.op.kind = "write"
           older   == IF setsP THEN {} ELSE missed \cap {"dropped", "overtaken"}
<1>1. /\ props' \in IF waited THEN Adapter!UpdateState(a, fview.op.content) ELSE {a}
      /\ missed' = older \cup (IF props'.p # a.p THEN {"reverted"} ELSE {})
                         \cup (IF "reverted" \in missed /\ ~setsP THEN {"overtaken"} ELSE {})
      /\ text' \in {text, fview.op.content}
      /\ told' \in BOOLEAN
      /\ fview' = [data |-> IF waited THEN fview.op.content ELSE fview.data,
                   writeData |-> IF waited THEN Adapter!None ELSE content,
                   op |-> [kind |-> "write", content |-> content, done |-> FALSE]]
  BY DEF Adapter!WriteAdapter, Adapter!Starts, Adapter!Writing, JsonInv, JsonType
<1>2. content \in OwnDocs /\ content.p = a.p /\ Agrees(a, content) /\ content.p \in Numbers
  BY SavedIsShown DEF Holders
<1>3. /\ fview \in [data : JsonDocs, writeData : JsonDocs, op : JsonOps] /\ text \in JsonDocs
      /\ fview.op.content \in JsonDocs /\ missed \subseteq {"busy", "reverted", "dropped", "overtaken"}
  BY DEF JsonInv, JsonType, JsonOps
<1> HIDE DEF content
<1>4. /\ fview'.op.kind = "write" /\ fview'.op.content = content /\ ~fview'.op.done
      /\ fview'.data = IF waited THEN fview.op.content ELSE fview.data
      /\ fview'.writeData = IF waited THEN Adapter!None ELSE content
  BY <1>1
<1>5. fview' \in [data : JsonDocs, writeData : JsonDocs, op : JsonOps]
  BY <1>1, <1>2, <1>3, JsonValues DEF JsonOps
<1>6. ~waited => props' = a
  BY <1>1
<1>7. waited => IF fview.op.content = fview.data THEN props' = a ELSE props' \in Holders /\ Agrees(props', fview.op.content)
  BY <1>1, <1>3, LoadedIsShown DEF Adapter!UpdateState
<1>8. props' \in Holders
  BY <1>6, <1>7
<1>9. JsonType'
  BY <1>1, <1>2, <1>3, <1>4, <1>5, <1>8, JsonValues DEF JsonType
<1>10. DataIsFile'
  BY <1>4 DEF DataIsFile
<1>11. DataIsShown'
  <2> SUFFICES ASSUME content = fview'.data PROVE Agrees(props', content)
    BY <1>4 DEF DataIsShown, Agrees
  <2> QED BY <1>2, <1>4, <1>6, <1>7
<1>12. SetIsWritten'
  BY <1>2, <1>4, <1>6, JsonValues DEF SetIsWritten
<1>13. LastIsWritten'
  <2>1. CASE setsP
    BY <1>1, <1>2, <1>4, <2>1 DEF LastIsWritten
  <2>2. CASE ~setsP
    <3> SUFFICES ASSUME last # "none", missed' \cap {"dropped", "overtaken"} = {}
                 PROVE  last \in Numbers /\ content.p = last /\ (props'.p = last \/ "reverted" \in missed')
      BY <1>4, <2>2 DEF LastIsWritten
    <3>1. missed \cap {"dropped", "overtaken"} = {} /\ "reverted" \notin missed
      BY <1>1, <2>2
    <3>2. last \in Numbers /\ props.p = last
      BY <1>3, <3>1 DEF JsonInv, LastIsWritten, JsonOps
    <3> QED BY <1>1, <1>2, <2>2, <3>2
  <2> QED BY <2>1, <2>2
<1> QED BY <1>9, <1>10, <1>11, <1>12, <1>13 DEF JsonInv

LEMMA NextJsonInv == ASSUME JsonInv, [Adapter!Next]_(Adapter!jsonVars) PROVE JsonInv'
<1>1. props \in Holders
  BY DEF JsonInv, JsonType
<1>2. ASSUME NEW n \in Numbers, Adapter!SetP(n) PROVE JsonInv'
  <2> DEFINE a == [props EXCEPT !.p = n]
  <2>1. a \in Holders /\ a.p = n /\ n # props.p /\ last' = n /\ Adapter!WriteAdapter(a, TRUE)
    BY <1>1, <1>2 DEF Adapter!SetP, Holders
  <2> HIDE DEF a
  <2> QED BY <2>1, NotWrittenKeeps, WrittenKeeps
<1>3. ASSUME NEW a \in Holders, a.p = props.p, last' = last, Adapter!WriteAdapter(a, FALSE) PROVE JsonInv'
  BY <1>3, NotWrittenKeeps, WrittenKeeps
<1>4. ASSUME NEW n \in Numbers, Adapter!SetV(n) PROVE JsonInv'
  <2> DEFINE a == [props EXCEPT !.v = n]
  <2>1. a \in Holders /\ a.p = props.p /\ last' = last /\ Adapter!WriteAdapter(a, FALSE)
    BY <1>1, <1>4 DEF Adapter!SetV, Holders
  <2> HIDE DEF a
  <2> QED BY <1>3, <2>1
<1>5. ASSUME NEW sub \in {"own", "null"}, Adapter!SetSub(sub) PROVE JsonInv'
  <2> DEFINE a == [props EXCEPT !.sub = sub]
  <2>1. a \in Holders /\ a.p = props.p /\ last' = last /\ Adapter!WriteAdapter(a, FALSE)
    BY <1>1, <1>5 DEF Adapter!SetSub, Holders
  <2> HIDE DEF a
  <2> QED BY <1>3, <2>1
<1>6. CASE Adapter!ThreadRuns \/ Adapter!OperationFinished \/ Adapter!FileChanged
  BY <1>6, ThreadRunsKeeps, OperationFinishedKeeps, FileChangedKeeps
<1>7. ASSUME NEW d \in Documents, Adapter!OtherWrites(d) PROVE JsonInv'
  BY <1>7, OtherWritesKeeps
<1>8. CASE UNCHANGED Adapter!jsonVars
  <2>1. UNCHANGED <<props, text, fview, told, last, missed>>
    BY <1>8 DEF Adapter!jsonVars
  <2> QED BY <2>1 DEF JsonInv, JsonType, DataIsFile, DataIsShown, SetIsWritten, LastIsWritten, Agrees
<1> QED BY <1>2, <1>4, <1>5, <1>6, <1>7, <1>8 DEF Adapter!Next

LEMMA JsonInvHolds == JsonInv => Adapter!AdapterHolds
<1> SUFFICES ASSUME JsonInv, Adapter!AtRest PROVE Adapter!AdapterHolds
  BY DEF Adapter!AdapterHolds, Adapter!ShowsFile, Adapter!LastSetIsKept
<1>1. fview.op.kind = "none" /\ ~told
  BY DEF Adapter!AtRest, Adapter!NoOp
<1>2. Adapter!ShowsFile
  BY <1>1 DEF JsonInv, DataIsFile, DataIsShown, Adapter!ShowsFile, Agrees
<1>3. Adapter!LastSetIsKept
  BY <1>1 DEF JsonInv, LastIsWritten, Adapter!LastSetIsKept
<1> QED BY <1>2, <1>3 DEF Adapter!AdapterHolds

\* A child process that is wanted is started as soon as it may be, `running' tells of it, and the
\* parser it was started with hears all it writes, once and in its order (src/src/io/process.cpp);
\* at rest the properties of a JSON file are as the file says, and what was set last is in the file,
\* while others write it (src/src/io/jsonadapter.cpp); whatever runs, numbers and writes there are.
THEOREM WishesAreKept == Spec => []WishIsServed
<1>1. ProcessInv /\ JsonInv => WishIsServed
  BY ProcessInvHolds, JsonInvHolds DEF WishIsServed
<1>2. ProcessInv /\ [Process!Next]_(Process!processVars) => ProcessInv'
  BY NextProcessInv
<1>3. JsonInv /\ [Adapter!Next]_(Adapter!jsonVars) => JsonInv'
  BY NextJsonInv
<1>4. Process!Spec => []ProcessInv
  BY <1>2, InitProcessInv, PTL DEF Process!Spec
<1>5. Spec => []JsonInv
  BY <1>3, InitJsonInv, AdapterSteps, PTL
<1> QED BY <1>1, <1>4, <1>5, ProcessSteps, PTL

-----------------------------------------------------------------------------
(* The types of all these.                                                   *)

\* The command is one of the commands or none.
CommandGiven == command \in Commands \cup {NoCommand}

LEMMA CommandStays == Process!Spec => []CommandGiven
<1>1. Process!Init => CommandGiven
  BY DEF Process!Init, CommandGiven
<1>2. ASSUME CommandGiven, [Process!Next]_(Process!processVars) PROVE CommandGiven'
  <2>1. CASE \E cmd \in Commands \cup {NoCommand} : Process!SetCommand(cmd) \/ Process!Exec(cmd)
    BY <2>1 DEF Process!SetCommand, Process!Exec, CommandGiven
  <2>2. CASE UNCHANGED command
    BY <1>2, <2>2 DEF CommandGiven
  <2> QED
    BY <1>2, <2>1, <2>2 DEF Process!Next, Process!OnPostReload, Process!SetRunning, Process!OnStarted, Process!OnErrorOccurred,
         Process!OnFinished, Process!RunningChanged, Process!Restart, Process!Changed, Process!SetStdoutParser,
         Process!ChildWrites, Process!OnStdoutParserDestroyed, Process!OnStdoutReadyRead, Process!streamKeeps,
         Process!processVars
<1> QED BY <1>1, <1>2, PTL DEF Process!Spec

\* An application is watched, or its watch is under way.
WatchOnce == watched \cap watching = {}

LEMMA WatchStays == Tray!Spec => []WatchOnce
<1>1. Tray!Init => WatchOnce
  BY DEF Tray!Init, WatchOnce
<1>2. ASSUME WatchOnce, [Tray!Next]_(Tray!trayVars) PROVE WatchOnce'
  <2>1. CASE \E a \in Apps : Tray!Watches(a)
    BY <1>2, <2>1 DEF Tray!Watches, WatchOnce
  <2>2. CASE Tray!RegisterStatusNotifierItem
    BY <1>2, <2>2 DEF Tray!RegisterStatusNotifierItem, WatchOnce
  <2>3. CASE Tray!OnServiceUnregistered
    BY <1>2, <2>3 DEF Tray!OnServiceUnregistered, WatchOnce
  <2>4. CASE UNCHANGED <<watched, watching>>
    BY <1>2, <2>4 DEF WatchOnce
  <2> QED
    BY <1>2, <2>1, <2>2, <2>3, <2>4
       DEF Tray!Next, Tray!Shell, Tray!Launch, Tray!Ends, Tray!Announce, Tray!OtherComes, Tray!OtherGoes,
           Tray!OtherAnswers, Tray!OnWatcherUnregistered, Tray!OnWatcherRegistered, Tray!OnItemRegistered,
           Tray!OnItemUnregistered, Tray!trayVars
<1> QED BY <1>1, <1>2, PTL DEF Tray!Spec

\* The objects that a configuration works with keep their types, whatever they are told and in which
\* order, and the row operations of ScriptModel::updateValuesUnique() (src/src/core/scriptmodel.cpp)
\* give a view exactly the rows of the model, which at their end are the new list's: for lists of any
\* length without duplicates and updated at any state of the rows.
THEOREM ObjectsKeep == Spec => []ObjectsHold
<1>1. ParserInv => Parser!TypeOK
  BY DEF ParserInv, ParserType, Parser!TypeOK
<1>2. ProcessInv /\ CommandGiven => Process!TypeOK
  BY DEF ProcessInv, ProcessType, CommandGiven, Process!TypeOK
<1>3. SocketInv => Socket!TypeOK
  BY DEF SocketInv, SocketType, Socket!TypeOK
<1>4. TrayInv /\ WatchOnce => Tray!TypeOK
  BY DEF TrayInv, TrayType, WatchOnce, Tray!TypeOK
<1>5. LockInv /\ MirrorInv => Lock!TypeOK /\ Mirror!TypeOK
  BY DEF LockInv, MirrorInv
<1>6. /\ ModelInv /\ ParserInv /\ ProcessInv /\ CommandGiven /\ SocketInv
      /\ TrayInv /\ WatchOnce /\ LockInv /\ MirrorInv
      => ObjectsHold
  BY <1>1, <1>2, <1>3, <1>4, <1>5, ModelInvHolds DEF ObjectsHold
<1>7. Spec => []ModelInv /\ []ParserInv
  BY ModelInvariance, ModelSteps, ParserInvariance, ParserSteps, PTL
<1>8. ProcessInv /\ [Process!Next]_(Process!processVars) => ProcessInv'
  BY NextProcessInv
<1>9. Process!Spec => []ProcessInv
  BY <1>8, InitProcessInv, PTL DEF Process!Spec
<1>10. SocketInv /\ [Socket!Next]_(Socket!socketVars) => SocketInv'
  BY NextSocketInv
<1>11. Socket!Spec => []SocketInv
  BY <1>10, InitSocketInv, PTL DEF Socket!Spec
<1>12. TrayInv /\ [Tray!Next]_(Tray!trayVars) => TrayInv'
  BY NextTrayInv
<1>13. Tray!Spec => []TrayInv
  BY <1>12, InitTrayInv, PTL DEF Tray!Spec
<1>14. Spec => []LockInv /\ []MirrorInv
  BY LockInvariance, LockSteps, MirrorInvariance, MirrorSteps, PTL
<1> QED
  BY <1>6, <1>7, <1>9, <1>11, <1>13, <1>14, ProcessSteps, SocketSteps, TraySteps, CommandStays, WatchStays, PTL
=============================================================================
