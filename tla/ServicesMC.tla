----------------------------- MODULE ServicesMC -----------------------------
(* The clients of desktop services, for TLC.  They do not share state: a     *)
(* behaviour explores one of them, and the others stay in their initial      *)
(* states.                                                                   *)
EXTENDS Naturals, Sequences

CONSTANTS Explored,
  MaxConvs, MaxMessages, MaxPamDepth, PamReenter, PamAnswer, AnswerTwice, PamFaults,
  Leftover, MaxRequests,
  AuthRequests, NoFlow, Nobody,
  MaxNotifications, MaxNoteDepth

\* A null flow is no request's; notifications are numbered, and so are conversations, one at least,
\* and the messages of a child.
ASSUME NullIsNoFlow == NoFlow \notin AuthRequests
ASSUME NotesAreNumbered == MaxNotifications \in Nat
ASSUME ConvsAreNumbered == MaxConvs \in Nat \ {0}
ASSUME MessagesAreNumbered == MaxMessages \in Nat

VARIABLES which,
  pamTarget, postInit, conv, pamRequired, shown, answered, convs, frames,
  state, target, required, connected, requests, replies, session, hurried,
  reqs, queue, active, agent, usual,
  notes, idMap, listed, calls, reclosed

Pam    == INSTANCE Pam WITH target <- pamTarget, required <- pamRequired
Greetd == INSTANCE Greetd
Polkit == INSTANCE Polkit
Notes  == INSTANCE Notifications

pamVars    == <<pamTarget, postInit, conv, pamRequired, shown, answered, convs, frames>>
greetdVars == <<state, target, required, connected, requests, replies, session, hurried>>
polkitVars == <<reqs, queue, active, agent, usual>>
noteVars   == <<notes, idMap, listed, calls, reclosed>>
vars       == <<which, pamVars, greetdVars, polkitVars, noteVars>>

Init == /\ which \in Explored
        /\ Pam!Init /\ Greetd!Init /\ Polkit!Init /\ Notes!Init

Next ==
  \/ which = "pam"    /\ Pam!Next    /\ UNCHANGED <<which, greetdVars, polkitVars, noteVars>>
  \/ which = "greetd" /\ Greetd!Next /\ UNCHANGED <<which, pamVars, polkitVars, noteVars>>
  \/ which = "polkit" /\ Polkit!Next /\ UNCHANGED <<which, pamVars, greetdVars, noteVars>>
  \/ which = "notes"  /\ Notes!Next  /\ UNCHANGED <<which, pamVars, greetdVars, polkitVars>>

Spec == Init /\ [][Next]_vars

\* The main thread gets on with what a PAM context has to do.
PamMain  == which = "pam" /\ Pam!Main /\ UNCHANGED <<which, greetdVars, polkitVars, noteVars>>
FairSpec == Spec /\ WF_vars(PamMain)

-----------------------------------------------------------------------------
\* The properties of the modules, stated there.

\* The variables keep their types (Pam, Greetd, Polkit, Notifications); no child process outlives
\* its PAM conversation, and an active context has a child whose end it hears of.
ServicesHold == /\ Pam!TypeOK /\ Greetd!TypeOK /\ Polkit!TypeOK /\ Notes!TypeOK
                /\ Pam!ChildrenAreOwned /\ Pam!ActiveHasChild
\* An answer reaches the question it was given to.
AnswersMatch == Pam!AnswersMatch
\* The end of a child ends its conversation.
EndIsNoticed == Pam!EndIsNoticed
\* A shell that waits for what it gave up is told the truth by greetd's client.
PatientShellIsRight == Greetd!PatientShellIsRight
\* Polkit's daemon gets one answer to each request.
EveryRequestIsAnswered == Polkit!EveryRequestIsAnswered
\* The list the shell sees holds the notifications nobody closed, and a sender is told once,
\* and exactly then, that its notification is closed.
ListIsWhatIsOpen == Notes!ListIsWhatIsOpen /\ Notes!ClosedOnce
\* A locked notification that somebody closes is kept until it is unlocked.
LockedIsKept == Notes!LockedIsKept
=============================================================================
