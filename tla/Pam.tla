-------------------------------- MODULE Pam --------------------------------
(***************************************************************************)
(* PamContext and PamConversation (src/src/services/pam): a PAM session    *)
(* runs in a forked child, which asks its questions through a pipe and     *)
(* reads the answers from another.  The context owns one conversation at a *)
(* time; a conversation that was aborted lives on, its child with it,      *)
(* until its deferred deletion.  QML runs while a signal is emitted, so    *)
(* the main thread's calls are a stack of frames.                          *)
(***************************************************************************)
EXTENDS Naturals, Sequences

CONSTANTS
  MaxConvs,     \* bound: conversations started during a behaviour
  MaxMessages,  \* bound: messages a child sends
  MaxPamDepth,  \* bound: frames on the stack when a handler acts
  PamReenter,   \* the signals whose handlers call back into the context
  PamAnswer,    \* the signals whose handlers answer
  AnswerTwice,  \* may the shell answer one message twice?
  PamFaults     \* may pipes fail and the child be killed?

Convs  == 1..MaxConvs
NoConv == 0
Points == {"starting", "aborting", "error", "completed", "messageChanged", "pamMessage", "reap"}

VARIABLES
  target,    \* mTargetActive
  postInit,
  conv,      \* the context's conversation
  required,  \* mIsResponseRequired
  shown,     \* the message the shell was shown last
  answered,  \* history: the shell has answered it
  convs,     \* every PamConversation and its child
  frames     \* calls in progress, innermost first

pamVars == <<target, postInit, conv, required, shown, answered, convs, frames>>

\* linked: its signals reach the context.  pid: childPid is set.  sent: messages
\* the child has sent.  up, down: the pipes; an answer is the message it is for.
Message == [type : {"ask", "tell"}, n : 1..MaxMessages] \cup [type : {"exit"}, ok : BOOLEAN]
Conversation == [st : {"unused", "live", "doomed", "gone"}, linked : BOOLEAN, pid : BOOLEAN,
                 child : {"none", "running", "waiting", "ended", "reaped"}, sent : 0..MaxMessages,
                 up : Seq(Message), down : Seq(0..MaxMessages)]
NoConversation == [st |-> "unused", linked |-> FALSE, pid |-> FALSE, child |-> "none",
                   sent |-> 0, up |-> <<>>, down |-> <<>>]

Frame(at, k) == [at |-> at, k |-> k]
At(p)   == frames # <<>> /\ Head(frames).at = p
Top     == Head(frames)
Return  == frames' = Tail(frames)

\* QML runs from the event loop or in the handler of a signal.
QmlRuns == frames # <<>> => Top.at \in PamReenter /\ Len(frames) <= MaxPamDepth

-----------------------------------------------------------------------------
(* PamContext *)

\* startConversation(), up to the emission of activeChanged().
StartConversation ==
  \/ /\ ~postInit \/ conv # NoConv
     /\ target' = TRUE /\ UNCHANGED <<conv, convs, frames>>
  \/ /\ postInit /\ conv = NoConv
     /\ \/ \E k \in Convs :
             /\ convs[k].st = "unused" /\ \A j \in Convs : j < k => convs[j].st # "unused"
             /\ convs' = [convs EXCEPT ![k].st = "live", ![k].linked = TRUE]
             /\ conv' = k
             /\ target' = TRUE
             /\ frames' = <<Frame("starting", k)>> \o frames
        \/ target' = FALSE /\ UNCHANGED <<conv, convs, frames>>   \* no such config or user

Activate ==
  /\ QmlRuns /\ ~target
  /\ StartConversation
  /\ UNCHANGED <<postInit, required, shown, answered>>

ComponentComplete ==
  /\ ~postInit /\ frames = <<>>
  /\ postInit' = TRUE
  /\ IF target
     THEN /\ convs' = [convs EXCEPT ![1].st = "live", ![1].linked = TRUE]
          /\ conv' = 1
          /\ frames' = <<Frame("starting", 1)>>
     ELSE UNCHANGED <<conv, convs, frames>>
  /\ UNCHANGED <<target, required, shown, answered>>

\* abortConversation() up to activeChanged(), in the state cs of the
\* conversations; rest: the frames that are left to do.
AbortConversation(cs, rest) ==
  IF conv = NoConv THEN convs' = cs /\ frames' = rest /\ UNCHANGED <<target, conv>>
  ELSE /\ convs' = [cs EXCEPT ![conv].st = "doomed", ![conv].linked = FALSE]
       /\ conv' = NoConv
       /\ target' = FALSE
       /\ frames' = <<Frame("aborting", conv)>> \o rest

Deactivate ==
  /\ QmlRuns /\ target
  /\ IF conv = NoConv THEN target' = FALSE /\ UNCHANGED <<conv, convs, frames>>
     ELSE AbortConversation(convs, frames)
  /\ UNCHANGED <<postInit, required, shown, answered>>

\* Mutant: responseRequired is left as it is.
AbortedKeeps ==
  /\ At("aborting")
  /\ Return
  /\ UNCHANGED <<target, postInit, conv, required, shown, answered, convs>>

\* The message and its flags are reset.
Aborted ==
  /\ At("aborting")
  /\ required' = FALSE
  /\ Return
  /\ UNCHANGED <<target, postInit, conv, shown, answered, convs>>

\* onError() and onCompleted() of the context, if conversation k reaches it.
Fails(cs, k, rest) ==
  IF convs[k].linked
  THEN AbortConversation(cs, <<Frame("error", k), Frame("completed", k)>> \o rest)
  ELSE convs' = cs /\ frames' = rest /\ UNCHANGED <<target, conv>>



Completes(cs, k, rest) ==
  IF convs[k].linked THEN AbortConversation(cs, <<Frame("completed", k)>> \o rest)
  ELSE convs' = cs /\ frames' = rest /\ UNCHANGED <<target, conv>>

-----------------------------------------------------------------------------
(* PamConversation *)

\* Mutant: childPid is forgotten, the child not killed.
KilledForgets(k) == [convs EXCEPT ![k].pid = FALSE]
\* kill() and waitpid().
Killed(k) == [convs EXCEPT ![k].pid = FALSE,
                           ![k].child = IF convs[k].pid THEN "reaped" ELSE @]

\* start(): fork, or the error that there is no pipe.  It is called on the
\* context's conversation by now, whichever that is; a null one is not modelled.
Started ==
  /\ At("starting") /\ conv # NoConv
  /\ \/ /\ convs' = [convs EXCEPT ![conv].pid = TRUE, ![conv].child = "running"]
        /\ Return
        /\ UNCHANGED <<target, conv>>
     \/ PamFaults /\ Fails(convs, conv, Tail(frames))
  /\ UNCHANGED <<postInit, required, shown, answered>>

\* respond(), which leaves responseRequired as it is.
Respond ==
  /\ QmlRuns /\ conv # NoConv /\ required
  /\ answered => AnswerTwice
  /\ frames # <<>> => Top.at \in PamAnswer
  /\ Len(convs[conv].down) < 2
  /\ answered' = TRUE
  /\ IF convs[conv].child \in {"running", "waiting"}
     THEN /\ convs' = [convs EXCEPT ![conv].down = Append(@, shown)]
          /\ UNCHANGED <<target, conv, frames>>
     ELSE Fails(Killed(conv), conv, frames)
  /\ UNCHANGED <<postInit, required, shown>>

Readable(k) == frames = <<>> /\ convs[k].st \in {"live", "doomed"}
Read(k) == [convs EXCEPT ![k].up = Tail(@)]

\* onMessage(), a request.
OnRequest(k) ==
  /\ Readable(k) /\ convs[k].up # <<>> /\ Head(convs[k].up).type # "exit"
  /\ convs' = Read(k)
  /\ IF convs[k].linked
     THEN /\ shown' = Head(convs[k].up).n /\ answered' = FALSE
          /\ frames' = <<[at |-> "messageChanged", k |-> k, ask |-> Head(convs[k].up).type = "ask"]>>
     ELSE UNCHANGED <<shown, answered, frames>>
  /\ UNCHANGED <<target, postInit, conv, required>>

MessageChanged ==
  /\ At("messageChanged")
  /\ required' = Top.ask
  /\ frames' = <<Frame("pamMessage", Top.k)>> \o Tail(frames)
  /\ UNCHANGED <<target, postInit, conv, shown, answered, convs>>

\* onMessage(), an exit: the child is reaped after the signals.
OnExit(k) ==
  /\ Readable(k) /\ convs[k].up # <<>> /\ Head(convs[k].up).type = "exit"
  /\ IF Head(convs[k].up).ok THEN Completes(Read(k), k, <<Frame("reap", k)>>)
                             ELSE Fails(Read(k), k, <<Frame("reap", k)>>)
  /\ UNCHANGED <<postInit, required, shown, answered>>

\* onMessage() on a pipe the child has closed: internalError().
OnEof(k) ==
  /\ Readable(k) /\ convs[k].up = <<>> /\ convs[k].child = "ended" /\ convs[k].pid
  /\ Fails(Killed(k), k, <<>>)
  /\ UNCHANGED <<postInit, required, shown, answered>>

Emitted == /\ frames # <<>> /\ Top.at \in {"error", "completed", "pamMessage"}
           /\ Return
           /\ UNCHANGED <<target, postInit, conv, required, shown, answered, convs>>

\* Mutant: childPid is reset before the wait.
ReapedForgets == /\ At("reap")
                 /\ convs' = [convs EXCEPT ![Top.k].pid = FALSE]
                 /\ Return
                 /\ UNCHANGED <<target, postInit, conv, required, shown, answered>>

Reaped == /\ At("reap")
          /\ convs' = [convs EXCEPT ![Top.k].pid = FALSE, ![Top.k].child = "reaped"]
          /\ Return
          /\ UNCHANGED <<target, postInit, conv, required, shown, answered>>

\* The deferred deletion: ~PamConversation aborts.
Delete(k) ==
  /\ frames = <<>> /\ convs[k].st = "doomed"
  /\ convs' = [convs EXCEPT ![k] = [NoConversation EXCEPT !.st = "gone", !.child = Killed(k)[k].child]]
  /\ UNCHANGED <<target, postInit, conv, required, shown, answered, frames>>

-----------------------------------------------------------------------------
(* The child: PamSubprocess *)

Alive(k, st) == convs[k].child = st
Send(k, m, st) == convs' = [convs EXCEPT ![k].up = Append(@, m), ![k].child = st]

\* conversation(): a message that wants an answer or not.
ChildAsks(k) ==
  /\ Alive(k, "running") /\ convs[k].sent < MaxMessages
  /\ \E type \in {"ask", "tell"} :
       convs' = [convs EXCEPT ![k].sent = @ + 1,
                              ![k].up = Append(@, [type |-> type, n |-> convs[k].sent + 1]),
                              ![k].child = IF type = "ask" THEN "waiting" ELSE @]
  /\ UNCHANGED <<target, postInit, conv, required, shown, answered, frames>>

ChildReads(k) ==
  /\ Alive(k, "waiting") /\ convs[k].down # <<>>
  /\ convs' = [convs EXCEPT ![k].down = Tail(@), ![k].child = "running"]
  /\ UNCHANGED <<target, postInit, conv, required, shown, answered, frames>>

\* exec() and sendCode().
ChildExits(k) ==
  /\ Alive(k, "running")
  /\ \E ok \in BOOLEAN : Send(k, [type |-> "exit", ok |-> ok], "ended")
  /\ UNCHANGED <<target, postInit, conv, required, shown, answered, frames>>

ChildDies(k) ==
  /\ PamFaults /\ convs[k].child \in {"running", "waiting"}
  /\ convs' = [convs EXCEPT ![k].child = "ended"]
  /\ UNCHANGED <<target, postInit, conv, required, shown, answered, frames>>

-----------------------------------------------------------------------------
Init ==
  /\ target = FALSE /\ postInit = FALSE /\ conv = NoConv
  /\ required = FALSE /\ shown = 0 /\ answered = FALSE
  /\ convs = [k \in Convs |-> NoConversation] /\ frames = <<>>

Qml  == Activate \/ Deactivate \/ Respond \/ ComponentComplete
Main == \/ Aborted \/ Started \/ MessageChanged \/ Emitted \/ Reaped
        \/ \E k \in Convs : OnRequest(k) \/ OnExit(k) \/ OnEof(k) \/ Delete(k)
Child(k) == ChildAsks(k) \/ ChildReads(k) \/ ChildExits(k)

Next == Qml \/ Main \/ \E k \in Convs : Child(k) \/ ChildDies(k)

Spec == Init /\ [][Next]_pamVars

-----------------------------------------------------------------------------
TypeOK ==
  /\ {target, postInit, required, answered} \subseteq BOOLEAN
  /\ conv \in Convs \cup {NoConv} /\ shown \in 0..MaxMessages
  /\ convs \in [Convs -> Conversation]
  /\ \A i \in DOMAIN frames : frames[i].at \in Points /\ frames[i].k \in Convs

\* No child outlives its conversation: when the main thread is idle a child that
\* was not waited for is the one its conversation, not yet deleted, would kill.
ChildrenAreOwned ==
  frames = <<>> =>
    \A k \in Convs : convs[k].child \in {"running", "waiting", "ended"}
                       => convs[k].pid /\ convs[k].st \in {"live", "doomed"}

\* `active' tells the truth: when the main thread is idle an active context has
\* a conversation with a child whose end it will hear of, and was asked to be
\* active, whatever failed and whoever restarted it from a handler.
ActiveHasChild ==
  frames = <<>> /\ postInit =>
    /\ target <=> conv # NoConv
    /\ conv # NoConv => convs[conv].pid /\ convs[conv].linked

\* respond(): an answer reaches the question the user saw when giving it.
AnswersMatch ==
  [][\A k \in Convs : Len(convs'[k].down) < Len(convs[k].down) /\ convs'[k].child = "running"
                       => Head(convs[k].down) = convs[k].sent]_pamVars

\* The end of a child, however it came about, ends the conversation.
EndIsNoticed ==
  \A k \in Convs : convs[k].child = "ended" ~> convs[k].child = "reaped" /\ conv # k
=============================================================================
