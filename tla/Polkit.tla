------------------------------- MODULE Polkit -------------------------------
(***************************************************************************)
(* PolkitAgentImpl, AuthFlow and Session (src/src/services/polkit): the    *)
(* authentication agent.  The polkit daemon hands in requests and may      *)
(* cancel them; each becomes a flow, which runs one session after another  *)
(* with polkit's helper until the user is authenticated or the request is  *)
(* cancelled.  A request and its flow go together and share a record.      *)
(***************************************************************************)
EXTENDS Naturals, Sequences

CONSTANTS
  AuthRequests, \* requests of the daemon
  NoFlow,       \* a null flow
  Nobody        \* the requests none of whose identities is supported

VARIABLES
  reqs,     \* AuthRequest and AuthFlow
  queue,    \* queuedRequests
  active,   \* bActiveFlow
  agent,    \* the PolkitAgentImpl exists
  usual     \* history: no request came while another was being handled, and no
            \* handler of authenticationFailed() cancelled

polkitVars == <<reqs, queue, active, agent, usual>>

\* answers: how often the daemon's task was returned.  session: the current one.
\* doomed: deleteLater() was called.
Request == [st : {"new", "queued", "flow", "freed"}, answers : 0..3,
            session : {"none", "running", "asking", "ended"}, required : BOOLEAN,
            completed : BOOLEAN, cancelled : BOOLEAN, failed : BOOLEAN, doomed : BOOLEAN]
NewRequest == [st |-> "new", answers |-> 0, session |-> "none", required |-> FALSE,
               completed |-> FALSE, cancelled |-> FALSE, failed |-> FALSE, doomed |-> FALSE]

Flow(r)   == reqs[r].st = "flow"
InSession(r) == Flow(r) /\ reqs[r].session \in {"running", "asking"}

-----------------------------------------------------------------------------
(* PolkitAgentImpl *)

\* AuthRequest::cancel() or complete(), and the deletion of a request without a flow.
Answer(rs, r)  == [rs EXCEPT ![r].answers = @ + 1]
Refused(rs, r) == [Answer(rs, r) EXCEPT ![r].st = "freed"]

\* activateAuthenticationRequest() of the queue q in the state rs: a request
\* nobody can answer is cancelled, and then nothing else is activated.
Activate(rs, q) ==
  /\ queue' = Tail(q)
  /\ IF Head(q) \in Nobody
     THEN reqs' = Refused(rs, Head(q)) /\ UNCHANGED active
     ELSE /\ reqs' = [rs EXCEPT ![Head(q)].st = "flow", ![Head(q)].session = "running"]
          /\ active' = Head(q)

\* initiateAuthentication(): a request alone in the queue is activated.
Initiate(r) ==
  /\ agent /\ reqs[r].st = "new"
  /\ LET q  == Append(queue, r)
         rs == [reqs EXCEPT ![r].st = "queued"]
     IN IF Len(q) = 1 THEN Activate(rs, q) ELSE reqs' = rs /\ queue' = q /\ UNCHANGED active
  /\ usual' = (usual /\ active = NoFlow)
  /\ UNCHANGED agent

\* Mutant: the flow is not given up.
FinishForgets(rs) ==
  IF active = NoFlow THEN reqs' = rs /\ UNCHANGED <<queue, active>>
  ELSE reqs' = [rs EXCEPT ![active].doomed = TRUE] /\ UNCHANGED <<queue, active>>

\* finishAuthenticationRequest(), which any flow's completion calls, gives up the
\* flow that is active.
Finish(rs) ==
  IF active = NoFlow THEN reqs' = rs /\ UNCHANGED <<queue, active>>
  ELSE LET doomed == [rs EXCEPT ![active].doomed = TRUE]
       IN IF queue # <<>> THEN Activate(doomed, queue)
          ELSE reqs' = doomed /\ active' = NoFlow /\ UNCHANGED queue

-----------------------------------------------------------------------------
(* AuthFlow *)

\* cancel() of a session that goes on completes it at once, and with it the
\* flow; then the daemon is answered.
CancelFlow(r) ==
  LET rs == [Answer(reqs, r) EXCEPT ![r].cancelled = TRUE]
  IN IF InSession(r)
     THEN Finish([rs EXCEPT ![r].session = "ended", ![r].completed = TRUE])
     ELSE reqs' = rs /\ UNCHANGED <<queue, active>>

\* cancelAuthentication(), for the daemon.
CancelFromAgent(r) ==
  /\ agent /\ reqs[r].st \in {"queued", "flow"} /\ reqs[r].answers = 0
  /\ CASE active = r -> CancelFlow(r)
       [] active # r /\ reqs[r].st = "queued" ->
            /\ reqs' = Refused(reqs, r)
            /\ queue' = SelectSeq(queue, LAMBDA q : q # r)
            /\ UNCHANGED active
       [] active # r /\ reqs[r].st = "flow" -> UNCHANGED <<reqs, queue, active>>
  /\ UNCHANGED <<agent, usual>>

\* cancelAuthenticationRequest(), for the user, who sees the active flow.
CancelByUser ==
  /\ active # NoFlow
  /\ CancelFlow(active)
  /\ UNCHANGED <<agent, usual>>

Submit ==
  /\ active # NoFlow /\ reqs[active].required
  /\ reqs' = [reqs EXCEPT ![active].required = FALSE,
                          ![active].session = IF @ = "asking" THEN "running" ELSE @]
  /\ UNCHANGED <<queue, active, agent, usual>>

\* setSelectedIdentity(): cancelling the session counts as a failure.
SelectIdentity ==
  /\ active # NoFlow
  /\ reqs' = [reqs EXCEPT ![active].failed = @ \/ InSession(active),
                          ![active].session = "running"]
  /\ UNCHANGED <<queue, active, agent, usual>>

\* request() of the session.
SessionAsks(r) ==
  /\ Flow(r) /\ reqs[r].session = "running"
  /\ reqs' = [reqs EXCEPT ![r].session = "asking", ![r].required = TRUE]
  /\ UNCHANGED <<queue, active, agent, usual>>

\* completed(true).
SessionGains(r) ==
  /\ Flow(r) /\ reqs[r].session = "running"
  /\ Finish([Answer(reqs, r) EXCEPT ![r].session = "ended", ![r].completed = TRUE])
  /\ UNCHANGED <<agent, usual>>

\* completed(false): a new session, unless the flow was cancelled.  A handler of
\* authenticationFailed() may cancel just before.
SessionFails(r) ==
  /\ InSession(r)
  /\ \/ /\ ~reqs[r].cancelled
        /\ reqs' = [reqs EXCEPT ![r].failed = TRUE, ![r].session = "running"]
        /\ UNCHANGED <<queue, active, usual>>
     \/ /\ ~reqs[r].cancelled /\ active = r
        /\ reqs' = [Answer(reqs, r) EXCEPT ![r].failed = TRUE, ![r].session = "running",
                                           ![r].cancelled = TRUE]
        /\ usual' = FALSE
        /\ UNCHANGED <<queue, active>>
     \/ /\ reqs[r].cancelled
        /\ Finish([reqs EXCEPT ![r].session = "ended", ![r].completed = TRUE])
        /\ UNCHANGED usual
  /\ UNCHANGED agent

\* The deferred deletion takes the request along.
DeleteFlow(r) ==
  /\ Flow(r) /\ reqs[r].doomed
  /\ reqs' = [reqs EXCEPT ![r].st = "freed", ![r].session = "none"]
  /\ UNCHANGED <<queue, active, agent, usual>>

\* ~PolkitAgentImpl, when the QML agent goes: cancelAllRequests().
AgentEnds ==
  /\ agent
  /\ agent' = FALSE
  /\ LET refused == [r \in AuthRequests |->
                       IF \E i \in DOMAIN queue : queue[i] = r
                       THEN [reqs[r] EXCEPT !.answers = @ + 1, !.st = "freed"] ELSE reqs[r]]
     IN reqs' = IF active = NoFlow THEN refused
                ELSE [Answer(refused, active) EXCEPT
                        ![active].cancelled = TRUE, ![active].doomed = TRUE,
                        ![active].completed = @ \/ InSession(active),
                        ![active].session = "ended"]
  /\ queue' = <<>> /\ active' = NoFlow
  /\ UNCHANGED usual

-----------------------------------------------------------------------------
Init ==
  /\ reqs = [r \in AuthRequests |-> NewRequest] /\ queue = <<>> /\ active = NoFlow
  /\ agent = TRUE /\ usual = TRUE

Next ==
  \/ \E r \in AuthRequests : \/ Initiate(r) \/ CancelFromAgent(r) \/ DeleteFlow(r)
                             \/ SessionAsks(r) \/ SessionGains(r) \/ SessionFails(r)
  \/ CancelByUser \/ Submit \/ SelectIdentity \/ AgentEnds

Spec == Init /\ [][Next]_polkitVars

-----------------------------------------------------------------------------
TypeOK ==
  /\ reqs \in [AuthRequests -> Request]
  /\ queue \in Seq(AuthRequests) /\ active \in AuthRequests \cup {NoFlow}
  /\ {agent, usual} \subseteq BOOLEAN

\* "Incoming authentication requests are queued ... Otherwise, it will wait until
\* prior requests are done": a flow in progress is the one the agent shows.
OneFlowAtATime ==
  \A r \in AuthRequests : Flow(r) /\ ~reqs[r].doomed => r = active

\* As long as requests do not overlap and failures are not answered by a
\* cancellation: no request is forgotten, the daemon gets one answer and no more
\* to each, and nothing is shown that was answered already.
EveryRequestIsAnswered ==
  usual => /\ OneFlowAtATime
           /\ \A r \in AuthRequests :
                /\ reqs[r].answers <= 1
                /\ reqs[r].st = "freed" \/ reqs[r].doomed => reqs[r].answers = 1
                /\ r = active => reqs[r].answers = 0
=============================================================================
