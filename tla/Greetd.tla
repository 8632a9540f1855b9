------------------------------- MODULE Greetd -------------------------------
(***************************************************************************)
(* GreetdConnection (src/src/services/greetd/connection.cpp): the client   *)
(* of the greetd login daemon.  Requests and replies are streams; a reply  *)
(* does not name its request, and "success" is read according to the state *)
(* the client is in when it arrives.  The daemon is external: what it      *)
(* answers is what the client's code expects of it.                        *)
(***************************************************************************)
EXTENDS Naturals, Sequences

CONSTANTS
  Leftover,     \* may the daemon already hold a session?
  MaxRequests   \* bound: requests and replies under way when the shell makes another

VARIABLES
  state,      \* mState
  target,     \* mTargetActive
  required,   \* mResponseRequired
  connected,  \* the socket
  requests,   \* to the daemon
  replies,    \* from the daemon
  session,    \* the daemon's session
  hurried     \* history: a session was created with replies still to come, with an
              \* old question on display, or with the daemon busy with another

greetdVars == <<state, target, required, connected, requests, replies, session, hurried>>
client == <<state, target, required, connected, hurried>>

Requests == {"create", "cancel", "answer", "start"}
Replies  == {"success", "auth_error", "error", "already", "question", "info"}

Awaiting == requests \o replies # <<>>
Room(n)  == Len(requests) + Len(replies) + n <= MaxRequests
Send(rs) == requests' = requests \o rs

-----------------------------------------------------------------------------
(* setActive(), and the requests the shell makes *)

Inactive == state' = "Inactive" /\ target' = FALSE /\ required' = FALSE

\* setActive(true) of a connected client with a user.
Begin == IF state = "Inactive"
         THEN state' = "Authenticating" /\ Send(<<"create">>) /\ hurried' = (hurried \/ Awaiting \/ required)
         ELSE UNCHANGED <<state, requests, hurried>>

CreateSession ==
  /\ Room(1)
  /\ target' = TRUE
  /\ IF connected THEN Begin ELSE UNCHANGED <<state, requests, hurried>>
  /\ UNCHANGED <<required, connected, replies, session>>

\* onSocketConnected().
Connect ==
  /\ ~connected
  /\ connected' = TRUE
  /\ IF target THEN Begin ELSE UNCHANGED <<state, requests, hurried>>
  /\ UNCHANGED <<target, required, replies, session>>

CancelSession ==
  /\ Room(1)
  /\ IF connected /\ state # "Inactive"
     THEN Send(<<"cancel">>) /\ Inactive
     ELSE target' = FALSE /\ UNCHANGED <<state, required, requests>>
  /\ UNCHANGED <<connected, replies, session, hurried>>

Respond ==
  /\ required /\ Room(1)
  /\ Send(<<"answer">>)
  /\ required' = FALSE
  /\ UNCHANGED <<state, target, connected, replies, session, hurried>>

Launch ==
  /\ state = "ReadyToLaunch" /\ Room(1)
  /\ state' = "Launching"
  /\ Send(<<"start">>)
  /\ UNCHANGED <<target, required, connected, replies, session, hurried>>

-----------------------------------------------------------------------------
(* onSocketReady(), one reply at a time *)

Receive(kind) == replies # <<>> /\ Head(replies) = kind /\ replies' = Tail(replies)

\* A success in another state is unexpected and ends the session.
OnSuccess ==
  /\ Receive("success")
  /\ CASE state = "Authenticating" -> state' = "ReadyToLaunch" /\ UNCHANGED <<target, required, requests>>
       [] state = "Launching" -> state' = "Launched" /\ UNCHANGED <<target, required, requests>>
       [] state = "Inactive" -> target' = FALSE /\ UNCHANGED <<state, required, requests>>
       [] state \in {"ReadyToLaunch", "Launched"} -> Send(<<"cancel">>) /\ Inactive
  /\ UNCHANGED <<connected, session, hurried>>

\* "A session is already being configured": it is cancelled and a new one created.
OnAlready ==
  /\ Receive("already")
  /\ Send(IF state = "Inactive" THEN <<"create">> ELSE <<"cancel", "create">>)
  /\ state' = "Authenticating" /\ target' = TRUE /\ required' = FALSE
  /\ UNCHANGED <<connected, session, hurried>>

\* Mutant: the failed session is not cancelled.
AuthErrorKept ==
  /\ Receive("auth_error")
  /\ Inactive
  /\ UNCHANGED <<connected, requests, session, hurried>>

OnAuthError ==
  /\ Receive("auth_error")
  /\ IF state # "Inactive" THEN Send(<<"cancel">>) ELSE UNCHANGED requests
  /\ Inactive
  /\ UNCHANGED <<connected, session, hurried>>

\* "errors terminate the session"
OnError ==
  /\ Receive("error")
  /\ Inactive
  /\ UNCHANGED <<connected, requests, session, hurried>>

OnQuestion ==
  /\ Receive("question")
  /\ required' = TRUE
  /\ UNCHANGED <<state, target, connected, requests, session, hurried>>

\* A message that wants no answer is acknowledged after the handlers of
\* authMessage(), one of which may cancel the session.
OnInfo ==
  /\ Receive("info")
  /\ \/ /\ Send(<<"answer">>)
        /\ required' = FALSE
        /\ UNCHANGED <<state, target>>
     \/ /\ state # "Inactive"
        /\ Send(<<"cancel", "answer">>)
        /\ Inactive
  /\ UNCHANGED <<connected, session, hurried>>

-----------------------------------------------------------------------------
(* The daemon *)

Handle(kind) == requests # <<>> /\ Head(requests) = kind /\ requests' = Tail(requests)
Reply(kind, next) == replies' = Append(replies, kind) /\ session' = next

Authenticate == \/ \E kind \in {"question", "info"} : Reply(kind, "asking")
                \/ Reply("success", "ready")
                \/ Reply("auth_error", "failed")

DaemonCreates == /\ Handle("create")
                 /\ IF session = "none" THEN Authenticate ELSE Reply("already", session)
                 /\ UNCHANGED client

DaemonGoesOn == /\ Handle("answer")
                /\ IF session = "asking" THEN Authenticate ELSE Reply("error", session)
                /\ UNCHANGED client

DaemonStarts == /\ Handle("start")
                /\ IF session = "ready" THEN Reply("success", "started") ELSE Reply("error", session)
                /\ UNCHANGED client

DaemonCancels == /\ Handle("cancel")
                 /\ Reply("success", "none")
                 /\ UNCHANGED client

-----------------------------------------------------------------------------
Init ==
  /\ state = "Inactive" /\ target = FALSE /\ required = FALSE /\ connected = FALSE
  /\ requests = <<>> /\ replies = <<>>
  /\ session \in {"none"} \cup (IF Leftover THEN {"asking"} ELSE {})
  /\ hurried = (session # "none")

Next ==
  \/ CreateSession \/ Connect \/ CancelSession \/ Respond \/ Launch
  \/ OnSuccess \/ OnAlready \/ OnAuthError \/ OnError \/ OnQuestion \/ OnInfo
  \/ DaemonCreates \/ DaemonGoesOn \/ DaemonStarts \/ DaemonCancels

Spec == Init /\ [][Next]_greetdVars

-----------------------------------------------------------------------------
TypeOK ==
  /\ state \in {"Inactive", "Authenticating", "ReadyToLaunch", "Launching", "Launched"}
  /\ {target, required, connected, hurried} \subseteq BOOLEAN
  /\ requests \in Seq(Requests) /\ replies \in Seq(Replies)
  /\ session \in {"none", "asking", "ready", "failed", "started"}

\* The shell is told that it may launch, and that it has launched, only when the
\* daemon's session is that far.
ReadyMeansAuthenticated ==
  /\ state \in {"ReadyToLaunch", "Launching"} => session \in {"ready", "started"}
  /\ state = "Launched" => session = "started"

\* So it is as long as the shell waits for the replies to what it has given up
\* before it creates a session.  With nothing under way the client and the daemon
\* then agree on how far the session is, and an unanswered question is one the
\* user was asked, however often sessions were cancelled and failed.
PatientShellIsRight ==
  ~hurried =>
    /\ ReadyMeansAuthenticated
    /\ connected /\ ~Awaiting =>
         /\ (state = "Inactive") <=> (session = "none")
         /\ state = "Authenticating" => session = "asking" /\ required
=============================================================================
