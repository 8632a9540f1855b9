---------------------------- MODULE ServicesProofs ----------------------------
(***************************************************************************)
(* Theorems about the clients of desktop services that ServicesMC          *)
(* explores, for every value of the constants.                             *)
(***************************************************************************)
EXTENDS ServicesMC, SequenceTheorems, FiniteSetTheorems, TLAPS

-----------------------------------------------------------------------------
(* The clients do not share state: each step of ServicesMC is a step of one, *)
(* or leaves it as it was.                                                   *)

LEMMA GreetdSteps == Spec => Greetd!Spec
<1>1. Init => Greetd!Init
  BY DEF Init
<1>2. [Next]_vars => [Greetd!Next]_(Greetd!greetdVars)
  BY DEF Next, vars, greetdVars, Greetd!greetdVars
<1> QED BY <1>1, <1>2, PTL DEF Spec, Greetd!Spec

LEMMA PolkitSteps == Spec => Polkit!Spec
<1>1. Init => Polkit!Init
  BY DEF Init
<1>2. [Next]_vars => [Polkit!Next]_(Polkit!polkitVars)
  BY DEF Next, vars, polkitVars, Polkit!polkitVars
<1> QED BY <1>1, <1>2, PTL DEF Spec, Polkit!Spec

LEMMA NoteSteps == Spec => Notes!Spec
<1>1. Init => Notes!Init
  BY DEF Init
<1>2. [Next]_vars => [Notes!Next]_(Notes!noteVars)
  BY DEF Next, vars, noteVars, Notes!noteVars
<1> QED BY <1>1, <1>2, PTL DEF Spec, Notes!Spec

-----------------------------------------------------------------------------
(* The client of the login daemon                                            *)

\* A session is under way for the shell: what is on its way between the client
\* and the daemon is one request or one reply, or nothing while the user is asked,
\* and it tells how far the session is.
NothingUnderWay == requests = <<>> /\ replies = <<>>
Asked(r)        == requests = <<r>> /\ replies = <<>>
Told(r)         == requests = <<>> /\ replies = <<r>>

Authenticates ==
  \/ required /\ NothingUnderWay /\ session = "asking"
  \/ ~required /\ Asked("create") /\ session = "none"
  \/ ~required /\ Asked("answer") /\ session = "asking"
  \/ ~required /\ (Told("question") \/ Told("info")) /\ session = "asking"
  \/ ~required /\ Told("success") /\ session = "ready"
  \/ ~required /\ Told("auth_error") /\ session = "failed"

OneStepAtATime ==
  /\ state = "Authenticating" => Authenticates
  /\ state = "ReadyToLaunch" => ~required /\ NothingUnderWay /\ session = "ready"
  /\ state = "Launching" => ~required /\ \/ Asked("start") /\ session = "ready"
                                         \/ Told("success") /\ session = "started"
  /\ state = "Launched" => ~required /\ NothingUnderWay /\ session = "started"

\* What was given up ends: the daemon's session s, if there is one, will be cancelled by
\* the requests q, and one it has not created yet right after it is created.
Ends(q, s) ==
  /\ s # "none" => \E i \in 1..Len(q) : q[i] = "cancel"
  /\ \A i \in 1..Len(q) : q[i] = "create" => i = 1 /\ s = "none" /\ Len(q) >= 2 /\ q[2] = "cancel"

GivenUpEnds == state = "Inactive" => Ends(requests, session)

\* The daemon is asked for a session when it has none.
NoneIsLeft == \A i \in 1..Len(replies) : replies[i] # "already"

GreetdType == /\ state \in {"Inactive", "Authenticating", "ReadyToLaunch", "Launching", "Launched"}
              /\ requests \in Seq(Greetd!Requests) /\ replies \in Seq(Greetd!Replies)

GreetdInv == /\ GreetdType
             /\ ~hurried => OneStepAtATime /\ GivenUpEnds /\ NoneIsLeft

-----------------------------------------------------------------------------
(* The streams *)

LEMMA OneMore ==
  ASSUME NEW S, NEW q \in Seq(S), NEW e \in S
  PROVE  /\ q \o <<e>> \in Seq(S)
         /\ Len(q \o <<e>>) = Len(q) + 1
         /\ \A i \in 1..Len(q) : (q \o <<e>>)[i] = q[i]
         /\ (q \o <<e>>)[Len(q) + 1] = e
         /\ q = <<>> => q \o <<e>> = <<e>>
<1>1. <<e>> \in Seq(S)
  OBVIOUS
<1>2. q \o <<e>> = Append(q, e)
  BY AppendIsConcat
<1>3. q = <<>> => q \o <<e>> = <<e>>
  BY <1>1, ConcatEmptySeq
<1> QED BY <1>2, <1>3, AppendProperties

LEMMA PairIsConcat ==
  ASSUME NEW e, NEW f
  PROVE  <<e>> \o <<f>> = <<e, f>>
<1> DEFINE S == {e, f}
           p == <<e>>
           q == <<f>>
           t == <<e, f>>
<1>1. p \in Seq(S) /\ q \in Seq(S) /\ t \in Seq(S)
  OBVIOUS
<1>2. Len(p) = 1 /\ Len(q) = 1 /\ Len(t) = 2 /\ p[1] = e /\ q[1] = f /\ t[1] = e /\ t[2] = f
  OBVIOUS
<1> HIDE DEF p, q, t, S
<1>3. Len(p \o q) = 2 /\ (p \o q)[1] = e /\ (p \o q)[2] = f /\ p \o q \in Seq(S)
  BY <1>1, <1>2, ConcatProperties
<1>4. \A i \in 1..2 : (p \o q)[i] = t[i]
  BY <1>2, <1>3
<1>5. p \o q = t
  BY <1>1, <1>2, <1>3, <1>4, SeqEqual
<1> QED BY <1>5 DEF p, q, t

LEMMA TwoMore ==
  ASSUME NEW S, NEW q \in Seq(S), NEW e \in S, NEW f \in S
  PROVE  /\ q \o <<e, f>> \in Seq(S)
         /\ q \o <<e, f>> = (q \o <<e>>) \o <<f>>
         /\ q = <<>> => q \o <<e, f>> = <<e, f>>
<1>1. <<e>> \in Seq(S) /\ <<f>> \in Seq(S) /\ <<e, f>> \in Seq(S)
  OBVIOUS
<1>2. <<e, f>> = <<e>> \o <<f>>
  BY PairIsConcat, Zenon
<1>3. q \o <<e, f>> = (q \o <<e>>) \o <<f>>
  BY <1>1, <1>2, ConcatAssociative
<1>4. q \o <<e, f>> \in Seq(S)
  BY <1>1, ConcatProperties
<1>5. q = <<>> => q \o <<e, f>> = <<e, f>>
  BY <1>1, ConcatEmptySeq
<1> QED BY <1>3, <1>4, <1>5

LEMMA EndsLater ==
  ASSUME NEW q \in Seq(Greetd!Requests), NEW s, Ends(q, s), NEW r \in Greetd!Requests, r # "create"
  PROVE  Ends(q \o <<r>>, s)
BY OneMore, LenProperties DEF Ends

LEMMA EndsWhenCancelled ==
  ASSUME NEW q \in Seq(Greetd!Requests), NEW s, Ends(q, s), q # <<>>, Head(q) = "cancel"
  PROVE  Ends(Tail(q), "none")
BY HeadTailProperties, LenProperties DEF Ends

LEMMA EndsAfterOther ==
  ASSUME NEW q \in Seq(Greetd!Requests), NEW s, NEW t, Ends(q, s), q # <<>>,
         Head(q) \in {"answer", "start"}, s = "none" => t = "none"
  PROVE  Ends(Tail(q), t)
<1>1. Head(q) = q[1] /\ Len(q) \in Nat /\ Len(q) > 0
  BY LenProperties, EmptySeq
<1>2. ASSUME NEW i \in 1..Len(q), q[i] = "cancel" PROVE i - 1 \in 1..Len(Tail(q)) /\ Tail(q)[i - 1] = "cancel"
  BY <1>1, <1>2, HeadTailProperties
<1>3. \A i \in 1..Len(Tail(q)) : Tail(q)[i] # "create"
  BY <1>1, HeadTailProperties DEF Ends
<1> QED BY <1>1, <1>2, <1>3 DEF Ends

LEMMA EndsAfterCreate ==
  ASSUME NEW q \in Seq(Greetd!Requests), NEW s, NEW t, Ends(q, s), q # <<>>, Head(q) = "create"
  PROVE  s = "none" /\ Ends(Tail(q), t)
<1>1. Head(q) = q[1] /\ Len(q) \in Nat /\ Len(q) > 0
  BY LenProperties, EmptySeq
<1>2. s = "none" /\ Len(q) >= 2 /\ q[2] = "cancel"
  BY <1>1 DEF Ends
<1>3. 1 \in 1..Len(Tail(q)) /\ Tail(q)[1] = "cancel"
  BY <1>1, <1>2, HeadTailProperties
<1>4. \A i \in 1..Len(Tail(q)) : Tail(q)[i] # "create"
  BY <1>1, HeadTailProperties DEF Ends
<1> QED BY <1>2, <1>3, <1>4 DEF Ends

LEMMA EndsAtOnce ==
  ASSUME NEW s
  PROVE  /\ Ends(<<"cancel">>, s)
         /\ Ends(<<"cancel", "answer">>, s)
         /\ \A r : (r = "create" => s = "none") => Ends(<<r, "cancel">>, s)
BY DEF Ends

LEMMA InitGreetdInv == Greetd!Init => GreetdInv
<1> SUFFICES ASSUME Greetd!Init PROVE GreetdInv
  OBVIOUS
<1>1. GreetdType
  BY EmptySeq DEF Greetd!Init, GreetdType
<1>2. ~hurried => session = "none"
  BY DEF Greetd!Init
<1>3. state = "Inactive" /\ Len(requests) = 0 /\ Len(replies) = 0
  BY EmptySeq DEF Greetd!Init
<1> QED BY <1>1, <1>2, <1>3 DEF GreetdInv, OneStepAtATime, GivenUpEnds, NoneIsLeft, Ends

LEMMA AloneInStream ==
  ASSUME NEW e
  PROVE  /\ <<e>> # <<>> /\ Head(<<e>>) = e /\ Tail(<<e>>) = <<>> /\ Len(<<e>>) = 1
         /\ Append(<<>>, e) = <<e>> /\ <<e>>[1] = e
OBVIOUS

-----------------------------------------------------------------------------
\* The steps of the client and of the daemon that another's order could disturb.

\* Begin, when the shell waits for the replies first.
LEMMA BeginKeeps ==
  ASSUME GreetdInv, Greetd!Begin, ~hurried', UNCHANGED <<required, replies, session>>
  PROVE  GreetdInv'
<1>1. CASE state # "Inactive"
  BY <1>1 DEF Greetd!Begin, GreetdInv, GreetdType, OneStepAtATime, GivenUpEnds, NoneIsLeft,
              Authenticates, NothingUnderWay, Asked, Told
<1>2. CASE state = "Inactive"
  <2>1. ~hurried /\ ~Greetd!Awaiting /\ ~required /\ state' = "Authenticating"
        /\ requests' = requests \o <<"create">>
    BY <1>2 DEF Greetd!Begin, Greetd!Send
  <2>2. requests = <<>> /\ replies = <<>>
    BY <2>1, ConcatEqualIffEmpty DEF Greetd!Awaiting, GreetdInv, GreetdType
  <2>3. session = "none"
    BY <1>2, <2>1, <2>2, EmptySeq DEF GreetdInv, GivenUpEnds, Ends
  <2>4. requests' = <<"create">> /\ requests' \in Seq(Greetd!Requests)
    BY <2>1, <2>2, OneMore, EmptySeq DEF Greetd!Requests
  <2> QED
    BY <2>1, <2>2, <2>3, <2>4 DEF GreetdInv, GreetdType, OneStepAtATime, GivenUpEnds, NoneIsLeft,
                                 Authenticates, Asked
<1> QED BY <1>1, <1>2

LEMMA CancelSessionKeeps ==
  ASSUME GreetdInv, Greetd!CancelSession
  PROVE  GreetdInv'
<1>1. CASE ~(connected /\ state # "Inactive")
  BY <1>1 DEF Greetd!CancelSession, GreetdInv, GreetdType, OneStepAtATime, GivenUpEnds, NoneIsLeft,
              Authenticates, NothingUnderWay, Asked, Told
<1>2. CASE connected /\ state # "Inactive"
  <2>1. requests' = requests \o <<"cancel">> /\ state' = "Inactive"
        /\ UNCHANGED <<replies, session, hurried>>
    BY <1>2 DEF Greetd!CancelSession, Greetd!Send, Greetd!Inactive
  <2>2. requests' \in Seq(Greetd!Requests)
    BY <2>1, OneMore DEF GreetdInv, GreetdType, Greetd!Requests
  <2>3. ASSUME ~hurried PROVE Ends(requests', session)
    <3>1. CASE requests = <<>>
      BY <2>1, <3>1, EndsAtOnce, OneMore, EmptySeq
    <3>2. ASSUME NEW r \in Greetd!Requests, requests = <<r>>, r = "create" => session = "none"
          PROVE Ends(requests', session)
      <4>1. requests' = <<r, "cancel">>
        BY <2>1, <3>2, PairIsConcat, Zenon
      <4> QED BY <3>2, <4>1, EndsAtOnce
    <3>3. \/ requests = <<>>
          \/ requests = <<"create">> /\ session = "none"
          \/ requests = <<"answer">> \/ requests = <<"start">>
      BY <1>2, <2>3 DEF GreetdInv, GreetdType, OneStepAtATime, Authenticates, NothingUnderWay, Asked, Told
    <3> QED
      BY <3>1, <3>2, <3>3 DEF Greetd!Requests
  <2> QED
    BY <2>1, <2>2, <2>3 DEF GreetdInv, GreetdType, OneStepAtATime, GivenUpEnds, NoneIsLeft
<1> QED BY <1>1, <1>2

LEMMA RespondKeeps ==
  ASSUME GreetdInv, Greetd!Respond
  PROVE  GreetdInv'
<1>1. required /\ ~required' /\ requests' = requests \o <<"answer">>
      /\ UNCHANGED <<state, replies, session, hurried>>
  BY DEF Greetd!Respond, Greetd!Send
<1>2. requests' \in Seq(Greetd!Requests) /\ (requests = <<>> => requests' = <<"answer">>)
  BY <1>1, OneMore DEF GreetdInv, GreetdType, Greetd!Requests
<1>3. ASSUME ~hurried PROVE OneStepAtATime'
  BY <1>1, <1>2, <1>3 DEF GreetdInv, OneStepAtATime, Authenticates, NothingUnderWay, Asked, Told
<1>4. ASSUME ~hurried PROVE GivenUpEnds'
  BY <1>1, <1>4, EndsLater DEF GreetdInv, GreetdType, GivenUpEnds, Greetd!Requests
<1> QED BY <1>1, <1>2, <1>3, <1>4 DEF GreetdInv, GreetdType, NoneIsLeft

LEMMA LaunchKeeps ==
  ASSUME GreetdInv, Greetd!Launch
  PROVE  GreetdInv'
<1>1. state = "ReadyToLaunch" /\ state' = "Launching" /\ requests' = requests \o <<"start">>
      /\ UNCHANGED <<required, replies, session, hurried>>
  BY DEF Greetd!Launch, Greetd!Send
<1>2. requests' \in Seq(Greetd!Requests) /\ (requests = <<>> => requests' = <<"start">>)
  BY <1>1, OneMore DEF GreetdInv, GreetdType, Greetd!Requests
<1> QED BY <1>1, <1>2 DEF GreetdInv, GreetdType, OneStepAtATime, NothingUnderWay, Asked, GivenUpEnds,
                         NoneIsLeft

-----------------------------------------------------------------------------
\* The client takes a reply.
LEMMA ReceiveTakes ==
  ASSUME GreetdType, NEW kind, Greetd!Receive(kind)
  PROVE  /\ replies' \in Seq(Greetd!Replies) /\ replies # <<>>
         /\ NoneIsLeft => NoneIsLeft' /\ kind # "already"
         /\ \A r : replies = <<r>> => kind = r /\ replies' = <<>>
<1>1. replies \in Seq(Greetd!Replies) /\ replies # <<>> /\ kind = Head(replies) /\ replies' = Tail(replies)
  BY DEF GreetdType, Greetd!Receive
<1>2. Len(replies) \in Nat /\ Len(replies) > 0 /\ kind = replies[1]
  BY <1>1, LenProperties, EmptySeq
<1>3. ASSUME NoneIsLeft PROVE NoneIsLeft' /\ kind # "already"
  BY <1>1, <1>2, <1>3, HeadTailProperties DEF NoneIsLeft
<1>4. ASSUME NEW r, replies = <<r>> PROVE kind = r /\ replies' = <<>>
  BY <1>1, <1>4, AloneInStream
<1> QED BY <1>1, <1>3, <1>4, HeadTailProperties

LEMMA OnSuccessKeeps ==
  ASSUME GreetdInv, Greetd!OnSuccess
  PROVE  GreetdInv'
<1> USE DEF GreetdInv
<1>1. Greetd!Receive("success") /\ UNCHANGED <<session, hurried>>
  BY DEF Greetd!OnSuccess
<1>2. /\ replies' \in Seq(Greetd!Replies) /\ replies # <<>> /\ (NoneIsLeft => NoneIsLeft')
      /\ \A r : replies = <<r>> => r = "success" /\ replies' = <<>>
  BY <1>1, ReceiveTakes
<1>3. CASE state = "Authenticating"
  <2>1. state' = "ReadyToLaunch" /\ UNCHANGED <<required, requests>>
    BY <1>3 DEF Greetd!OnSuccess
  <2>2. ~hurried => ~required /\ Told("success") /\ session = "ready"
    BY <1>2, <1>3 DEF OneStepAtATime, Authenticates, NothingUnderWay, Asked, Told
  <2> QED
    BY <1>1, <1>2, <2>1, <2>2 DEF GreetdType, OneStepAtATime, NothingUnderWay, Told, GivenUpEnds
<1>4. CASE state = "Launching"
  <2>1. state' = "Launched" /\ UNCHANGED <<required, requests>>
    BY <1>4 DEF Greetd!OnSuccess
  <2>2. ~hurried => ~required /\ Told("success") /\ session = "started"
    BY <1>2, <1>4 DEF OneStepAtATime, NothingUnderWay, Asked, Told
  <2> QED
    BY <1>1, <1>2, <2>1, <2>2 DEF GreetdType, OneStepAtATime, NothingUnderWay, Told, GivenUpEnds
<1>5. CASE state = "Inactive"
  <2>1. UNCHANGED <<state, requests>>
    BY <1>5 DEF Greetd!OnSuccess
  <2> QED
    BY <1>1, <1>2, <1>5, <2>1 DEF GreetdType, OneStepAtATime, GivenUpEnds
<1>6. CASE state \in {"ReadyToLaunch", "Launched"}
  <2>1. requests' = requests \o <<"cancel">>
    BY <1>6 DEF Greetd!OnSuccess, Greetd!Send
  <2>2. state' = "Inactive"
    BY <1>6 DEF Greetd!OnSuccess, Greetd!Inactive
  <2>3. requests' \in Seq(Greetd!Requests)
    BY <2>1, OneMore DEF GreetdType, Greetd!Requests
  <2>4. hurried
    BY <1>2, <1>6 DEF OneStepAtATime, NothingUnderWay
  <2> QED
    BY <1>1, <1>2, <2>2, <2>3, <2>4 DEF GreetdType
<1> QED BY <1>3, <1>4, <1>5, <1>6 DEF GreetdType

LEMMA OnAlreadyKeeps ==
  ASSUME GreetdInv, Greetd!OnAlready
  PROVE  GreetdInv'
<1> USE DEF GreetdInv
<1>1. Greetd!Receive("already") /\ state' = "Authenticating" /\ UNCHANGED hurried
  BY DEF Greetd!OnAlready
<1>2. replies' \in Seq(Greetd!Replies) /\ hurried
  BY <1>1, ReceiveTakes
<1>3. requests' = requests \o <<"create">> \/ requests' = requests \o <<"cancel", "create">>
  BY DEF Greetd!OnAlready, Greetd!Send
<1>4. requests' \in Seq(Greetd!Requests)
  <2>1. "cancel" \in Greetd!Requests /\ "create" \in Greetd!Requests /\ requests \in Seq(Greetd!Requests)
    BY DEF GreetdType, Greetd!Requests
  <2> QED BY <1>3, <2>1, OneMore, TwoMore, Zenon
<1> QED BY <1>1, <1>2, <1>4 DEF GreetdType

LEMMA OnAuthErrorKeeps ==
  ASSUME GreetdInv, Greetd!OnAuthError
  PROVE  GreetdInv'
<1> USE DEF GreetdInv
<1>1. Greetd!Receive("auth_error") /\ state' = "Inactive" /\ UNCHANGED <<session, hurried>>
  BY DEF Greetd!OnAuthError, Greetd!Inactive
<1>2. requests' = IF state # "Inactive" THEN requests \o <<"cancel">> ELSE requests
  BY DEF Greetd!OnAuthError, Greetd!Send
<1>3. /\ replies' \in Seq(Greetd!Replies) /\ replies # <<>> /\ (NoneIsLeft => NoneIsLeft')
      /\ \A r : replies = <<r>> => r = "auth_error" /\ replies' = <<>>
  BY <1>1, ReceiveTakes
<1>4. requests' \in Seq(Greetd!Requests) /\ (requests = <<>> /\ state # "Inactive" => requests' = <<"cancel">>)
  <2>1. /\ requests \in Seq(Greetd!Requests) /\ requests \o <<"cancel">> \in Seq(Greetd!Requests)
        /\ requests = <<>> => requests \o <<"cancel">> = <<"cancel">>
    BY OneMore DEF GreetdType, Greetd!Requests
  <2> QED BY <1>2, <2>1
<1>5. ASSUME ~hurried, state # "Inactive" PROVE requests = <<>>
  BY <1>3, <1>5 DEF GreetdType, OneStepAtATime, Authenticates, NothingUnderWay, Asked, Told
<1>6. ASSUME ~hurried PROVE Ends(requests', session')
  BY <1>1, <1>2, <1>4, <1>5, <1>6, EndsAtOnce DEF GivenUpEnds
<1> QED BY <1>1, <1>3, <1>4, <1>6 DEF GreetdType, OneStepAtATime, GivenUpEnds

LEMMA OnErrorKeeps ==
  ASSUME GreetdInv, Greetd!OnError
  PROVE  GreetdInv'
<1> USE DEF GreetdInv
<1>1. Greetd!Receive("error") /\ state' = "Inactive" /\ UNCHANGED <<requests, session, hurried>>
  BY DEF Greetd!OnError, Greetd!Inactive
<1>2. /\ replies' \in Seq(Greetd!Replies) /\ replies # <<>> /\ (NoneIsLeft => NoneIsLeft')
      /\ \A r : replies = <<r>> => r = "error"
  BY <1>1, ReceiveTakes
<1>3. ~hurried => state = "Inactive"
  BY <1>2 DEF GreetdType, OneStepAtATime, Authenticates, NothingUnderWay, Asked, Told
<1> QED BY <1>1, <1>2, <1>3 DEF GreetdType, OneStepAtATime, GivenUpEnds

LEMMA OnQuestionKeeps ==
  ASSUME GreetdInv, Greetd!OnQuestion
  PROVE  GreetdInv'
<1> USE DEF GreetdInv
<1>1. Greetd!Receive("question") /\ required' = TRUE /\ UNCHANGED <<state, requests, session, hurried>>
  BY DEF Greetd!OnQuestion
<1>2. /\ replies' \in Seq(Greetd!Replies) /\ replies # <<>> /\ (NoneIsLeft => NoneIsLeft')
      /\ \A r : replies = <<r>> => r = "question" /\ replies' = <<>>
  BY <1>1, ReceiveTakes
<1>3. ~hurried => OneStepAtATime'
  BY <1>1, <1>2 DEF OneStepAtATime, Authenticates, NothingUnderWay, Asked, Told
<1> QED BY <1>1, <1>2, <1>3 DEF GreetdType, GivenUpEnds

LEMMA OnInfoKeeps ==
  ASSUME GreetdInv, Greetd!OnInfo
  PROVE  GreetdInv'
<1> USE DEF GreetdInv
<1>1. Greetd!Receive("info") /\ UNCHANGED <<session, hurried>>
  BY DEF Greetd!OnInfo
<1>2. /\ replies' \in Seq(Greetd!Replies) /\ replies # <<>> /\ (NoneIsLeft => NoneIsLeft')
      /\ \A r : replies = <<r>> => r = "info" /\ replies' = <<>>
  BY <1>1, ReceiveTakes
<1>3. ASSUME ~hurried, state # "Inactive"
      PROVE  state = "Authenticating" /\ requests = <<>> /\ session = "asking" /\ replies' = <<>>
  BY <1>2, <1>3 DEF GreetdType, OneStepAtATime, Authenticates, NothingUnderWay, Asked, Told
<1>4. CASE required' = FALSE /\ requests' = requests \o <<"answer">> /\ state' = state
  <2>1. requests' \in Seq(Greetd!Requests) /\ (requests = <<>> => requests' = <<"answer">>)
    BY <1>4, OneMore DEF GreetdType, Greetd!Requests
  <2>2. ASSUME ~hurried, state = "Inactive" PROVE Ends(requests', session')
    BY <1>1, <1>4, <2>2, EndsLater DEF GreetdType, GivenUpEnds, Greetd!Requests
  <2>3. ASSUME ~hurried PROVE OneStepAtATime'
    BY <1>1, <1>3, <1>4, <2>1, <2>3 DEF OneStepAtATime, Authenticates, Asked
  <2> QED
    BY <1>1, <1>2, <1>4, <2>1, <2>2, <2>3 DEF GreetdType, GivenUpEnds
<1>5. CASE state # "Inactive" /\ requests' = requests \o <<"cancel", "answer">> /\ state' = "Inactive"
  <2>1. requests' \in Seq(Greetd!Requests) /\ (requests = <<>> => requests' = <<"cancel", "answer">>)
    <3>1. "cancel" \in Greetd!Requests /\ "answer" \in Greetd!Requests /\ requests \in Seq(Greetd!Requests)
      BY DEF GreetdType, Greetd!Requests
    <3>2. ASSUME NEW e \in Greetd!Requests, NEW f \in Greetd!Requests
          PROVE  /\ requests \o <<e, f>> \in Seq(Greetd!Requests)
                 /\ requests = <<>> => requests \o <<e, f>> = <<e, f>>
      <4>1. <<e, f>> \in Seq(Greetd!Requests)
        BY <3>2
      <4> QED BY <3>1, <4>1, ConcatProperties, ConcatEmptySeq
    <3> QED BY <1>5, <3>1, <3>2
  <2>2. ~hurried => Ends(requests', session')
    BY <1>3, <1>5, <2>1, EndsAtOnce
  <2> QED
    BY <1>1, <1>2, <1>5, <2>1, <2>2 DEF GreetdType, GivenUpEnds, OneStepAtATime
<1> QED BY <1>4, <1>5 DEF Greetd!OnInfo, Greetd!Send, Greetd!Inactive

-----------------------------------------------------------------------------
\* The daemon takes a request and replies.
LEMMA HandleTakes ==
  ASSUME GreetdType, NEW kind, Greetd!Handle(kind)
  PROVE  /\ requests' \in Seq(Greetd!Requests) /\ requests # <<>> /\ kind = Head(requests)
         /\ requests' = Tail(requests)
         /\ \A r : requests = <<r>> => kind = r /\ requests' = <<>>
<1>1. requests \in Seq(Greetd!Requests) /\ requests # <<>> /\ kind = Head(requests) /\ requests' = Tail(requests)
  BY DEF GreetdType, Greetd!Handle
<1>2. ASSUME NEW r, requests = <<r>> PROVE kind = r /\ requests' = <<>>
  BY <1>1, <1>2, AloneInStream
<1> QED BY <1>1, <1>2, HeadTailProperties

LEMMA ReplyAdds ==
  ASSUME GreetdType, NEW kind \in Greetd!Replies, replies' = Append(replies, kind)
  PROVE  /\ replies' \in Seq(Greetd!Replies)
         /\ replies = <<>> => replies' = <<kind>>
         /\ NoneIsLeft /\ kind # "already" => NoneIsLeft'
<1>1. replies' \in Seq(Greetd!Replies) /\ Len(replies') = Len(replies) + 1 /\ replies'[Len(replies) + 1] = kind
      /\ \A i \in 1..Len(replies) : replies'[i] = replies[i]
  BY AppendProperties DEF GreetdType
<1>2. Len(replies) \in Nat
  BY LenProperties DEF GreetdType
<1>3. replies = <<>> => replies' = <<kind>>
  BY AloneInStream
<1> QED BY <1>1, <1>2, <1>3 DEF NoneIsLeft

LEMMA AuthenticateSays ==
  ASSUME Greetd!Authenticate
  PROVE  \/ replies' = Append(replies, "question") /\ session' = "asking"
         \/ replies' = Append(replies, "info") /\ session' = "asking"
         \/ replies' = Append(replies, "success") /\ session' = "ready"
         \/ replies' = Append(replies, "auth_error") /\ session' = "failed"
BY DEF Greetd!Authenticate, Greetd!Reply

\* What a request in turn becomes, given that the session will be as it says.
LEMMA AuthenticateKeeps ==
  ASSUME GreetdInv, NEW kind \in {"create", "answer"}, Greetd!Handle(kind), Greetd!Authenticate,
         UNCHANGED Greetd!client,
         ~hurried /\ state = "Inactive" => Ends(requests', session')
  PROVE  GreetdInv'
<1> USE DEF GreetdInv
<1>1. /\ requests' \in Seq(Greetd!Requests) /\ requests # <<>>
      /\ \A r : requests = <<r>> => kind = r /\ requests' = <<>>
  BY HandleTakes
<1>2. UNCHANGED <<state, required, hurried>>
  BY DEF Greetd!client
<1>3. ASSUME NEW said \in {"question", "info", "success", "auth_error"}, replies' = Append(replies, said)
      PROVE  /\ replies' \in Seq(Greetd!Replies) /\ (replies = <<>> => replies' = <<said>>)
             /\ NoneIsLeft => NoneIsLeft'
  <2>1. said \in Greetd!Replies /\ said # "already"
    BY DEF Greetd!Replies
  <2> QED BY <1>3, <2>1, ReplyAdds
<1>4. replies' \in Seq(Greetd!Replies) /\ (NoneIsLeft => NoneIsLeft')
  BY <1>3, AuthenticateSays
<1>5. ASSUME ~hurried, state # "Inactive"
      PROVE  state = "Authenticating" /\ ~required /\ replies = <<>> /\ requests' = <<>>
  BY <1>1, <1>5 DEF GreetdType, OneStepAtATime, Authenticates, NothingUnderWay, Asked, Told
<1>6. ~hurried => OneStepAtATime'
  BY <1>2, <1>3, <1>5, AuthenticateSays DEF OneStepAtATime, Authenticates, Told
<1> QED BY <1>1, <1>2, <1>4, <1>6 DEF GreetdType, GivenUpEnds

LEMMA DaemonCreatesKeeps ==
  ASSUME GreetdInv, Greetd!DaemonCreates
  PROVE  GreetdInv'
<1> USE DEF GreetdInv
<1>1. Greetd!Handle("create") /\ UNCHANGED Greetd!client /\ UNCHANGED <<state, required, hurried>>
  BY DEF Greetd!DaemonCreates, Greetd!client
<1>2. /\ requests \in Seq(Greetd!Requests) /\ requests' \in Seq(Greetd!Requests) /\ requests # <<>>
      /\ Head(requests) = "create" /\ requests' = Tail(requests)
      /\ \A r : requests = <<r>> => r = "create"
  BY <1>1, HandleTakes DEF GreetdType
<1>3. ASSUME ~hurried, state = "Inactive" PROVE session = "none" /\ Ends(requests', session')
  BY <1>2, <1>3, EndsAfterCreate DEF GivenUpEnds
<1>4. CASE session = "none"
  <2>1. Greetd!Authenticate
    BY <1>4 DEF Greetd!DaemonCreates
  <2> QED BY <1>1, <1>3, <2>1, AuthenticateKeeps
<1>5. CASE session # "none"
  <2>1. replies' = Append(replies, "already")
    BY <1>5 DEF Greetd!DaemonCreates, Greetd!Reply
  <2>2. replies' \in Seq(Greetd!Replies)
    BY <2>1, ReplyAdds DEF Greetd!Replies
  <2>3. hurried
    BY <1>2, <1>3, <1>5 DEF GreetdType, OneStepAtATime, Authenticates, NothingUnderWay, Asked, Told
  <2> QED BY <1>1, <1>2, <2>2, <2>3 DEF GreetdType
<1> QED BY <1>4, <1>5

LEMMA DaemonGoesOnKeeps ==
  ASSUME GreetdInv, Greetd!DaemonGoesOn
  PROVE  GreetdInv'
<1> USE DEF GreetdInv
<1>1. Greetd!Handle("answer") /\ UNCHANGED Greetd!client /\ UNCHANGED <<state, required, hurried>>
  BY DEF Greetd!DaemonGoesOn, Greetd!client
<1>2. /\ requests \in Seq(Greetd!Requests) /\ requests' \in Seq(Greetd!Requests) /\ requests # <<>>
      /\ Head(requests) = "answer" /\ requests' = Tail(requests)
      /\ \A r : requests = <<r>> => r = "answer"
  BY <1>1, HandleTakes DEF GreetdType
<1>3. CASE session = "asking"
  <2>1. Greetd!Authenticate
    BY <1>3 DEF Greetd!DaemonGoesOn
  <2>2. ~hurried /\ state = "Inactive" => Ends(requests', session')
    BY <1>2, <1>3, EndsAfterOther DEF GivenUpEnds
  <2> QED BY <1>1, <2>1, <2>2, AuthenticateKeeps
<1>4. CASE session # "asking"
  <2>1. replies' = Append(replies, "error") /\ session' = session
    BY <1>4 DEF Greetd!DaemonGoesOn, Greetd!Reply
  <2>2. replies' \in Seq(Greetd!Replies) /\ (NoneIsLeft => NoneIsLeft')
    BY <2>1, ReplyAdds DEF Greetd!Replies
  <2>3. ASSUME ~hurried, state = "Inactive" PROVE Ends(requests', session')
    BY <1>2, <2>1, <2>3, EndsAfterOther DEF GivenUpEnds
  <2>4. ~hurried => state = "Inactive"
    BY <1>2, <1>4 DEF GreetdType, OneStepAtATime, Authenticates, NothingUnderWay, Asked, Told
  <2> QED BY <1>1, <1>2, <2>2, <2>3, <2>4 DEF GreetdType, GivenUpEnds, OneStepAtATime
<1> QED BY <1>3, <1>4

LEMMA DaemonStartsKeeps ==
  ASSUME GreetdInv, Greetd!DaemonStarts
  PROVE  GreetdInv'
<1> USE DEF GreetdInv
<1>1. Greetd!Handle("start") /\ UNCHANGED <<state, required, hurried>>
  BY DEF Greetd!DaemonStarts, Greetd!client
<1>2. /\ requests \in Seq(Greetd!Requests) /\ requests' \in Seq(Greetd!Requests) /\ requests # <<>>
      /\ Head(requests) = "start" /\ requests' = Tail(requests)
      /\ \A r : requests = <<r>> => r = "start" /\ requests' = <<>>
  BY <1>1, HandleTakes DEF GreetdType
<1>3. PICK said \in {"success", "error"} :
        /\ replies' = Append(replies, said)
        /\ session = "ready" => said = "success" /\ session' = "started"
        /\ session # "ready" => session' = session
  BY DEF Greetd!DaemonStarts, Greetd!Reply
<1>4. /\ replies' \in Seq(Greetd!Replies) /\ (replies = <<>> => replies' = <<said>>)
      /\ NoneIsLeft => NoneIsLeft'
  BY <1>3, ReplyAdds DEF Greetd!Replies
<1>5. ASSUME ~hurried, state = "Inactive" PROVE Ends(requests', session')
  BY <1>2, <1>3, <1>5, EndsAfterOther DEF GivenUpEnds
<1>6. ASSUME ~hurried, state # "Inactive"
      PROVE  /\ state = "Launching" /\ ~required /\ Told("success")' /\ session' = "started"
  BY <1>2, <1>3, <1>4, <1>6 DEF GreetdType, OneStepAtATime, Authenticates, NothingUnderWay, Asked, Told
<1> QED BY <1>1, <1>2, <1>4, <1>5, <1>6 DEF GreetdType, GivenUpEnds, OneStepAtATime

LEMMA DaemonCancelsKeeps ==
  ASSUME GreetdInv, Greetd!DaemonCancels
  PROVE  GreetdInv'
<1> USE DEF GreetdInv
<1>1. Greetd!Handle("cancel") /\ replies' = Append(replies, "success") /\ session' = "none"
      /\ UNCHANGED <<state, required, hurried>>
  BY DEF Greetd!DaemonCancels, Greetd!Reply, Greetd!client
<1>2. /\ requests \in Seq(Greetd!Requests) /\ requests' \in Seq(Greetd!Requests) /\ requests # <<>>
      /\ Head(requests) = "cancel" /\ requests' = Tail(requests)
      /\ \A r : requests = <<r>> => r = "cancel"
  BY <1>1, HandleTakes DEF GreetdType
<1>3. replies' \in Seq(Greetd!Replies) /\ (NoneIsLeft => NoneIsLeft')
  BY <1>1, ReplyAdds DEF Greetd!Replies
<1>4. ASSUME ~hurried, state = "Inactive" PROVE Ends(requests', session')
  BY <1>1, <1>2, <1>4, EndsWhenCancelled DEF GivenUpEnds
<1>5. ~hurried => state = "Inactive"
  BY <1>2 DEF GreetdType, OneStepAtATime, Authenticates, NothingUnderWay, Asked, Told
<1> QED BY <1>1, <1>2, <1>3, <1>4, <1>5 DEF GreetdType, GivenUpEnds, OneStepAtATime

LEMMA NextGreetdInv == GreetdInv /\ [Greetd!Next]_(Greetd!greetdVars) => GreetdInv'
<1> SUFFICES ASSUME GreetdInv, [Greetd!Next]_(Greetd!greetdVars) PROVE GreetdInv'
  OBVIOUS
<1>1. CASE Greetd!CreateSession \/ Greetd!Connect
  <2>1. UNCHANGED <<required, replies, session>>
    BY <1>1 DEF Greetd!CreateSession, Greetd!Connect
  <2>2. CASE Greetd!Begin /\ ~hurried'
    BY <2>1, <2>2, BeginKeeps
  <2>3. CASE UNCHANGED <<state, requests, hurried>>
    BY <2>1, <2>3 DEF GreetdInv, GreetdType, OneStepAtATime, GivenUpEnds, NoneIsLeft, Authenticates,
                      NothingUnderWay, Asked, Told
  <2>4. CASE Greetd!Begin /\ hurried'
    <3>1. \/ state' = "Authenticating" /\ requests' = requests \o <<"create">>
          \/ UNCHANGED <<state, requests>>
      BY <2>4 DEF Greetd!Begin, Greetd!Send
    <3>2. requests' \in Seq(Greetd!Requests)
      BY <3>1, OneMore DEF GreetdInv, GreetdType, Greetd!Requests
    <3> QED BY <2>1, <2>4, <3>1, <3>2 DEF GreetdInv, GreetdType
  <2> QED BY <1>1, <2>2, <2>3, <2>4 DEF Greetd!CreateSession, Greetd!Connect
<1>2. CASE UNCHANGED Greetd!greetdVars
  BY <1>2 DEF Greetd!greetdVars, GreetdInv, GreetdType, OneStepAtATime, GivenUpEnds, NoneIsLeft,
              Authenticates, NothingUnderWay, Asked, Told
<1> QED
  BY <1>1, <1>2, CancelSessionKeeps, RespondKeeps, LaunchKeeps, OnSuccessKeeps, OnAlreadyKeeps,
     OnAuthErrorKeeps, OnErrorKeeps, OnQuestionKeeps, OnInfoKeeps, DaemonCreatesKeeps,
     DaemonGoesOnKeeps, DaemonStartsKeeps, DaemonCancelsKeeps DEF Greetd!Next

\* A shell that waits for the replies to what it has given up before it creates a session
\* is told that it may launch, and that it has launched, only when the daemon's session is
\* that far, and agrees with the daemon when nothing is under way; whatever failed or was
\* cancelled before (GreetdConnection).
THEOREM PatientShellIsToldTheTruth == Spec => []PatientShellIsRight
<1>1. GreetdInv => PatientShellIsRight
  <2> SUFFICES ASSUME GreetdInv, ~hurried
               PROVE  /\ Greetd!ReadyMeansAuthenticated
                      /\ ~Greetd!Awaiting => /\ (state = "Inactive") <=> (session = "none")
                                             /\ state = "Authenticating" => session = "asking" /\ required
    BY DEF PatientShellIsRight, Greetd!PatientShellIsRight
  <2>1. Greetd!ReadyMeansAuthenticated
    BY DEF Greetd!ReadyMeansAuthenticated, GreetdInv, OneStepAtATime
  <2>2. ASSUME ~Greetd!Awaiting PROVE requests = <<>> /\ replies = <<>>
    BY <2>2, ConcatEqualIffEmpty DEF Greetd!Awaiting, GreetdInv, GreetdType
  <2>3. ASSUME requests = <<>>, state = "Inactive" PROVE session = "none"
    BY <2>3, EmptySeq DEF GreetdInv, GivenUpEnds, Ends
  <2>4. ASSUME NothingUnderWay, state # "Inactive"
        PROVE  session # "none" /\ (state = "Authenticating" => session = "asking" /\ required)
    BY <2>4 DEF GreetdInv, GreetdType, OneStepAtATime, Authenticates, NothingUnderWay, Asked, Told
  <2> QED BY <2>1, <2>2, <2>3, <2>4 DEF NothingUnderWay
<1> QED BY <1>1, InitGreetdInv, NextGreetdInv, GreetdSteps, PTL DEF Greetd!Spec

-----------------------------------------------------------------------------
(* The authentication agent                                                  *)

\* In the plain case nothing waits in the queue: a request is answered at once, or its flow
\* is the active one and in session until it is answered, and then only waits to be deleted.
InProgress(q) == /\ q.st = "flow" /\ q.session \in {"running", "asking"}
                 /\ q.answers = 0 /\ ~q.doomed /\ ~q.cancelled
Finished(q)   == /\ q.answers = 1
                 /\ \/ q.st = "flow" /\ q.doomed /\ q.session = "ended"
                    \/ q.st = "freed"
Fresh(q)      == q.st = "new" /\ q.answers = 0 /\ ~q.doomed /\ ~q.cancelled

AnyRequest == [st : {"new", "queued", "flow", "freed"}, answers : Nat,
               session : {"none", "running", "asking", "ended"}, required : BOOLEAN,
               completed : BOOLEAN, cancelled : BOOLEAN, failed : BOOLEAN, doomed : BOOLEAN]

PolkitInv ==
  usual => /\ reqs \in [AuthRequests -> AnyRequest]
           /\ queue = <<>> /\ active \in AuthRequests \cup {NoFlow}
           /\ \A r \in AuthRequests : IF r = active THEN InProgress(reqs[r])
                                                    ELSE Fresh(reqs[r]) \/ Finished(reqs[r])

-----------------------------------------------------------------------------
LEMMA InitPolkitInv == Polkit!Init => PolkitInv
BY NullIsNoFlow DEF Polkit!Init, PolkitInv, AnyRequest, Polkit!NewRequest, InProgress, Fresh

LEMMA RefusedIsFinished ==
  ASSUME NEW q \in AnyRequest, NEW new, new = [q EXCEPT !.answers = 1, !.st = "freed"]
  PROVE  new \in AnyRequest /\ Finished(new)
BY DEF AnyRequest, Finished

LEMMA CancelledIsAnswered ==
  ASSUME NEW q \in AnyRequest, NEW new,
         new = [q EXCEPT !.answers = 1, !.cancelled = TRUE, !.session = "ended", !.completed = TRUE]
  PROVE  new \in AnyRequest /\ new.st = q.st /\ new.session = "ended" /\ new.answers = 1
BY DEF AnyRequest

\* A request r is activated or refused at once.
LEMMA InitiateKeeps ==
  ASSUME PolkitInv, NEW r \in AuthRequests, Polkit!Initiate(r)
  PROVE  PolkitInv'
<1> SUFFICES ASSUME usual' PROVE PolkitInv'
  BY DEF PolkitInv
<1>1. usual /\ active = NoFlow /\ reqs[r].st = "new"
  BY DEF Polkit!Initiate
<1>2. /\ reqs \in [AuthRequests -> AnyRequest] /\ queue = <<>>
      /\ \A q \in AuthRequests : Fresh(reqs[q]) \/ Finished(reqs[q])
  BY <1>1, NullIsNoFlow DEF PolkitInv
<1> DEFINE rs == [reqs EXCEPT ![r].st = "queued"]
<1>3. Append(queue, r) = <<r>> /\ Len(<<r>>) = 1 /\ Head(<<r>>) = r /\ Tail(<<r>>) = <<>>
  BY <1>2, AloneInStream
<1>4. Polkit!Activate(rs, <<r>>)
  BY <1>3, Zenon DEF Polkit!Initiate
<1>5. rs \in [AuthRequests -> AnyRequest] /\ Fresh(reqs[r])
      /\ rs[r] = [reqs[r] EXCEPT !.st = "queued"] /\ \A q \in AuthRequests : q # r => rs[q] = reqs[q]
  BY <1>1, <1>2 DEF AnyRequest, Finished
<1> HIDE DEF rs
<1>6. CASE r \in Nobody
  <2>1. queue' = <<>> /\ active' = active /\ reqs' = [[rs EXCEPT ![r].answers = @ + 1] EXCEPT ![r].st = "freed"]
    BY <1>3, <1>4, <1>6 DEF Polkit!Activate, Polkit!Refused, Polkit!Answer
  <2>2. /\ reqs' \in [AuthRequests -> AnyRequest] /\ Finished(reqs'[r])
        /\ \A q \in AuthRequests : q # r => reqs'[q] = reqs[q]
    <3>1. rs[r] \in AnyRequest /\ rs[r].answers = 0
      BY <1>5 DEF AnyRequest, Fresh
    <3>2. reqs'[r] = [rs[r] EXCEPT !.answers = 1, !.st = "freed"]
      <4>1. reqs'[r] = [rs[r] EXCEPT !.answers = rs[r].answers + 1, !.st = "freed"]
        BY <1>5, <2>1
      <4>2. rs[r].answers + 1 = 1
        BY <3>1
      <4> QED BY <4>1, <4>2, Zenon
    <3>3. reqs'[r] \in AnyRequest /\ Finished(reqs'[r])
      BY <3>1, <3>2, RefusedIsFinished
    <3>4. reqs' = [rs EXCEPT ![r] = reqs'[r]]
      BY <1>5, <2>1
    <3>5. reqs' \in [AuthRequests -> AnyRequest] /\ \A q \in AuthRequests : q # r => reqs'[q] = reqs[q]
      BY <1>5, <3>3, <3>4
    <3> QED BY <3>3, <3>5
  <2> QED BY <1>1, <1>2, <2>1, <2>2, NullIsNoFlow DEF PolkitInv
<1>7. CASE r \notin Nobody
  <2>1. queue' = <<>> /\ active' = r
        /\ reqs' = [rs EXCEPT ![r].st = "flow", ![r].session = "running"]
    BY <1>3, <1>4, <1>7 DEF Polkit!Activate
  <2>2. /\ reqs' \in [AuthRequests -> AnyRequest] /\ InProgress(reqs'[r])
        /\ \A q \in AuthRequests : q # r => reqs'[q] = reqs[q]
    <3>1. rs[r] \in AnyRequest /\ rs[r].answers = 0 /\ ~rs[r].doomed /\ ~rs[r].cancelled
      BY <1>5 DEF AnyRequest, Fresh
    <3>2. reqs'[r] = [rs[r] EXCEPT !.st = "flow", !.session = "running"]
      BY <1>5, <2>1
    <3>3. reqs'[r] \in AnyRequest /\ InProgress(reqs'[r])
      BY <3>1, <3>2 DEF AnyRequest, InProgress
    <3>4. reqs' \in [AuthRequests -> AnyRequest] /\ \A q \in AuthRequests : q # r => reqs'[q] = reqs[q]
      BY <1>5, <2>1, <3>3
    <3> QED BY <3>3, <3>4
  <2> QED BY <1>1, <1>2, <2>1, <2>2 DEF PolkitInv
<1> QED BY <1>6, <1>7

\* The active flow completes, in the state rs of the requests in which it is answered.
LEMMA FinishKeeps ==
  ASSUME PolkitInv, usual, active # NoFlow, NEW rs \in [AuthRequests -> AnyRequest],
         \A q \in AuthRequests : q # active => rs[q] = reqs[q],
         rs[active].st = "flow", rs[active].session = "ended", rs[active].answers = 1,
         Polkit!Finish(rs)
  PROVE  PolkitInv'
<1>1. queue = <<>> /\ active \in AuthRequests
  BY DEF PolkitInv
<1>2. reqs' = [rs EXCEPT ![active].doomed = TRUE] /\ active' = NoFlow /\ queue' = queue
  BY <1>1 DEF Polkit!Finish
<1>3. /\ reqs' \in [AuthRequests -> AnyRequest] /\ Finished(reqs'[active])
      /\ \A q \in AuthRequests : q # active => reqs'[q] = reqs[q]
  <2>1. rs[active] \in AnyRequest
    BY <1>1
  <2>2. reqs'[active] = [rs[active] EXCEPT !.doomed = TRUE]
    BY <1>1, <1>2
  <2>3. reqs'[active] \in AnyRequest /\ Finished(reqs'[active])
    BY <2>1, <2>2 DEF AnyRequest, Finished
  <2> QED BY <1>1, <1>2, <2>3
<1> QED BY <1>1, <1>2, <1>3, NullIsNoFlow DEF PolkitInv

LEMMA CancelFlowKeeps ==
  ASSUME PolkitInv, usual, active # NoFlow, Polkit!CancelFlow(active)
  PROVE  PolkitInv'
<1> DEFINE rs == [reqs EXCEPT ![active].answers = @ + 1, ![active].cancelled = TRUE,
                              ![active].session = "ended", ![active].completed = TRUE]
<1>1. active \in AuthRequests /\ InProgress(reqs[active]) /\ reqs \in [AuthRequests -> AnyRequest]
  BY DEF PolkitInv
<1>2. Polkit!InSession(active)
  BY <1>1 DEF Polkit!InSession, Polkit!Flow, InProgress
<1>3. Polkit!Finish([[[reqs EXCEPT ![active].answers = @ + 1] EXCEPT ![active].cancelled = TRUE]
                       EXCEPT ![active].session = "ended", ![active].completed = TRUE])
  BY <1>2 DEF Polkit!CancelFlow, Polkit!Answer
<1>4. [[[reqs EXCEPT ![active].answers = @ + 1] EXCEPT ![active].cancelled = TRUE]
         EXCEPT ![active].session = "ended", ![active].completed = TRUE] = rs
  BY <1>1 DEF AnyRequest
<1>5. /\ rs \in [AuthRequests -> AnyRequest]
      /\ \A q \in AuthRequests : q # active => rs[q] = reqs[q]
      /\ rs[active].st = "flow" /\ rs[active].session = "ended" /\ rs[active].answers = 1
  <2>1. reqs[active] \in AnyRequest
    BY <1>1
  <2>2. rs[active] = [reqs[active] EXCEPT !.answers = 1, !.cancelled = TRUE, !.session = "ended",
                                          !.completed = TRUE]
    <3>1. rs[active] = [reqs[active] EXCEPT !.answers = reqs[active].answers + 1, !.cancelled = TRUE,
                                            !.session = "ended", !.completed = TRUE]
      BY <1>1
    <3>2. reqs[active].answers + 1 = 1
      BY <1>1 DEF InProgress
    <3> HIDE DEF rs
    <3> QED BY <3>1, <3>2, Zenon
  <2> HIDE DEF rs
  <2>3. /\ rs[active] \in AnyRequest
        /\ rs[active].st = "flow" /\ rs[active].session = "ended" /\ rs[active].answers = 1
    BY <1>1, <2>1, <2>2, CancelledIsAnswered DEF InProgress
  <2>4. rs = [reqs EXCEPT ![active] = rs[active]]
    BY <1>1 DEF rs
  <2> QED BY <1>1, <2>3, <2>4
<1>6. Polkit!Finish(rs)
  BY <1>3, <1>4
<1> QED BY <1>5, <1>6, FinishKeeps

\* The other steps change the active request, or one that is finished with.
LEMMA RequestChanges ==
  ASSUME PolkitInv, usual, NEW r \in AuthRequests, NEW new \in AnyRequest, reqs' = [reqs EXCEPT ![r] = new],
         UNCHANGED <<queue, active>>,
         IF r = active THEN InProgress(new) ELSE Fresh(new) \/ Finished(new)
  PROVE  PolkitInv'
BY DEF PolkitInv

LEMMA InSessionIsActive ==
  ASSUME PolkitInv, usual, NEW r \in AuthRequests, Polkit!Flow(r),
         reqs[r].session \in {"running", "asking"}
  PROVE  r = active /\ active # NoFlow /\ InProgress(reqs[r])
BY NullIsNoFlow DEF PolkitInv, Polkit!Flow, Fresh, Finished

LEMMA ActiveIsInProgress ==
  ASSUME PolkitInv, usual, active # NoFlow
  PROVE  active \in AuthRequests /\ reqs \in [AuthRequests -> AnyRequest] /\ reqs[active] \in AnyRequest
         /\ InProgress(reqs[active])
BY DEF PolkitInv

LEMMA SubmitKeeps == ASSUME PolkitInv, usual, Polkit!Submit PROVE PolkitInv'
<1>1. active # NoFlow /\ UNCHANGED <<queue, active>>
  BY DEF Polkit!Submit
<1> DEFINE q   == reqs[active]
           new == [q EXCEPT !.required = FALSE,
                            !.session = IF q.session = "asking" THEN "running" ELSE q.session]
<1>2. reqs' = [reqs EXCEPT ![active] = new]
  BY <1>1, ActiveIsInProgress DEF Polkit!Submit
<1>3. new \in AnyRequest /\ InProgress(new)
  <2>1. q \in AnyRequest /\ InProgress(q)
    BY <1>1, ActiveIsInProgress
  <2> HIDE DEF q
  <2> QED BY <2>1 DEF AnyRequest, InProgress
<1> HIDE DEF new
<1> QED BY <1>1, <1>2, <1>3, ActiveIsInProgress, RequestChanges

LEMMA SelectIdentityKeeps == ASSUME PolkitInv, usual, Polkit!SelectIdentity PROVE PolkitInv'
<1>1. active # NoFlow /\ UNCHANGED <<queue, active>>
  BY DEF Polkit!SelectIdentity
<1> DEFINE q   == reqs[active]
           new == [q EXCEPT !.failed = q.failed \/ Polkit!InSession(active), !.session = "running"]
<1>2. reqs' = [reqs EXCEPT ![active] = new]
  BY <1>1, ActiveIsInProgress DEF Polkit!SelectIdentity
<1>3. new \in AnyRequest /\ InProgress(new)
  <2>1. q \in AnyRequest /\ InProgress(q) /\ Polkit!InSession(active) \in BOOLEAN
    BY <1>1, ActiveIsInProgress DEF Polkit!InSession, Polkit!Flow
  <2> HIDE DEF q
  <2> QED BY <2>1 DEF AnyRequest, InProgress
<1> HIDE DEF new
<1> QED BY <1>1, <1>2, <1>3, ActiveIsInProgress, RequestChanges

LEMMA SessionAsksKeeps ==
  ASSUME PolkitInv, usual, NEW r \in AuthRequests, Polkit!SessionAsks(r) PROVE PolkitInv'
<1>1. r = active /\ active # NoFlow /\ UNCHANGED <<queue, active>>
  BY InSessionIsActive DEF Polkit!SessionAsks
<1> DEFINE q   == reqs[active]
           new == [q EXCEPT !.session = "asking", !.required = TRUE]
<1>2. reqs' = [reqs EXCEPT ![active] = new]
  BY <1>1, ActiveIsInProgress DEF Polkit!SessionAsks
<1>3. new \in AnyRequest /\ InProgress(new)
  <2>1. q \in AnyRequest /\ InProgress(q)
    BY <1>1, ActiveIsInProgress
  <2> HIDE DEF q
  <2> QED BY <2>1 DEF AnyRequest, InProgress
<1> HIDE DEF new
<1> QED BY <1>1, <1>2, <1>3, ActiveIsInProgress, RequestChanges

LEMMA SessionFailsKeeps ==
  ASSUME PolkitInv, usual, usual', NEW r \in AuthRequests, Polkit!SessionFails(r) PROVE PolkitInv'
<1>1. r = active /\ active # NoFlow /\ ~reqs[r].cancelled
  BY InSessionIsActive DEF Polkit!SessionFails, Polkit!InSession, InProgress
<1> DEFINE q   == reqs[active]
           new == [q EXCEPT !.failed = TRUE, !.session = "running"]
<1>2. reqs' = [reqs EXCEPT ![active] = new] /\ UNCHANGED <<queue, active>>
  BY <1>1, ActiveIsInProgress DEF Polkit!SessionFails
<1>3. new \in AnyRequest /\ InProgress(new)
  <2>1. q \in AnyRequest /\ InProgress(q)
    BY <1>1, ActiveIsInProgress
  <2> HIDE DEF q
  <2> QED BY <2>1 DEF AnyRequest, InProgress
<1> HIDE DEF new
<1> QED BY <1>1, <1>2, <1>3, ActiveIsInProgress, RequestChanges

LEMMA SessionGainsKeeps ==
  ASSUME PolkitInv, usual, NEW r \in AuthRequests, Polkit!SessionGains(r) PROVE PolkitInv'
<1>1. r = active /\ active # NoFlow
  BY InSessionIsActive DEF Polkit!SessionGains
<1> DEFINE q   == reqs[active]
           new == [q EXCEPT !.answers = 1, !.session = "ended", !.completed = TRUE]
           rs  == [reqs EXCEPT ![active] = new]
<1>2. q \in AnyRequest /\ InProgress(q) /\ reqs \in [AuthRequests -> AnyRequest] /\ active \in AuthRequests
  BY <1>1, ActiveIsInProgress
<1>3. [[reqs EXCEPT ![active].answers = @ + 1] EXCEPT ![active].session = "ended", ![active].completed = TRUE]
        = [reqs EXCEPT ![active] = [q EXCEPT !.answers = q.answers + 1, !.session = "ended", !.completed = TRUE]]
  BY <1>2
<1>4. q.answers + 1 = 1
  BY <1>2 DEF InProgress
<1>5. Polkit!Finish(rs)
  BY <1>1, <1>3, <1>4, Zenon DEF Polkit!SessionGains, Polkit!Answer
<1>6. new \in AnyRequest /\ new.st = "flow" /\ new.session = "ended" /\ new.answers = 1
  <2> HIDE DEF q
  <2> QED BY <1>2 DEF AnyRequest, InProgress
<1> HIDE DEF new
<1>7. /\ rs \in [AuthRequests -> AnyRequest] /\ rs[active] = new
      /\ \A p \in AuthRequests : p # active => rs[p] = reqs[p]
  BY <1>2, <1>6
<1> HIDE DEF rs
<1> QED BY <1>1, <1>5, <1>6, <1>7, FinishKeeps

LEMMA DeleteFlowKeeps ==
  ASSUME PolkitInv, usual, NEW r \in AuthRequests, Polkit!DeleteFlow(r) PROVE PolkitInv'
<1> DEFINE q   == reqs[r]
           new == [q EXCEPT !.st = "freed", !.session = "none"]
<1>1. q \in AnyRequest /\ reqs \in [AuthRequests -> AnyRequest] /\ UNCHANGED <<queue, active>>
  BY DEF PolkitInv, Polkit!DeleteFlow
<1>2. r # active /\ Finished(q)
  BY DEF PolkitInv, Polkit!DeleteFlow, Polkit!Flow, InProgress, Fresh
<1>3. reqs' = [reqs EXCEPT ![r] = new]
  BY <1>1 DEF Polkit!DeleteFlow
<1>4. new \in AnyRequest /\ Finished(new)
  <2> HIDE DEF q
  <2> QED BY <1>1, <1>2 DEF AnyRequest, Finished
<1> HIDE DEF new
<1> QED BY <1>1, <1>2, <1>3, <1>4, RequestChanges

LEMMA CancelFromAgentKeeps ==
  ASSUME PolkitInv, usual, NEW r \in AuthRequests, Polkit!CancelFromAgent(r) PROVE PolkitInv'
<1>1. CASE active = r
  <2>1. Polkit!CancelFlow(r)
    BY <1>1 DEF Polkit!CancelFromAgent
  <2> QED BY <1>1, <2>1, NullIsNoFlow, CancelFlowKeeps
<1>2. CASE active # r
  <2>1. reqs[r].st # "queued"
    BY <1>2 DEF PolkitInv, Fresh, Finished
  <2>2. UNCHANGED <<reqs, queue, active>>
    BY <1>2, <2>1 DEF Polkit!CancelFromAgent
  <2> QED BY <2>2 DEF PolkitInv
<1> QED BY <1>1, <1>2

\* The agent goes: the active request is cancelled, and no other waits.
LEMMA AgentEndsKeeps == ASSUME PolkitInv, usual, Polkit!AgentEnds PROVE PolkitInv'
<1>1. queue = <<>> /\ queue' = <<>> /\ active' = NoFlow /\ reqs \in [AuthRequests -> AnyRequest]
  BY DEF PolkitInv, Polkit!AgentEnds
<1>2. [r \in AuthRequests |-> IF \E i \in DOMAIN queue : queue[i] = r
                              THEN [reqs[r] EXCEPT !.answers = @ + 1, !.st = "freed"] ELSE reqs[r]] = reqs
  <2>1. ~ \E i \in DOMAIN queue : TRUE
    BY <1>1
  <2> QED BY <1>1, <2>1
<1>3. CASE active = NoFlow
  <2>1. reqs' = reqs
    BY <1>2, <1>3 DEF Polkit!AgentEnds
  <2> QED BY <1>1, <1>3, <2>1 DEF PolkitInv
<1>4. CASE active # NoFlow
  <2> DEFINE q   == reqs[active]
             new == [q EXCEPT !.answers = 1, !.cancelled = TRUE, !.doomed = TRUE,
                              !.completed = q.completed \/ Polkit!InSession(active), !.session = "ended"]
  <2>1. q \in AnyRequest /\ InProgress(q) /\ active \in AuthRequests /\ Polkit!InSession(active) \in BOOLEAN
    BY <1>4, ActiveIsInProgress DEF Polkit!InSession, Polkit!Flow
  <2>2. reqs' = [[reqs EXCEPT ![active].answers = @ + 1] EXCEPT
                   ![active].cancelled = TRUE, ![active].doomed = TRUE,
                   ![active].completed = @ \/ Polkit!InSession(active), ![active].session = "ended"]
    BY <1>2, <1>4, Zenon DEF Polkit!AgentEnds, Polkit!Answer
  <2>3. reqs' = [reqs EXCEPT ![active] =
                   [q EXCEPT !.answers = q.answers + 1, !.cancelled = TRUE, !.doomed = TRUE,
                             !.completed = q.completed \/ Polkit!InSession(active), !.session = "ended"]]
    BY <1>1, <2>1, <2>2
  <2>4. q.answers + 1 = 1
    BY <2>1 DEF InProgress
  <2>5. reqs' = [reqs EXCEPT ![active] = new]
    BY <2>3, <2>4, Zenon
  <2>6. new \in AnyRequest /\ Finished(new)
    <3> HIDE DEF q
    <3> QED BY <2>1 DEF AnyRequest, Finished, InProgress
  <2> HIDE DEF new
  <2> QED BY <1>1, <1>4, <2>1, <2>5, <2>6, NullIsNoFlow DEF PolkitInv
<1> QED BY <1>3, <1>4

LEMMA NextPolkitInv == PolkitInv /\ [Polkit!Next]_(Polkit!polkitVars) => PolkitInv'
<1> SUFFICES ASSUME PolkitInv, usual', [Polkit!Next]_(Polkit!polkitVars) PROVE PolkitInv'
  BY DEF PolkitInv
<1>1. ASSUME NEW r \in AuthRequests, Polkit!Initiate(r) PROVE PolkitInv'
  BY <1>1, InitiateKeeps
<1>2. ASSUME usual,
             \/ \E r \in AuthRequests : \/ Polkit!CancelFromAgent(r) \/ Polkit!DeleteFlow(r)
                                        \/ Polkit!SessionAsks(r) \/ Polkit!SessionGains(r)
                                        \/ Polkit!SessionFails(r)
             \/ Polkit!CancelByUser \/ Polkit!Submit \/ Polkit!SelectIdentity \/ Polkit!AgentEnds
      PROVE  PolkitInv'
  <2>1. ASSUME Polkit!CancelByUser PROVE PolkitInv'
    BY <1>2, <2>1, CancelFlowKeeps DEF Polkit!CancelByUser
  <2> QED
    BY <1>2, <2>1, CancelFromAgentKeeps, DeleteFlowKeeps, SessionAsksKeeps, SessionGainsKeeps,
       SessionFailsKeeps, SubmitKeeps, SelectIdentityKeeps, AgentEndsKeeps
<1>3. CASE UNCHANGED Polkit!polkitVars
  BY <1>3 DEF Polkit!polkitVars, PolkitInv
<1>4. Polkit!Next /\ ~(\E r \in AuthRequests : Polkit!Initiate(r)) => usual
  BY DEF Polkit!Next, Polkit!CancelFromAgent, Polkit!DeleteFlow, Polkit!SessionAsks, Polkit!SessionGains,
         Polkit!SessionFails, Polkit!CancelByUser, Polkit!Submit, Polkit!SelectIdentity, Polkit!AgentEnds
<1> QED BY <1>1, <1>2, <1>3, <1>4 DEF Polkit!Next

\* As long as requests do not overlap and no failure is answered by a cancellation, the flow
\* that is shown is the only one in progress, and the daemon gets one answer, and no more, to
\* each request; however sessions fail and requests are cancelled from the user, the daemon
\* or the end of the agent (PolkitAgentImpl and AuthFlow).
THEOREM EachRequestIsAnsweredOnce == Spec => []EveryRequestIsAnswered
<1>1. PolkitInv => EveryRequestIsAnswered
  <2> SUFFICES ASSUME PolkitInv, usual, NEW r \in AuthRequests
               PROVE  /\ Polkit!Flow(r) /\ ~reqs[r].doomed => r = active
                      /\ reqs[r].answers <= 1
                      /\ reqs[r].st = "freed" \/ reqs[r].doomed => reqs[r].answers = 1
                      /\ r = active => reqs[r].answers = 0
    BY DEF EveryRequestIsAnswered, Polkit!EveryRequestIsAnswered, Polkit!OneFlowAtATime
  <2> QED BY DEF PolkitInv, Polkit!Flow, InProgress, Fresh, Finished
<1> QED BY <1>1, InitPolkitInv, NextPolkitInv, PolkitSteps, PTL DEF Polkit!Spec

-----------------------------------------------------------------------------
(* The notification server                                                   *)

AnyNote == [st : {"unsent", "alive", "retained", "doomed", "gone"},
            reason : {"tracked", "Expired", "Dismissed", "CloseRequested"}, locks : 0..1, told : Nat]
AnyCall == [at : {"notification", "closed", "dropped"}, n : Notes!Notes, rest : Seq(Notes!Notes)]

NoteType == /\ notes \in [Notes!Notes -> AnyNote] /\ calls \in Seq(AnyCall)
            /\ listed \subseteq Notes!Notes

\* Call i is for notification n; the last one, which was first, is where notification() is emitted.
CallFor(i, at, n) == calls[i].at = at /\ calls[i].n = n
Closing(n)  == \E i \in 1..Len(calls) : CallFor(i, "closed", n)
Dropping(n) == \E i \in 1..Len(calls) : CallFor(i, "dropped", n)
Bottom      == calls[Len(calls)]
Announced   == calls # <<>> /\ Bottom.at = "notification"
Waits(n)    == \E j \in 1..Len(Bottom.rest) : Bottom.rest[j] = n
Pending(n)  == Announced /\ (Bottom.n = n \/ Waits(n))

\* notification() is emitted from the event loop, of one notification after the other.
EmittedOnce == /\ \A i \in 1..Len(calls) : calls[i].at = "notification" => i = Len(calls)
               /\ Announced => /\ ~Waits(Bottom.n)
                               /\ \A j, k \in 1..Len(Bottom.rest) : Bottom.rest[j] = Bottom.rest[k] => j = k
\* A notification that nobody has closed is on the list, or will be when it was announced, or
\* is about to go.
OpenIsListed ==
  /\ idMap = listed
  /\ \A n \in Notes!Notes :
       /\ Pending(n) => notes[n].st = "alive" /\ n \notin listed /\ ~Closing(n) /\ ~Dropping(n)
       /\ n \in listed => notes[n].st = "alive" /\ ~Dropping(n)
       /\ notes[n].st = "alive" => n \in listed \/ Pending(n) \/ Dropping(n)
\* closed() of a notification is emitted once, while it is on the list, and the sender told then.
Once(at) == \A i, j \in 1..Len(calls) :
              calls[i].at = at /\ calls[j].at = at /\ calls[i].n = calls[j].n => i = j
ToldOnce ==
  /\ Once("closed") /\ Once("dropped")
  /\ \A n \in Notes!Notes :
       /\ Closing(n) => n \in listed
       /\ Dropping(n) => notes[n].st = "alive" /\ notes[n].told = 1
       /\ n \in listed \/ Pending(n) \/ notes[n].st = "unsent" => notes[n].told = 0
       /\ notes[n].st \in {"retained", "doomed", "gone"} => notes[n].told = 1

NoteInv == NoteType /\ EmittedOnce /\ OpenIsListed /\ (~reclosed => ToldOnce)

-----------------------------------------------------------------------------
(* The stack of calls                                                        *)

LEMMA EmptyStack == \A s \in Seq(AnyCall) : Len(s) \in Nat /\ (Len(s) = 0 <=> s = <<>>)
BY LenProperties, EmptySeq

LEMMA StackPush ==
  ASSUME NEW s \in Seq(AnyCall), NEW c \in AnyCall, NEW q, q = <<c>> \o s
  PROVE  /\ q \in Seq(AnyCall) /\ Len(q) = Len(s) + 1 /\ Len(s) \in Nat /\ q[1] = c
         /\ \A i \in 1..Len(s) : q[i + 1] = s[i]
         /\ s = <<>> => q = <<c>>
<1>1. <<c>> \in Seq(AnyCall) /\ Len(<<c>>) = 1 /\ <<c>>[1] = c
  OBVIOUS
<1>2. s = <<>> => q = <<c>>
  BY <1>1, ConcatEmptySeq
<1>3. Len(s) \in Nat
  BY LenProperties
<1> QED BY <1>1, <1>2, <1>3, ConcatProperties

LEMMA StackReplace ==
  ASSUME NEW s \in Seq(AnyCall), s # <<>>, NEW c \in AnyCall, NEW q, q = <<c>> \o Tail(s)
  PROVE  /\ q \in Seq(AnyCall) /\ Len(q) = Len(s) /\ Len(s) \in Nat /\ Len(s) > 0 /\ q[1] = c
         /\ \A i \in 2..Len(s) : q[i] = s[i]
         /\ Len(s) = 1 => q = <<c>>
<1>1. Tail(s) \in Seq(AnyCall) /\ Len(Tail(s)) = Len(s) - 1 /\ \A i \in 1..Len(s)-1 : Tail(s)[i] = s[i + 1]
  BY HeadTailProperties
<1>2. Len(s) \in Nat /\ Len(s) > 0
  BY LenProperties, EmptySeq
<1>3. /\ q \in Seq(AnyCall) /\ Len(q) = Len(Tail(s)) + 1 /\ q[1] = c
      /\ \A i \in 1..Len(Tail(s)) : q[i + 1] = Tail(s)[i]
      /\ Tail(s) = <<>> => q = <<c>>
  <2>1. <<c>> \in Seq(AnyCall) /\ Len(<<c>>) = 1 /\ <<c>>[1] = c
    OBVIOUS
  <2>2. Tail(s) = <<>> => q = <<c>>
    BY <2>1, ConcatEmptySeq
  <2> QED BY <1>1, <1>2, <2>1, <2>2, ConcatProperties
<1>4. ASSUME NEW i \in 2..Len(s) PROVE q[i] = s[i]
  <2>1. i - 1 \in 1..Len(s)-1 /\ (i - 1) + 1 = i
    BY <1>2, <1>4
  <2> QED BY <1>1, <1>3, <2>1
<1>5. Len(s) = 1 => Tail(s) = <<>>
  <2>1. Len(s) = 1 => Len(Tail(s)) = 0
    BY <1>1
  <2> QED BY <1>1, <2>1, EmptyStack, Zenon
<1> QED BY <1>1, <1>2, <1>3, <1>4, <1>5

LEMMA StackPop ==
  ASSUME NEW s \in Seq(AnyCall), s # <<>>
  PROVE  /\ Tail(s) \in Seq(AnyCall) /\ Len(Tail(s)) = Len(s) - 1 /\ Len(s) \in Nat /\ Len(s) > 0
         /\ \A i \in 1..Len(s)-1 : Tail(s)[i] = s[i + 1]
         /\ Len(s) = 1 <=> Tail(s) = <<>>
         /\ Head(s) = s[1] /\ s[1] \in AnyCall
<1>1. Tail(s) \in Seq(AnyCall) /\ Len(Tail(s)) = Len(s) - 1 /\ \A i \in 1..Len(s)-1 : Tail(s)[i] = s[i + 1]
  BY HeadTailProperties
<1>2. Len(s) \in Nat /\ Len(s) > 0
  BY LenProperties, EmptySeq
<1>3. Head(s) = s[1] /\ s[1] \in AnyCall
  BY <1>2, ElementOfSeq
<1>4. Len(s) = 1 <=> Tail(s) = <<>>
  <2>1. Len(s) = 1 <=> Len(Tail(s)) = 0
    BY <1>1, <1>2
  <2> QED BY <1>1, <2>1, EmptyStack, Zenon
<1> QED BY <1>1, <1>2, <1>3, <1>4

\* closed() of n is emitted.
LEMMA PushClosed ==
  ASSUME NoteType, NEW n \in Notes!Notes, calls' = <<Notes!Call("closed", n, <<>>)>> \o calls
  PROVE  /\ calls' \in Seq(AnyCall)
         /\ EmittedOnce => EmittedOnce'
         /\ \A m : Pending(m)' <=> Pending(m)
         /\ \A m : Closing(m)' => m = n \/ Closing(m)
         /\ \A m : Dropping(m)' <=> Dropping(m)
         /\ ~Closing(n) /\ Once("closed") => Once("closed")'
         /\ Once("dropped") => Once("dropped")'
<1> DEFINE c == Notes!Call("closed", n, <<>>)
<1>1. c \in AnyCall /\ c.at = "closed" /\ c.n = n
  BY EmptySeq DEF AnyCall, Notes!Call
<1>2. /\ calls' \in Seq(AnyCall) /\ Len(calls') = Len(calls) + 1 /\ Len(calls) \in Nat /\ calls'[1] = c
      /\ \A i \in 1..Len(calls) : calls'[i + 1] = calls[i]
  BY <1>1, StackPush DEF NoteType
<1> HIDE DEF c
<1>3. \A i \in 2..Len(calls') : i - 1 \in 1..Len(calls) /\ calls'[i] = calls[i - 1]
  BY <1>2
<1>4. Announced' <=> Announced
  BY <1>1, <1>2, EmptySeq DEF Announced, Bottom, NoteType
<1>5. Announced => Bottom' = Bottom
  BY <1>2, EmptySeq DEF Announced, Bottom, NoteType
<1>6. \A m : Pending(m)' <=> Pending(m)
  BY <1>4, <1>5 DEF Pending, Waits
<1>7. EmittedOnce => EmittedOnce'
  BY <1>1, <1>2, <1>3, <1>4, <1>5 DEF EmittedOnce, Waits
<1>8. \A m : Closing(m)' => m = n \/ Closing(m)
  BY <1>1, <1>2, <1>3 DEF Closing, CallFor
<1>9. \A m : Dropping(m)' <=> Dropping(m)
  <2>1. \A i \in 1..Len(calls) : i + 1 \in 1..Len(calls')
    BY <1>2
  <2>2. ASSUME NEW m, Dropping(m) PROVE Dropping(m)'
    BY <1>2, <2>1, <2>2 DEF Dropping, CallFor
  <2>3. ASSUME NEW m, Dropping(m)' PROVE Dropping(m)
    BY <1>1, <1>2, <1>3, <2>3 DEF Dropping, CallFor
  <2> QED BY <2>2, <2>3
<1>10. ~Closing(n) /\ Once("closed") => Once("closed")'
  BY <1>1, <1>2, <1>3 DEF Closing, CallFor, Once
<1>11. Once("dropped") => Once("dropped")'
  <2>1. \A i \in 1..Len(calls') : calls'[i].at = "dropped" => i \in 2..Len(calls')
    BY <1>1, <1>2
  <2>2. ASSUME Once("dropped"), NEW i \in 2..Len(calls'), NEW j \in 2..Len(calls'),
               calls'[i].at = "dropped", calls'[j].at = "dropped", calls'[i].n = calls'[j].n
        PROVE  i = j
    <3>1. i - 1 = j - 1
      BY <1>3, <2>2 DEF Once
    <3> QED BY <1>2, <3>1
  <2> QED BY <2>1, <2>2 DEF Once
<1> QED BY <1>2, <1>6, <1>7, <1>8, <1>9, <1>10, <1>11

\* closed() of n has been emitted, and dropped() is.
LEMMA ReplaceClosed ==
  ASSUME NoteType, calls # <<>>, NEW n, n = Head(calls).n, Head(calls).at = "closed",
         calls' = <<Notes!Call("dropped", n, <<>>)>> \o Tail(calls)
  PROVE  /\ calls' \in Seq(AnyCall) /\ n \in Notes!Notes /\ Closing(n)
         /\ EmittedOnce => EmittedOnce'
         /\ \A m : Pending(m)' <=> Pending(m)
         /\ \A m : Closing(m)' => Closing(m)
         /\ \A m : Dropping(m)' <=> m = n \/ Dropping(m)
         /\ Once("closed") => ~Closing(n)' /\ Once("closed")'
         /\ ~Dropping(n) /\ Once("dropped") => Once("dropped")'
<1> DEFINE c == Notes!Call("dropped", n, <<>>)
<1>1. /\ Len(calls) \in Nat /\ Len(calls) > 0 /\ Head(calls) = calls[1]
      /\ calls[1] \in AnyCall /\ calls[1].at = "closed" /\ calls[1].n = n /\ n \in Notes!Notes
  BY StackPop DEF NoteType, AnyCall
<1>2. c \in AnyCall /\ c.at = "dropped" /\ c.n = n
  BY <1>1, EmptySeq DEF AnyCall, Notes!Call
<1>3. /\ calls' \in Seq(AnyCall) /\ Len(calls') = Len(calls) /\ calls'[1] = c
      /\ \A i \in 2..Len(calls) : calls'[i] = calls[i]
  BY <1>2, StackReplace DEF NoteType
<1> HIDE DEF c
<1>4. calls' # <<>>
  BY <1>1, <1>3, EmptySeq
<1>5. Announced' <=> Announced
  BY <1>1, <1>2, <1>3, <1>4 DEF Announced, Bottom
<1>6. Announced => Bottom' = Bottom
  BY <1>1, <1>3 DEF Announced, Bottom
<1>7. \A m : Pending(m)' <=> Pending(m)
  BY <1>5, <1>6 DEF Pending, Waits
<1>8. ASSUME EmittedOnce PROVE EmittedOnce'
  <2>1. ASSUME NEW i \in 1..Len(calls'), calls'[i].at = "notification" PROVE i = Len(calls')
    <3>1. i \in 2..Len(calls) /\ calls[i].at = "notification"
      BY <1>1, <1>2, <1>3, <2>1
    <3> QED BY <1>1, <1>3, <1>8, <3>1 DEF EmittedOnce
  <2> QED BY <1>5, <1>6, <1>8, <2>1 DEF EmittedOnce, Waits
<1>9. \A m : Closing(m)' => Closing(m)
  BY <1>1, <1>2, <1>3 DEF Closing, CallFor
<1>10. \A m : Dropping(m)' <=> m = n \/ Dropping(m)
  BY <1>1, <1>2, <1>3 DEF Dropping, CallFor
<1>11. ASSUME Once("closed") PROVE ~Closing(n)' /\ Once("closed")'
  BY <1>1, <1>2, <1>3, <1>11 DEF Closing, CallFor, Once
<1>12. ASSUME ~Dropping(n), Once("dropped") PROVE Once("dropped")'
  BY <1>1, <1>2, <1>3, <1>12 DEF Dropping, CallFor, Once
<1>13. Closing(n)
  BY <1>1 DEF Closing, CallFor
<1> QED BY <1>1, <1>3, <1>7, <1>8, <1>9, <1>10, <1>11, <1>12, <1>13

\* dropped() of n has been emitted.
LEMMA PopDropped ==
  ASSUME NoteType, calls # <<>>, NEW n, n = Head(calls).n, Head(calls).at = "dropped", calls' = Tail(calls)
  PROVE  /\ calls' \in Seq(AnyCall) /\ n \in Notes!Notes /\ Dropping(n)
         /\ EmittedOnce => EmittedOnce'
         /\ \A m : Pending(m)' <=> Pending(m)
         /\ \A m : Closing(m)' => Closing(m)
         /\ \A m : Dropping(m)' => Dropping(m)
         /\ \A m : m # n /\ Dropping(m) => Dropping(m)'
         /\ Once("dropped") => ~Dropping(n)' /\ Once("dropped")'
         /\ Once("closed") => Once("closed")'
<1>1. /\ Len(calls) \in Nat /\ Len(calls) > 0 /\ Head(calls) = calls[1]
      /\ calls[1] \in AnyCall /\ calls[1].at = "dropped" /\ calls[1].n = n /\ n \in Notes!Notes
  BY StackPop DEF NoteType, AnyCall
<1>2. /\ calls' \in Seq(AnyCall) /\ Len(calls') = Len(calls) - 1
      /\ \A i \in 1..Len(calls') : calls'[i] = calls[i + 1]
      /\ Len(calls) = 1 <=> calls' = <<>>
  BY StackPop DEF NoteType
<1>3. \A i \in 1..Len(calls') : i + 1 \in 2..Len(calls)
  BY <1>1, <1>2
<1>4. \A i \in 2..Len(calls) : i - 1 \in 1..Len(calls') /\ calls'[i - 1] = calls[i]
  BY <1>1, <1>2
<1>5. Announced' <=> Announced
  BY <1>1, <1>2 DEF Announced, Bottom
<1>6. Announced => Bottom' = Bottom
  BY <1>1, <1>2 DEF Announced, Bottom
<1>7. \A m : Pending(m)' <=> Pending(m)
  BY <1>5, <1>6 DEF Pending, Waits
<1>8. ASSUME EmittedOnce PROVE EmittedOnce'
  <2>1. ASSUME NEW i \in 1..Len(calls'), calls'[i].at = "notification" PROVE i = Len(calls')
    <3>1. i + 1 \in 1..Len(calls) /\ calls[i + 1].at = "notification"
      BY <1>1, <1>2, <1>3, <2>1
    <3>2. i + 1 = Len(calls)
      BY <1>8, <3>1 DEF EmittedOnce
    <3>3. Len(calls') \in Nat /\ Len(calls') = Len(calls) - 1
      BY <1>1, <1>2, EmptyStack
    <3>4. i \in Int
      BY <3>3
    <3> QED BY <1>1, <3>2, <3>3, <3>4
  <2> QED BY <1>5, <1>6, <1>8, <2>1 DEF EmittedOnce, Waits
<1>9. \A m : Closing(m)' => Closing(m)
  BY <1>1, <1>2, <1>3 DEF Closing, CallFor
<1>10. \A m : Dropping(m)' => Dropping(m)
  BY <1>1, <1>2, <1>3 DEF Dropping, CallFor
<1>11. ASSUME NEW m, m # n, Dropping(m) PROVE Dropping(m)'
  <2>1. PICK i \in 2..Len(calls) : CallFor(i, "dropped", m)
    BY <1>1, <1>11 DEF Dropping, CallFor
  <2>2. i - 1 \in 1..Len(calls') /\ calls'[i - 1] = calls[i]
    BY <1>4
  <2> QED BY <2>1, <2>2 DEF Dropping, CallFor
<1>12. ASSUME NEW at, Once(at), NEW i \in 1..Len(calls'), NEW j \in 1..Len(calls'),
              calls'[i].at = at, calls'[j].at = at, calls'[i].n = calls'[j].n
       PROVE  i = j
  <2>1. i + 1 = j + 1
    BY <1>1, <1>2, <1>3, <1>12 DEF Once
  <2> QED BY <1>1, <1>2, <2>1
<1>13. ASSUME Once("dropped") PROVE ~Dropping(n)'
  <2>1. ASSUME NEW i \in 1..Len(calls'), calls'[i].at = "dropped", calls'[i].n = n PROVE FALSE
    <3>1. i + 1 = 1
      BY <1>1, <1>2, <1>3, <1>13, <2>1 DEF Once
    <3> QED BY <1>1, <1>2, <3>1
  <2> QED BY <2>1 DEF Dropping, CallFor
<1>14. \A at : Once(at) => Once(at)'
  BY <1>12 DEF Once
<1>15. Dropping(n)
  BY <1>1 DEF Dropping, CallFor
<1> QED BY <1>1, <1>2, <1>7, <1>8, <1>9, <1>10, <1>11, <1>13, <1>14, <1>15

\* notification() is emitted with nothing beneath.
LEMMA AtNotification ==
  ASSUME NoteType, EmittedOnce, calls # <<>>, Head(calls).at = "notification"
  PROVE  /\ calls = <<Head(calls)>> /\ Tail(calls) = <<>> /\ Announced /\ Bottom = Head(calls)
         /\ Head(calls) \in AnyCall
         /\ \A m : ~Closing(m) /\ ~Dropping(m)
<1>1. /\ Len(calls) \in Nat /\ Len(calls) > 0 /\ Head(calls) = calls[1] /\ calls[1] \in AnyCall
      /\ Len(calls) = 1 <=> Tail(calls) = <<>>
  BY StackPop DEF NoteType
<1>2. Len(calls) = 1
  BY <1>1 DEF EmittedOnce
<1>3. calls = <<Head(calls)>>
  <2> DEFINE t == <<Head(calls)>>
  <2>1. t \in Seq(AnyCall) /\ Len(t) = 1 /\ t[1] = Head(calls)
    BY <1>1
  <2> HIDE DEF t
  <2>2. calls = t
    BY <1>1, <1>2, <2>1, SeqEqual DEF NoteType
  <2> QED BY <2>2 DEF t
<1>4. \A m : ~Closing(m) /\ ~Dropping(m)
  BY <1>1, <1>2 DEF Closing, Dropping, CallFor
<1> QED BY <1>1, <1>2, <1>3, <1>4 DEF Announced, Bottom

LEMMA EmitNotification ==
  ASSUME NEW n \in Notes!Notes, NEW rest \in Seq(Notes!Notes),
         calls' = <<Notes!Call("notification", n, rest)>>
  PROVE  /\ calls' \in Seq(AnyCall) /\ Announced' /\ Bottom' = Notes!Call("notification", n, rest)
         /\ \A m : ~Closing(m)' /\ ~Dropping(m)'
         /\ Once("closed")' /\ Once("dropped")'
         /\ \A i \in 1..Len(calls') : i = Len(calls')
<1> DEFINE c == Notes!Call("notification", n, rest)
<1>1. c \in AnyCall /\ c.at = "notification"
  BY DEF AnyCall, Notes!Call
<1> HIDE DEF c
<1>2. calls' = <<c>> /\ calls' # <<>> /\ Len(calls') = 1 /\ calls'[1] = c
  BY AloneInStream DEF c
<1>3. calls' \in Seq(AnyCall)
  BY <1>1, <1>2
<1>4. Announced' /\ Bottom' = c
  BY <1>1, <1>2 DEF Announced, Bottom
<1>5. \A m : ~Closing(m)' /\ ~Dropping(m)'
  BY <1>1, <1>2 DEF Closing, Dropping, CallFor
<1>6. Once("closed")' /\ Once("dropped")'
  BY <1>1, <1>2 DEF Once
<1> QED BY <1>2, <1>3, <1>4, <1>5, <1>6 DEF c

LEMMA NothingEmitted ==
  /\ calls = <<>> => /\ \A m : ~Pending(m) /\ ~Closing(m) /\ ~Dropping(m)
                     /\ EmittedOnce /\ Once("closed") /\ Once("dropped")
  /\ calls' = <<>> => /\ \A m : ~Pending(m)' /\ ~Closing(m)' /\ ~Dropping(m)'
                      /\ EmittedOnce' /\ Once("closed")' /\ Once("dropped")'
<1>1. Len(<<>>) = 0
  OBVIOUS
<1> QED BY <1>1 DEF Pending, Announced, Closing, Dropping, EmittedOnce, Once

LEMMA CallsUnchanged ==
  ASSUME calls' = calls
  PROVE  /\ \A m : (Pending(m)' <=> Pending(m)) /\ (Closing(m)' <=> Closing(m)) /\ (Dropping(m)' <=> Dropping(m))
         /\ EmittedOnce' <=> EmittedOnce
         /\ Once("closed")' <=> Once("closed")
         /\ Once("dropped")' <=> Once("dropped")
BY DEF Pending, Announced, Bottom, Waits, Closing, Dropping, CallFor, EmittedOnce, Once

\* The order in which a reload hands notifications on.
LEMMA InSomeOrder ==
  ASSUME NEW S, S \subseteq Notes!Notes
  PROVE  /\ Notes!SetToSeq(S) \in Seq(S)
         /\ \A n \in S : \E i \in 1..Len(Notes!SetToSeq(S)) : Notes!SetToSeq(S)[i] = n
         /\ \A i, j \in 1..Len(Notes!SetToSeq(S)) : Notes!SetToSeq(S)[i] = Notes!SetToSeq(S)[j] => i = j
<1> DEFINE N == Cardinality(S)
           f == Notes!SetToSeq(S)
<1>1. IsFiniteSet(S)
  <2>1. IsFiniteSet(Notes!Notes)
    BY NotesAreNumbered, FS_Interval DEF Notes!Notes
  <2> QED BY <2>1, FS_Subset
<1>2. N \in Nat /\ ExistsBijection(1..N, S)
  BY <1>1, FS_CardinalityType
<1>3. \E g \in [1..N -> S] : Notes!IsInjective(g)
  BY <1>2 DEF ExistsBijection, Bijection, Injection, IsInjective, Notes!IsInjective
<1>4. Notes!Cardinality(S) = N
  BY DEF Cardinality, Notes!Cardinality
<1>5. f \in [1..N -> S] /\ Notes!IsInjective(f)
  BY <1>3, <1>4 DEF Notes!SetToSeq
<1> HIDE DEF f
<1>6. f \in Injection(1..N, S)
  BY <1>5 DEF Injection, IsInjective, Notes!IsInjective
<1>7. f \in Surjection(1..N, S)
  <2>1. IsFiniteSet(1..N) /\ Cardinality(1..N) = N
    BY <1>2, FS_Interval
  <2> QED BY <1>1, <1>6, <2>1, FS_Injection
<1>8. f \in Seq(S) /\ Len(f) = N
  BY <1>2, <1>5
<1>9. \A n \in S : \E i \in 1..N : f[i] = n
  BY <1>7 DEF Surjection
<1>10. \A i, j \in 1..N : f[i] = f[j] => i = j
  BY <1>5 DEF Notes!IsInjective
<1> QED BY <1>8, <1>9, <1>10 DEF f

LEMMA FirstInOrder ==
  ASSUME NEW S, S \subseteq Notes!Notes, S # {} PROVE Head(Notes!SetToSeq(S)) \in S
<1>1. PICK q : q = Notes!SetToSeq(S)
  OBVIOUS
<1>2. q \in Seq(S) /\ \A n \in S : \E i \in 1..Len(q) : q[i] = n
  BY <1>1, InSomeOrder
<1>3. q # <<>>
  BY <1>2, EmptySeq
<1> QED BY <1>1, <1>2, <1>3, HeadTailProperties

-----------------------------------------------------------------------------
(* Notifications                                                             *)

LEMMA InitNoteInv == Notes!Init => NoteInv
<1> SUFFICES ASSUME Notes!Init PROVE NoteInv
  OBVIOUS
<1>1. calls = <<>> /\ idMap = {} /\ listed = {} /\ notes = [n \in Notes!Notes |-> Notes!Unsent]
  BY DEF Notes!Init
<1>2. Notes!Unsent \in AnyNote /\ Notes!Unsent.st = "unsent" /\ Notes!Unsent.told = 0
  BY DEF Notes!Unsent, AnyNote
<1>3. NoteType
  BY <1>1, <1>2, EmptySeq DEF NoteType
<1> QED BY <1>1, <1>2, <1>3, NothingEmitted DEF NoteInv, OpenIsListed, ToldOnce

LEMMA NoteUpdates ==
  ASSUME NEW p \in AnyNote
  PROVE  /\ [p EXCEPT !.st = "gone"] \in AnyNote
         /\ [p EXCEPT !.st = "alive"] \in AnyNote
         /\ \A st \in {"alive", "retained", "doomed", "gone"} : [p EXCEPT !.st = st] \in AnyNote
         /\ \A r \in {"tracked", "Expired", "Dismissed"} : [p EXCEPT !.reason = r] \in AnyNote
         /\ [p EXCEPT !.locks = 0] \in AnyNote /\ [p EXCEPT !.locks = 1] \in AnyNote
         /\ \A k \in Nat : [p EXCEPT !.told = k] \in AnyNote
         /\ p.told \in Nat /\ p.told + 1 \in Nat
BY DEF AnyNote

\* What changes of a notification without a call: it is locked, tracked or deleted.
LEMMA NoteChanges ==
  ASSUME NoteInv, NEW n \in Notes!Notes, NEW new \in AnyNote, notes' = [notes EXCEPT ![n] = new],
         new.told = notes[n].told, UNCHANGED <<idMap, listed, calls, reclosed>>,
         \/ new.st = notes[n].st
         \/ notes[n].st \in {"retained", "doomed"} /\ new.st \in {"doomed", "gone"}
  PROVE  NoteInv'
<1>1. /\ notes' \in [Notes!Notes -> AnyNote] /\ notes'[n] = new
      /\ \A m \in Notes!Notes : m # n => notes'[m] = notes[m]
  BY DEF NoteInv, NoteType
<1>2. NoteType' /\ EmittedOnce'
  BY <1>1, CallsUnchanged DEF NoteInv, NoteType
<1>3. OpenIsListed'
  BY <1>1, CallsUnchanged DEF NoteInv, OpenIsListed
<1>4. ASSUME ~reclosed PROVE ToldOnce'
  BY <1>1, <1>4, CallsUnchanged DEF NoteInv, OpenIsListed, ToldOnce
<1> QED BY <1>2, <1>3, <1>4 DEF NoteInv

\* closed() of a notification on the list is emitted.
LEMMA ClosingKeeps ==
  ASSUME NoteInv, NEW n \in listed, calls' = <<Notes!Call("closed", n, <<>>)>> \o calls,
         UNCHANGED <<idMap, listed>>, notes' \in [Notes!Notes -> AnyNote],
         \A m \in Notes!Notes : notes'[m].st = notes[m].st /\ notes'[m].told = notes[m].told,
         ~reclosed' => ~reclosed /\ ~Closing(n)
  PROVE  NoteInv'
<1>1. n \in Notes!Notes /\ NoteType
  BY DEF NoteInv, NoteType
<1>2. NoteType' /\ EmittedOnce'
  BY <1>1, PushClosed DEF NoteInv, NoteType
<1>3. /\ \A m : Pending(m)' <=> Pending(m)
      /\ \A m : Closing(m)' => m = n \/ Closing(m)
      /\ \A m : Dropping(m)' <=> Dropping(m)
      /\ ~Closing(n) /\ Once("closed") => Once("closed")'
      /\ Once("dropped") => Once("dropped")'
  BY <1>1, PushClosed
<1>4. OpenIsListed'
  BY <1>3 DEF NoteInv, OpenIsListed
<1>5. ASSUME ~reclosed' PROVE ToldOnce'
  BY <1>3, <1>5 DEF NoteInv, ToldOnce
<1> QED BY <1>2, <1>4, <1>5 DEF NoteInv

LEMMA ClosedKeeps == ASSUME NoteInv, Notes!Closed PROVE NoteInv'
<1>0. PICK n : n = Head(calls).n
  OBVIOUS
<1>1. /\ calls # <<>> /\ Head(calls).at = "closed"
      /\ notes' = [notes EXCEPT ![n].told = @ + 1]
      /\ idMap' = idMap \ {n} /\ listed' = listed \ {n} /\ reclosed' = reclosed
      /\ calls' = <<Notes!Call("dropped", n, <<>>)>> \o Tail(calls)
  BY <1>0 DEF Notes!Closed, Notes!At, Notes!Top
<1>2. /\ calls' \in Seq(AnyCall) /\ n \in Notes!Notes /\ Closing(n)
      /\ EmittedOnce'
      /\ \A m : Pending(m)' <=> Pending(m)
      /\ \A m : Closing(m)' => Closing(m)
      /\ \A m : Dropping(m)' <=> m = n \/ Dropping(m)
      /\ Once("closed") => ~Closing(n)' /\ Once("closed")'
      /\ ~Dropping(n) /\ Once("dropped") => Once("dropped")'
  BY <1>0, <1>1, ReplaceClosed DEF NoteInv
<1>3. notes \in [Notes!Notes -> AnyNote] /\ notes[n] \in AnyNote
  BY <1>2 DEF NoteInv, NoteType
<1>4. PICK k \in Nat : k = notes[n].told + 1
  BY <1>3, NoteUpdates
<1>5. notes' = [notes EXCEPT ![n] = [notes[n] EXCEPT !.told = k]]
  BY <1>1, <1>2, <1>3, <1>4
<1>6. [notes[n] EXCEPT !.told = k] \in AnyNote
  BY <1>3, NoteUpdates
<1>7. /\ notes' \in [Notes!Notes -> AnyNote] /\ \A m \in Notes!Notes : m # n => notes'[m] = notes[m]
      /\ notes'[n].st = notes[n].st /\ notes'[n].told = k
  BY <1>2, <1>3, <1>5, <1>6 DEF AnyNote
<1>8. NoteType'
  BY <1>1, <1>2, <1>7 DEF NoteInv, NoteType
<1>9. OpenIsListed'
  BY <1>1, <1>2, <1>7 DEF NoteInv, OpenIsListed
<1>10. ASSUME ~reclosed PROVE ToldOnce'
  <2>1. Once("closed") /\ n \in listed /\ ToldOnce /\ notes[n].told = 0 /\ notes[n].st = "alive" /\ ~Dropping(n) /\ ~Pending(n)
    BY <1>2, <1>10 DEF NoteInv, ToldOnce, OpenIsListed
  <2>2. k = 1
    BY <1>4, <2>1
  <2>3. ASSUME NEW m \in Notes!Notes
        PROVE  /\ Closing(m)' => m \in listed'
               /\ Dropping(m)' => notes'[m].st = "alive" /\ notes'[m].told = 1
               /\ m \in listed' \/ Pending(m)' \/ notes'[m].st = "unsent" => notes'[m].told = 0
               /\ notes'[m].st \in {"retained", "doomed", "gone"} => notes'[m].told = 1
    <3>1. CASE m = n
      BY <1>1, <1>2, <1>7, <2>1, <2>2, <3>1
    <3>2. CASE m # n
      BY <1>1, <1>2, <1>7, <2>1, <2>3, <3>2 DEF ToldOnce
    <3> QED BY <3>1, <3>2
  <2> QED BY <1>2, <2>1, <2>3 DEF ToldOnce
<1> QED BY <1>1, <1>2, <1>8, <1>9, <1>10 DEF NoteInv

LEMMA RetainedDestroyKeeps == ASSUME NoteInv, Notes!RetainedDestroy PROVE NoteInv'
<1>0. PICK n : n = Head(calls).n
  OBVIOUS
<1> DEFINE st == IF notes[n].st = "gone" THEN "gone" ELSE IF notes[n].locks = 0 THEN "doomed" ELSE "retained"
<1>1. /\ calls # <<>> /\ Head(calls).at = "dropped" /\ calls' = Tail(calls)
      /\ notes' = [notes EXCEPT ![n].st = IF @ = "gone" THEN @
                                          ELSE IF notes[n].locks = 0 THEN "doomed" ELSE "retained"]
      /\ UNCHANGED <<idMap, listed, reclosed>>
  BY <1>0 DEF Notes!RetainedDestroy, Notes!At, Notes!Top, Notes!Return
<1>2. /\ calls' \in Seq(AnyCall) /\ n \in Notes!Notes /\ Dropping(n)
      /\ EmittedOnce'
      /\ \A m : Pending(m)' <=> Pending(m)
      /\ \A m : Closing(m)' => Closing(m)
      /\ \A m : Dropping(m)' => Dropping(m)
      /\ \A m : m # n /\ Dropping(m) => Dropping(m)'
      /\ Once("dropped") => ~Dropping(n)' /\ Once("dropped")'
      /\ Once("closed") => Once("closed")'
  <2> HIDE DEF st
  <2> QED BY <1>0, <1>1, PopDropped DEF NoteInv
<1>3. notes \in [Notes!Notes -> AnyNote] /\ notes[n] \in AnyNote /\ st \in {"gone", "doomed", "retained"}
  BY <1>2 DEF NoteInv, NoteType
<1>4. notes' = [notes EXCEPT ![n] = [notes[n] EXCEPT !.st = st]]
  BY <1>1, <1>2, <1>3
<1> HIDE DEF st
<1>5. [notes[n] EXCEPT !.st = st] \in AnyNote
  BY <1>3, NoteUpdates
<1>6. /\ notes' \in [Notes!Notes -> AnyNote] /\ \A m \in Notes!Notes : m # n => notes'[m] = notes[m]
      /\ notes'[n].st = st /\ notes'[n].told = notes[n].told
  BY <1>2, <1>3, <1>4, <1>5 DEF AnyNote
<1>7. NoteType'
  BY <1>1, <1>2, <1>6 DEF NoteInv, NoteType
<1>8. OpenIsListed'
  BY <1>1, <1>2, <1>3, <1>6 DEF NoteInv, OpenIsListed
<1>9. ASSUME ~reclosed PROVE ToldOnce'
  <2>1. Once("dropped") /\ ToldOnce /\ notes[n].told = 1 /\ n \notin listed /\ ~Pending(n)
    BY <1>2, <1>9 DEF NoteInv, ToldOnce, OpenIsListed
  <2>2. ASSUME NEW m \in Notes!Notes
        PROVE  /\ Closing(m)' => m \in listed'
               /\ Dropping(m)' => notes'[m].st = "alive" /\ notes'[m].told = 1
               /\ m \in listed' \/ Pending(m)' \/ notes'[m].st = "unsent" => notes'[m].told = 0
               /\ notes'[m].st \in {"retained", "doomed", "gone"} => notes'[m].told = 1
    <3>1. CASE m = n
      BY <1>1, <1>2, <1>3, <1>6, <2>1, <3>1 DEF ToldOnce
    <3>2. CASE m # n
      BY <1>1, <1>2, <1>6, <2>1, <2>2, <3>2 DEF ToldOnce
    <3> QED BY <3>1, <3>2
  <2> QED BY <1>2, <2>1, <2>2 DEF ToldOnce
<1> QED BY <1>1, <1>2, <1>7, <1>8, <1>9 DEF NoteInv

\* The next notification n is announced, with the others of a reload after it.
LEMMA EmitNext ==
  ASSUME NEW n \in Notes!Notes, NEW rest \in Seq(Notes!Notes),
         calls' = <<Notes!Call("notification", n, rest)>>,
         \A j \in 1..Len(rest) : rest[j] # n,
         \A j, k \in 1..Len(rest) : rest[j] = rest[k] => j = k
  PROVE  /\ calls' \in Seq(AnyCall) /\ EmittedOnce' /\ Once("closed")' /\ Once("dropped")'
         /\ \A m : ~Closing(m)' /\ ~Dropping(m)'
         /\ \A m : Pending(m)' <=> m = n \/ \E j \in 1..Len(rest) : rest[j] = m
<1>1. /\ calls' \in Seq(AnyCall) /\ Announced' /\ Bottom' = Notes!Call("notification", n, rest)
      /\ \A m : ~Closing(m)' /\ ~Dropping(m)'
      /\ Once("closed")' /\ Once("dropped")'
      /\ \A i \in 1..Len(calls') : i = Len(calls')
  BY EmitNotification
<1>2. Bottom'.n = n /\ Bottom'.rest = rest
  BY <1>1 DEF Notes!Call
<1>3. EmittedOnce'
  BY <1>1, <1>2 DEF EmittedOnce, Waits
<1>4. \A m : Pending(m)' <=> m = n \/ \E j \in 1..Len(rest) : rest[j] = m
  BY <1>1, <1>2 DEF Pending, Waits
<1> QED BY <1>1, <1>3, <1>4

LEMMA NotifyKeeps == ASSUME NoteInv, Notes!Notify PROVE NoteInv'
<1>1. PICK n \in Notes!Notes :
        /\ notes[n].st = "unsent" /\ notes' = [notes EXCEPT ![n].st = "alive"]
        /\ calls' = <<Notes!Call("notification", n, <<>>)>> \o calls
  BY DEF Notes!Notify, Notes!Push
<1>2. calls = <<>> /\ UNCHANGED <<idMap, listed, reclosed>>
  BY DEF Notes!Notify
<1>3. calls' = <<Notes!Call("notification", n, <<>>)>>
  <2> DEFINE c == Notes!Call("notification", n, <<>>)
  <2>1. c \in AnyCall
    BY EmptySeq DEF AnyCall, Notes!Call
  <2> HIDE DEF c
  <2>2. calls' = <<c>>
    BY <1>1, <1>2, <2>1, StackPush DEF NoteInv, NoteType, c
  <2> QED BY <2>2 DEF c
<1>4. <<>> \in Seq(Notes!Notes) /\ Len(<<>>) = 0
  BY EmptySeq
<1>5. /\ calls' \in Seq(AnyCall) /\ EmittedOnce' /\ Once("closed")' /\ Once("dropped")'
      /\ \A m : ~Closing(m)' /\ ~Dropping(m)'
      /\ \A m : Pending(m)' <=> m = n
  <2> DEFINE rest == <<>>
  <2>1. rest \in Seq(Notes!Notes) /\ calls' = <<Notes!Call("notification", n, rest)>>
        /\ \A j \in 1..Len(rest) : FALSE
    BY <1>3, <1>4
  <2> HIDE DEF rest
  <2>2. /\ calls' \in Seq(AnyCall) /\ EmittedOnce' /\ Once("closed")' /\ Once("dropped")'
        /\ \A m : ~Closing(m)' /\ ~Dropping(m)'
        /\ \A m : Pending(m)' <=> m = n \/ \E j \in 1..Len(rest) : rest[j] = m
    BY <2>1, EmitNext
  <2> QED BY <2>1, <2>2
<1>6. /\ notes \in [Notes!Notes -> AnyNote] /\ notes[n] \in AnyNote
      /\ notes' = [notes EXCEPT ![n] = [notes[n] EXCEPT !.st = "alive"]]
  BY <1>1 DEF NoteInv, NoteType
<1>7. [notes[n] EXCEPT !.st = "alive"] \in AnyNote
  BY <1>6, NoteUpdates
<1>8. /\ notes' \in [Notes!Notes -> AnyNote] /\ \A m \in Notes!Notes : m # n => notes'[m] = notes[m]
      /\ notes'[n].st = "alive" /\ notes'[n].told = notes[n].told
  BY <1>6, <1>7 DEF AnyNote
<1>9. \A m : ~Pending(m) /\ ~Dropping(m)
  BY <1>2, NothingEmitted
<1>10. NoteType'
  BY <1>2, <1>5, <1>8 DEF NoteInv, NoteType
<1>11. OpenIsListed'
  BY <1>1, <1>2, <1>5, <1>8, <1>9 DEF NoteInv, OpenIsListed
<1>12. ASSUME ~reclosed PROVE ToldOnce'
  <2>1. ToldOnce /\ notes[n].told = 0
    BY <1>1, <1>12 DEF NoteInv, ToldOnce
  <2>2. ASSUME NEW m \in Notes!Notes
        PROVE  /\ m \in listed' \/ Pending(m)' \/ notes'[m].st = "unsent" => notes'[m].told = 0
               /\ notes'[m].st \in {"retained", "doomed", "gone"} => notes'[m].told = 1
    <3>1. CASE m = n
      BY <1>8, <2>1, <3>1
    <3>2. CASE m # n
      BY <1>2, <1>5, <1>8, <2>1, <2>2, <3>2 DEF ToldOnce
    <3> QED BY <3>1, <3>2
  <2> QED BY <1>5, <2>2 DEF ToldOnce
<1> QED BY <1>2, <1>5, <1>10, <1>11, <1>12 DEF NoteInv

\* After the handlers of notification() the notification is kept or closed; then nothing is
\* emitted any more or the next one is announced, which leaves the notifications ns.
LEMMA NotifiedKeeps ==
  ASSUME NoteInv, calls # <<>>, Head(calls).at = "notification",
         NEW n, n = Head(calls).n, NEW rest, rest = Head(calls).rest,
         notes' \in [Notes!Notes -> AnyNote], UNCHANGED reclosed, idMap' = listed',
         \A m \in Notes!Notes : m # n => notes'[m].st = notes[m].st /\ notes'[m].told = notes[m].told,
         \/ notes'[n].st = notes[n].st /\ notes'[n].told = notes[n].told /\ listed' = listed \cup {n}
         \/ notes'[n].st = "gone" /\ notes'[n].told = notes[n].told + 1 /\ listed' = listed,
         calls' \in Seq(AnyCall), EmittedOnce', Once("closed")', Once("dropped")',
         \A m : ~Closing(m)' /\ ~Dropping(m)',
         \A m : Pending(m)' <=> \E j \in 1..Len(rest) : rest[j] = m
  PROVE  NoteInv'
<1>1. /\ Announced /\ Bottom = Head(calls) /\ Head(calls) \in AnyCall
      /\ \A m : ~Closing(m) /\ ~Dropping(m)
  BY AtNotification DEF NoteInv
<1>2. n \in Notes!Notes /\ \A m : Pending(m) <=> m = n \/ \E j \in 1..Len(rest) : rest[j] = m
  BY <1>1 DEF Pending, Waits, AnyCall
<1>3. \A m : Pending(m)' => Pending(m) /\ m # n
  BY <1>1, <1>2 DEF NoteInv, EmittedOnce, Waits
<1>4. \A m : Pending(m) /\ m # n => Pending(m)'
  BY <1>2
<1>5. Pending(n) /\ notes[n].st = "alive" /\ n \notin listed
  BY <1>2 DEF NoteInv, OpenIsListed
<1>6. NoteType'
  BY <1>2 DEF NoteInv, NoteType
<1>7. OpenIsListed'
  BY <1>1, <1>2, <1>3, <1>4, <1>5 DEF NoteInv, OpenIsListed
<1>8. ASSUME ~reclosed PROVE ToldOnce'
  <2>1. ToldOnce /\ notes[n].told = 0
    BY <1>2, <1>5, <1>8 DEF NoteInv, ToldOnce
  <2>2. ASSUME NEW m \in Notes!Notes
        PROVE  /\ m \in listed' \/ Pending(m)' \/ notes'[m].st = "unsent" => notes'[m].told = 0
               /\ notes'[m].st \in {"retained", "doomed", "gone"} => notes'[m].told = 1
    <3>1. CASE m = n
      BY <1>3, <1>5, <2>1, <3>1
    <3>2. CASE m # n
      BY <1>3, <2>1, <2>2, <3>2 DEF ToldOnce
    <3> QED BY <3>1, <3>2
  <2> QED BY <2>2 DEF ToldOnce
<1> QED BY <1>6, <1>7, <1>8 DEF NoteInv

LEMMA DroppedMakes ==
  ASSUME NoteType, NEW n \in Notes!Notes, NEW gone, gone = [notes EXCEPT ![n].st = "gone", ![n].told = @ + 1]
  PROVE  /\ gone \in [Notes!Notes -> AnyNote]
         /\ \A m \in Notes!Notes : m # n => gone[m] = notes[m]
         /\ gone[n].st = "gone" /\ gone[n].told = notes[n].told + 1
<1>1. notes \in [Notes!Notes -> AnyNote] /\ notes[n] \in AnyNote
  BY DEF NoteType
<1>2. PICK k \in Nat : k = notes[n].told + 1
  BY <1>1, NoteUpdates
<1> DEFINE p == [[notes[n] EXCEPT !.st = "gone"] EXCEPT !.told = k]
<1>3. gone = [notes EXCEPT ![n] = p]
  BY <1>1, <1>2
<1>4. p \in AnyNote /\ p.st = "gone" /\ p.told = k
  BY <1>1, NoteUpdates DEF AnyNote
<1> HIDE DEF p
<1> QED BY <1>1, <1>2, <1>3, <1>4

LEMMA DroppedChanges ==
  ASSUME NoteType, NEW n \in Notes!Notes,
         notes' = [notes EXCEPT ![n].st = "gone", ![n].told = @ + 1]
  PROVE  /\ notes' \in [Notes!Notes -> AnyNote]
         /\ \A m \in Notes!Notes : m # n => notes'[m] = notes[m]
         /\ notes'[n].st = "gone" /\ notes'[n].told = notes[n].told + 1
BY DroppedMakes

LEMMA NotifiedLastKeeps == ASSUME NoteInv, Notes!Notified PROVE NoteInv'
<1>0. PICK n : n = Head(calls).n
  OBVIOUS
<1>1. /\ calls # <<>> /\ Head(calls).at = "notification" /\ Head(calls).rest = <<>>
      /\ calls' = Tail(calls) /\ UNCHANGED reclosed
      /\ \/ idMap' = idMap \cup {n} /\ listed' = listed \cup {n} /\ UNCHANGED notes
         \/ notes' = [notes EXCEPT ![n].st = "gone", ![n].told = @ + 1] /\ UNCHANGED <<idMap, listed>>
  BY <1>0 DEF Notes!Notified, Notes!At, Notes!Top, Notes!Return, Notes!Kept, Notes!Dropped
<1>2. NoteType /\ EmittedOnce /\ idMap = listed
  BY DEF NoteInv, OpenIsListed
<1>3. calls' = <<>> /\ Head(calls) \in AnyCall
  BY <1>1, <1>2, AtNotification
<1>4. n \in Notes!Notes /\ calls' \in Seq(AnyCall)
  BY <1>0, <1>3, EmptySeq DEF AnyCall
<1>5. /\ notes' \in [Notes!Notes -> AnyNote] /\ idMap' = listed'
      /\ \A m \in Notes!Notes : m # n => notes'[m].st = notes[m].st /\ notes'[m].told = notes[m].told
      /\ \/ notes'[n].st = notes[n].st /\ notes'[n].told = notes[n].told /\ listed' = listed \cup {n}
         \/ notes'[n].st = "gone" /\ notes'[n].told = notes[n].told + 1 /\ listed' = listed
  <2>1. CASE UNCHANGED notes /\ idMap' = idMap \cup {n} /\ listed' = listed \cup {n}
    BY <1>2, <2>1 DEF NoteType
  <2>2. CASE notes' = [notes EXCEPT ![n].st = "gone", ![n].told = @ + 1] /\ UNCHANGED <<idMap, listed>>
    BY <1>2, <1>4, <2>2, DroppedChanges
  <2> QED BY <1>1, <2>1, <2>2
<1>6. \A m : Pending(m)' <=> \E j \in 1..Len(Head(calls).rest) : Head(calls).rest[j] = m
  <2>1. Len(Head(calls).rest) = 0
    BY <1>1
  <2> QED BY <1>3, <2>1, NothingEmitted
<1>7. EmittedOnce' /\ Once("closed")' /\ Once("dropped")' /\ \A m : ~Closing(m)' /\ ~Dropping(m)'
  BY <1>3, NothingEmitted
<1> QED BY <1>0, <1>1, <1>4, <1>5, <1>6, <1>7, NotifiedKeeps

LEMMA HandedChanges ==
  ASSUME NEW ns \in [Notes!Notes -> AnyNote], NEW n \in Notes!Notes
  PROVE  /\ Notes!Handed(ns, n) \in [Notes!Notes -> AnyNote]
         /\ \A m \in Notes!Notes : /\ Notes!Handed(ns, n)[m].st = ns[m].st
                                   /\ Notes!Handed(ns, n)[m].told = ns[m].told
<1>1. ns[n] \in AnyNote /\ [ns[n] EXCEPT !.reason = "Dismissed"] \in AnyNote
  BY NoteUpdates
<1>2. Notes!Handed(ns, n) = [ns EXCEPT ![n] = [ns[n] EXCEPT !.reason = "Dismissed"]]
  BY DEF Notes!Handed
<1>3. [ns[n] EXCEPT !.reason = "Dismissed"].st = ns[n].st
      /\ [ns[n] EXCEPT !.reason = "Dismissed"].told = ns[n].told
  BY <1>1 DEF AnyNote
<1> QED BY <1>1, <1>2, <1>3

LEMMA NotifiedAgainKeeps == ASSUME NoteInv, Notes!NotifiedAgain PROVE NoteInv'
<1>0. PICK n, rest : n = Head(calls).n /\ rest = Head(calls).rest
  OBVIOUS
<1> DEFINE next == Head(rest)
           left == Tail(rest)
           gone == [notes EXCEPT ![n].st = "gone", ![n].told = @ + 1]
<1>1. /\ calls # <<>> /\ Head(calls).at = "notification" /\ rest # <<>> /\ UNCHANGED reclosed
      /\ calls' = <<Notes!Call("notification", next, left)>> \o Tail(calls)
      /\ \/ idMap' = idMap \cup {n} /\ listed' = listed \cup {n} /\ notes' = Notes!Handed(notes, next)
         \/ notes' = Notes!Handed(gone, next) /\ UNCHANGED <<idMap, listed>>
  BY <1>0 DEF Notes!NotifiedAgain, Notes!At, Notes!Top
<1>2. NoteType /\ EmittedOnce /\ idMap = listed
  BY DEF NoteInv, OpenIsListed
<1>3. Tail(calls) = <<>> /\ Head(calls) \in AnyCall /\ Announced /\ Bottom = Head(calls)
  BY <1>1, <1>2, AtNotification
<1>4. n \in Notes!Notes /\ rest \in Seq(Notes!Notes)
  BY <1>0, <1>3 DEF AnyCall
<1>5. /\ Len(rest) \in Nat /\ Len(rest) > 0 /\ next = rest[1] /\ next \in Notes!Notes
      /\ left \in Seq(Notes!Notes) /\ Len(left) = Len(rest) - 1
      /\ \A j \in 1..Len(left) : left[j] = rest[j + 1]
  BY <1>1, <1>4, HeadTailProperties, LenProperties, EmptySeq
<1>6. \A j, k \in 1..Len(rest) : rest[j] = rest[k] => j = k
  BY <1>0, <1>2, <1>3 DEF EmittedOnce
<1> HIDE DEF next, left
<1>7. \A j \in 1..Len(left) : left[j] # next
  <2>1. ASSUME NEW j \in 1..Len(left), left[j] = next PROVE FALSE
    <3>1. j + 1 \in 1..Len(rest) /\ 1 \in 1..Len(rest) /\ rest[j + 1] = rest[1]
      BY <1>5, <2>1
    <3>2. j + 1 = 1
      BY <1>6, <3>1
    <3> QED BY <1>5, <3>2
  <2> QED BY <2>1
<1>8. ASSUME NEW j \in 1..Len(left), NEW k \in 1..Len(left), left[j] = left[k] PROVE j = k
  <2>1. j + 1 \in 1..Len(rest) /\ k + 1 \in 1..Len(rest) /\ rest[j + 1] = rest[k + 1] /\ j \in Int /\ k \in Int
    BY <1>5, <1>8
  <2>2. j + 1 = k + 1
    BY <1>6, <2>1
  <2> QED BY <2>1, <2>2
<1>9. calls' = <<Notes!Call("notification", next, left)>>
  <2> DEFINE c == Notes!Call("notification", next, left)
  <2>1. c \in AnyCall
    BY <1>5 DEF AnyCall, Notes!Call
  <2> HIDE DEF c
  <2>2. <<c>> \in Seq(AnyCall)
    BY <2>1
  <2>3. <<c>> \o <<>> = <<c>>
    BY <2>2, ConcatEmptySeq
  <2> QED BY <1>1, <1>3, <2>3 DEF c
<1>10. /\ calls' \in Seq(AnyCall) /\ EmittedOnce' /\ Once("closed")' /\ Once("dropped")'
       /\ \A m : ~Closing(m)' /\ ~Dropping(m)'
       /\ \A m : Pending(m)' <=> m = next \/ \E j \in 1..Len(left) : left[j] = m
  BY <1>5, <1>7, <1>8, <1>9, EmitNext
<1>11. ASSUME NEW m PROVE (m = next \/ \E j \in 1..Len(left) : left[j] = m)
                            <=> \E j \in 1..Len(rest) : rest[j] = m
  <2>1. ASSUME NEW j \in 1..Len(rest) PROVE j = 1 \/ (j - 1 \in 1..Len(left) /\ left[j - 1] = rest[j])
    BY <1>5, <2>1
  <2>2. ASSUME NEW j \in 1..Len(left) PROVE j + 1 \in 1..Len(rest) /\ rest[j + 1] = left[j]
    BY <1>5, <2>2
  <2> QED BY <1>5, <2>1, <2>2
<1>12. \A m : Pending(m)' <=> \E j \in 1..Len(rest) : rest[j] = m
  BY <1>10, <1>11
<1>13. /\ notes' \in [Notes!Notes -> AnyNote] /\ idMap' = listed'
       /\ \A m \in Notes!Notes : m # n => notes'[m].st = notes[m].st /\ notes'[m].told = notes[m].told
       /\ \/ notes'[n].st = notes[n].st /\ notes'[n].told = notes[n].told /\ listed' = listed \cup {n}
          \/ notes'[n].st = "gone" /\ notes'[n].told = notes[n].told + 1 /\ listed' = listed
  <2>1. CASE idMap' = idMap \cup {n} /\ listed' = listed \cup {n} /\ notes' = Notes!Handed(notes, next)
    BY <1>2, <1>4, <1>5, <2>1, HandedChanges DEF NoteType
  <2>2. CASE notes' = Notes!Handed(gone, next) /\ UNCHANGED <<idMap, listed>>
    <3>1. /\ gone \in [Notes!Notes -> AnyNote]
          /\ \A m \in Notes!Notes : m # n => gone[m] = notes[m]
          /\ gone[n].st = "gone" /\ gone[n].told = notes[n].told + 1
      BY <1>2, <1>4, DroppedMakes
    <3> HIDE DEF gone
    <3> QED BY <1>2, <1>4, <1>5, <2>2, <3>1, HandedChanges
  <2> QED BY <1>1, <2>1, <2>2
<1> HIDE DEF gone
<1>14. calls # <<>> /\ Head(calls).at = "notification" /\ UNCHANGED reclosed
  BY <1>1
<1> QED BY <1>0, <1>10, <1>12, <1>13, <1>14, NotifiedKeeps

\* A reload takes over the notifications of the list, or closes them all.
LEMMA SwitchKeeps ==
  ASSUME NoteInv, NEW reEmit \in BOOLEAN, Notes!SwitchGeneration(reEmit) PROVE NoteInv'
<1>1. calls = <<>> /\ listed # {} /\ idMap' = {} /\ listed' = {} /\ UNCHANGED reclosed
  BY DEF Notes!SwitchGeneration
<1>2. NoteType /\ notes \in [Notes!Notes -> AnyNote] /\ listed \subseteq Notes!Notes
      /\ \A m : ~Pending(m) /\ ~Dropping(m) /\ ~Closing(m)
  BY <1>1, NothingEmitted DEF NoteInv, NoteType
<1>3. \A m \in Notes!Notes : notes[m].st = "alive" <=> m \in listed
  BY <1>2 DEF NoteInv, OpenIsListed
<1>4. CASE reEmit
  <2> DEFINE old  == Notes!SetToSeq(listed)
             next == Head(old)
             left == Tail(old)
  <2>1. /\ notes' = Notes!Handed(notes, next)
        /\ calls' = <<Notes!Call("notification", next, left)>> \o calls
    BY <1>4 DEF Notes!SwitchGeneration, Notes!Push
  <2>2. /\ old \in Seq(listed)
        /\ \A n \in listed : \E i \in 1..Len(old) : old[i] = n
        /\ \A i, j \in 1..Len(old) : old[i] = old[j] => i = j
    BY <1>2, InSomeOrder
  <2> HIDE DEF old
  <2>3. old # <<>> /\ old \in Seq(Notes!Notes)
    <3>1. Len(old) # 0
      BY <1>1, <2>2
    <3> QED BY <1>2, <2>2, <3>1, EmptySeq, SeqMonotonic
  <2>4. /\ Len(old) \in Nat /\ Len(old) > 0 /\ next = old[1] /\ next \in listed
        /\ left \in Seq(listed) /\ left \in Seq(Notes!Notes) /\ Len(left) = Len(old) - 1
        /\ \A j \in 1..Len(left) : left[j] = old[j + 1] /\ left[j] \in listed
    <3>1. next \in listed /\ left \in Seq(listed) /\ Len(left) = Len(old) - 1
          /\ \A j \in 1..Len(left) : left[j] = old[j + 1]
      BY <2>2, <2>3, HeadTailProperties
    <3>2. Len(old) \in Nat /\ Len(old) > 0 /\ next = old[1]
      BY <2>2, <2>3, LenProperties, EmptySeq
    <3>3. \A j \in 1..Len(left) : left[j] \in listed
      BY <3>1, ElementOfSeq
    <3>4. left \in Seq(Notes!Notes)
      BY <2>3, HeadTailProperties
    <3> QED BY <3>1, <3>2, <3>3, <3>4
  <2> HIDE DEF next, left
  <2>5. \A j \in 1..Len(left) : left[j] # next
    <3>1. ASSUME NEW j \in 1..Len(left), left[j] = next PROVE FALSE
      <4>1. j + 1 \in 1..Len(old) /\ 1 \in 1..Len(old) /\ old[j + 1] = old[1]
        BY <2>4, <3>1
      <4>2. j + 1 = 1
        BY <2>2, <4>1
      <4> QED BY <2>4, <4>2
    <3> QED BY <3>1
  <2>6. ASSUME NEW j \in 1..Len(left), NEW k \in 1..Len(left), left[j] = left[k] PROVE j = k
    <3>1. j + 1 \in 1..Len(old) /\ k + 1 \in 1..Len(old) /\ old[j + 1] = old[k + 1] /\ j \in Int /\ k \in Int
      BY <2>4, <2>6
    <3>2. j + 1 = k + 1
      BY <2>2, <3>1
    <3> QED BY <3>1, <3>2
  <2>7. calls' = <<Notes!Call("notification", next, left)>>
    <3> DEFINE c == Notes!Call("notification", next, left)
    <3>1. c \in AnyCall
      BY <1>2, <2>4 DEF AnyCall, Notes!Call
    <3> HIDE DEF c
    <3>2. <<c>> \in Seq(AnyCall)
      BY <3>1
    <3>3. <<c>> \o <<>> = <<c>>
      BY <3>2, ConcatEmptySeq
    <3> QED BY <1>1, <2>1, <3>3 DEF c
  <2>8. next \in Notes!Notes
    BY <1>2, <2>4
  <2>9. /\ calls' \in Seq(AnyCall) /\ EmittedOnce' /\ Once("closed")' /\ Once("dropped")'
        /\ \A m : ~Closing(m)' /\ ~Dropping(m)'
        /\ \A m : Pending(m)' <=> m = next \/ \E j \in 1..Len(left) : left[j] = m
    BY <2>4, <2>5, <2>6, <2>7, <2>8, EmitNext
  <2>10. \A m : Pending(m)' <=> m \in listed
    <3>1. ASSUME NEW m \in listed PROVE m = next \/ \E j \in 1..Len(left) : left[j] = m
      <4>1. PICK i \in 1..Len(old) : old[i] = m
        BY <2>2
      <4>2. i = 1 \/ (i - 1 \in 1..Len(left) /\ left[i - 1] = old[i])
        BY <2>4
      <4> QED BY <2>4, <4>1, <4>2
    <3> QED BY <2>4, <2>9, <3>1
  <2>11. /\ notes' \in [Notes!Notes -> AnyNote]
         /\ \A m \in Notes!Notes : notes'[m].st = notes[m].st /\ notes'[m].told = notes[m].told
    BY <1>2, <2>1, <2>8, HandedChanges
  <2>12. NoteType'
    BY <1>1, <2>9, <2>11 DEF NoteType
  <2>13. OpenIsListed'
    BY <1>1, <1>3, <2>9, <2>10, <2>11 DEF OpenIsListed
  <2>14. ASSUME ~reclosed PROVE ToldOnce'
    BY <1>1, <2>9, <2>10, <2>11, <2>14 DEF NoteInv, ToldOnce
  <2> QED BY <1>1, <2>9, <2>12, <2>13, <2>14 DEF NoteInv
<1>5. CASE ~reEmit
  <2>1. calls' = <<>>
        /\ notes' = [n \in Notes!Notes |-> IF n \in listed
                       THEN [notes[n] EXCEPT !.st = "gone", !.told = @ + 1] ELSE notes[n]]
    BY <1>1, <1>5 DEF Notes!SwitchGeneration
  <2>2. ASSUME NEW n \in listed
        PROVE  /\ [notes[n] EXCEPT !.st = "gone", !.told = @ + 1] \in AnyNote
               /\ [notes[n] EXCEPT !.st = "gone", !.told = @ + 1].st = "gone"
               /\ [notes[n] EXCEPT !.st = "gone", !.told = @ + 1].told = notes[n].told + 1
    <3>1. notes[n] \in AnyNote
      BY <1>2
    <3>2. PICK k \in Nat : k = notes[n].told + 1
      BY <3>1, NoteUpdates
    <3> DEFINE p == [[notes[n] EXCEPT !.st = "gone"] EXCEPT !.told = k]
    <3>3. p \in AnyNote /\ p.st = "gone" /\ p.told = k
      BY <3>1, NoteUpdates DEF AnyNote
    <3>4. [notes[n] EXCEPT !.st = "gone", !.told = @ + 1] = p
      BY <3>1, <3>2
    <3> HIDE DEF p
    <3> QED BY <3>2, <3>3, <3>4
  <2>3. /\ notes' \in [Notes!Notes -> AnyNote]
        /\ \A n \in Notes!Notes : IF n \in listed
             THEN notes'[n].st = "gone" /\ notes'[n].told = notes[n].told + 1 ELSE notes'[n] = notes[n]
    BY <1>2, <2>1, <2>2
  <2>4. calls' \in Seq(AnyCall) /\ EmittedOnce' /\ Once("closed")' /\ Once("dropped")'
        /\ \A m : ~Pending(m)' /\ ~Closing(m)' /\ ~Dropping(m)'
    BY <2>1, EmptySeq, NothingEmitted
  <2>5. NoteType'
    BY <1>1, <2>3, <2>4 DEF NoteType
  <2>6. OpenIsListed'
    BY <1>1, <1>3, <2>3, <2>4 DEF OpenIsListed
  <2>7. ASSUME ~reclosed PROVE ToldOnce'
    <3>1. ToldOnce
      BY <2>7 DEF NoteInv
    <3>2. ASSUME NEW m \in Notes!Notes
          PROVE  /\ notes'[m].st = "unsent" => notes'[m].told = 0
                 /\ notes'[m].st \in {"retained", "doomed", "gone"} => notes'[m].told = 1
      <4>1. CASE m \in listed
        BY <2>3, <3>1, <3>2, <4>1 DEF ToldOnce
      <4>2. CASE m \notin listed
        BY <2>3, <3>1, <3>2, <4>2 DEF ToldOnce
      <4> QED BY <4>1, <4>2
    <3> QED BY <1>1, <2>4, <3>2 DEF ToldOnce
  <2> QED BY <1>1, <2>4, <2>5, <2>6, <2>7 DEF NoteInv
<1> QED BY <1>4, <1>5

LEMMA CloseNotificationKeeps ==
  ASSUME NoteInv, NEW n \in Notes!Notes, Notes!CloseNotification(n) PROVE NoteInv'
<1>1. n \in listed /\ calls = <<>> /\ UNCHANGED <<notes, idMap, listed, reclosed>>
      /\ calls' = <<Notes!Call("closed", n, <<>>)>> \o calls
  BY DEF Notes!CloseNotification, Notes!Push, NoteInv, OpenIsListed
<1>2. ~Closing(n)
  BY <1>1, NothingEmitted
<1>3. notes' \in [Notes!Notes -> AnyNote]
  BY <1>1 DEF NoteInv, NoteType
<1> QED BY <1>1, <1>2, <1>3, ClosingKeeps

LEMMA CloseKeeps ==
  ASSUME NoteInv, NEW n \in Notes!Notes, NEW reason \in {"Expired", "Dismissed"}, Notes!Close(n, reason)
  PROVE  NoteInv'
<1>1. notes \in [Notes!Notes -> AnyNote] /\ notes[n] \in AnyNote /\ idMap = listed
  BY DEF NoteInv, NoteType, OpenIsListed
<1> DEFINE new == [notes[n] EXCEPT !.reason = reason]
<1>2. notes' = [notes EXCEPT ![n] = new] /\ UNCHANGED <<idMap, listed>>
  BY <1>1 DEF Notes!Close
<1>3. new \in AnyNote /\ new.st = notes[n].st /\ new.told = notes[n].told
  BY <1>1, NoteUpdates DEF AnyNote
<1> HIDE DEF new
<1>4. CASE n \in listed
  <2>1. calls' = <<Notes!Call("closed", n, <<>>)>> \o calls
        /\ reclosed' = (reclosed \/ Notes!Emitting("closed", n))
    BY <1>1, <1>4 DEF Notes!Close, Notes!Push
  <2>2. Closing(n) => Notes!Emitting("closed", n)
    BY DEF Closing, CallFor, Notes!Emitting, NoteInv, NoteType
  <2>3. /\ notes' \in [Notes!Notes -> AnyNote]
        /\ \A m \in Notes!Notes : notes'[m].st = notes[m].st /\ notes'[m].told = notes[m].told
    BY <1>1, <1>2, <1>3
  <2>4. ~reclosed' => ~reclosed /\ ~Closing(n)
    BY <2>1, <2>2
  <2> QED BY <1>2, <1>4, <2>1, <2>3, <2>4, ClosingKeeps
<1>5. CASE n \notin listed
  <2>1. UNCHANGED <<calls, reclosed>>
    BY <1>1, <1>5 DEF Notes!Close
  <2> QED BY <1>2, <1>3, <2>1, NoteChanges
<1> QED BY <1>4, <1>5

LEMMA TrackedKeeps ==
  ASSUME NoteInv, NEW n \in Notes!Notes, Notes!SetTracked(n) PROVE NoteInv'
<1>1. notes \in [Notes!Notes -> AnyNote] /\ notes[n] \in AnyNote
  BY DEF NoteInv, NoteType
<1> DEFINE new == [notes[n] EXCEPT !.reason = "tracked"]
<1>2. notes' = [notes EXCEPT ![n] = new] /\ UNCHANGED <<idMap, listed, calls, reclosed>>
  BY <1>1 DEF Notes!SetTracked
<1>3. new \in AnyNote /\ new.st = notes[n].st /\ new.told = notes[n].told
  BY <1>1, NoteUpdates DEF AnyNote
<1> HIDE DEF new
<1> QED BY <1>2, <1>3, NoteChanges

LEMMA LockKeeps ==
  ASSUME NoteInv, NEW n \in Notes!Notes, Notes!Lock(n) PROVE NoteInv'
<1>1. notes \in [Notes!Notes -> AnyNote] /\ notes[n] \in AnyNote
  BY DEF NoteInv, NoteType
<1> DEFINE new == [notes[n] EXCEPT !.locks = 1]
<1>2. notes' = [notes EXCEPT ![n] = new] /\ UNCHANGED <<idMap, listed, calls, reclosed>>
  BY <1>1 DEF Notes!Lock
<1>3. new \in AnyNote /\ new.st = notes[n].st /\ new.told = notes[n].told
  BY <1>1, NoteUpdates DEF AnyNote
<1> HIDE DEF new
<1> QED BY <1>2, <1>3, NoteChanges

LEMMA UnlockKeeps ==
  ASSUME NoteInv, NEW n \in Notes!Notes, Notes!Unlock(n) PROVE NoteInv'
<1>1. notes \in [Notes!Notes -> AnyNote] /\ notes[n] \in AnyNote
  BY DEF NoteInv, NoteType
<1>2. UNCHANGED <<idMap, listed, calls, reclosed>>
      /\ notes' = [notes EXCEPT ![n].locks = 0, ![n].st = IF @ = "retained" THEN "doomed" ELSE @]
  BY DEF Notes!Unlock
<1>3. CASE notes[n].st = "retained"
  <2> DEFINE new == [[notes[n] EXCEPT !.locks = 0] EXCEPT !.st = "doomed"]
  <2>1. notes' = [notes EXCEPT ![n] = new]
    BY <1>1, <1>2, <1>3
  <2>2. new \in AnyNote /\ new.st = "doomed" /\ new.told = notes[n].told
    BY <1>1, NoteUpdates DEF AnyNote
  <2> HIDE DEF new
  <2> QED BY <1>2, <1>3, <2>1, <2>2, NoteChanges
<1>4. CASE notes[n].st # "retained"
  <2> DEFINE new == [notes[n] EXCEPT !.locks = 0]
  <2>1. notes' = [notes EXCEPT ![n] = new]
    BY <1>1, <1>2, <1>4
  <2>2. new \in AnyNote /\ new.st = notes[n].st /\ new.told = notes[n].told
    BY <1>1, NoteUpdates DEF AnyNote
  <2> HIDE DEF new
  <2> QED BY <1>2, <2>1, <2>2, NoteChanges
<1> QED BY <1>3, <1>4

LEMMA DeleteLaterKeeps ==
  ASSUME NoteInv, NEW n \in Notes!Notes, Notes!DeleteLater(n) PROVE NoteInv'
<1>1. notes \in [Notes!Notes -> AnyNote] /\ notes[n] \in AnyNote
  BY DEF NoteInv, NoteType
<1> DEFINE new == [notes[n] EXCEPT !.st = "gone"]
<1>2. notes' = [notes EXCEPT ![n] = new] /\ UNCHANGED <<idMap, listed, calls, reclosed>>
      /\ notes[n].st = "doomed"
  BY <1>1 DEF Notes!DeleteLater
<1>3. new \in AnyNote /\ new.st = "gone" /\ new.told = notes[n].told
  BY <1>1, NoteUpdates DEF AnyNote
<1> HIDE DEF new
<1> QED BY <1>2, <1>3, NoteChanges

LEMMA NextNoteInv == NoteInv /\ [Notes!Next]_(Notes!noteVars) => NoteInv'
<1> SUFFICES ASSUME NoteInv, [Notes!Next]_(Notes!noteVars) PROVE NoteInv'
  OBVIOUS
<1>1. CASE Notes!Notify
  BY <1>1, NotifyKeeps
<1>2. CASE Notes!Notified
  BY <1>2, NotifiedLastKeeps
<1>3. CASE Notes!NotifiedAgain
  BY <1>3, NotifiedAgainKeeps
<1>4. CASE Notes!Closed
  BY <1>4, ClosedKeeps
<1>5. CASE Notes!RetainedDestroy
  BY <1>5, RetainedDestroyKeeps
<1>6. ASSUME NEW reEmit \in BOOLEAN, Notes!SwitchGeneration(reEmit) PROVE NoteInv'
  BY <1>6, SwitchKeeps
<1>7. ASSUME NEW n \in Notes!Notes,
             \/ Notes!CloseNotification(n) \/ Notes!DeleteLater(n) \/ Notes!SetTracked(n)
             \/ Notes!Lock(n) \/ Notes!Unlock(n)
             \/ \E reason \in {"Expired", "Dismissed"} : Notes!Close(n, reason)
      PROVE  NoteInv'
  BY <1>7, CloseNotificationKeeps, DeleteLaterKeeps, TrackedKeeps, LockKeeps, UnlockKeeps, CloseKeeps
<1>8. CASE UNCHANGED Notes!noteVars
  BY <1>8, CallsUnchanged DEF Notes!noteVars, NoteInv, NoteType, OpenIsListed, ToldOnce
<1> QED BY <1>1, <1>2, <1>3, <1>4, <1>5, <1>6, <1>7, <1>8 DEF Notes!Next

\* Between events the list the shell sees, the ids that programs can close and the notifications
\* nobody has closed are the same, whichever way dismissals from handlers, closing requests and
\* reloads cross; and the sender has been told once, and exactly when its notification was closed,
\* unless a handler of closed() closes it again (NotificationServer).
THEOREM TheListIsWhatIsOpen == Spec => []ListIsWhatIsOpen
<1>1. NoteInv => ListIsWhatIsOpen
  <2> SUFFICES ASSUME NoteInv PROVE Notes!ListIsWhatIsOpen /\ Notes!ClosedOnce
    BY DEF ListIsWhatIsOpen
  <2>1. ASSUME calls = <<>> PROVE idMap = listed /\ listed = {n \in Notes!Notes : notes[n].st = "alive"}
    <3>1. listed \subseteq Notes!Notes /\ idMap = listed
      BY DEF NoteInv, NoteType, OpenIsListed
    <3>2. ASSUME NEW n \in Notes!Notes PROVE n \in listed <=> notes[n].st = "alive"
      BY <2>1, NothingEmitted DEF NoteInv, OpenIsListed
    <3> QED BY <3>1, <3>2
  <2>2. ASSUME ~reclosed, NEW n \in Notes!Notes
        PROVE  notes[n].told <= 1 /\ (notes[n].st \in {"retained", "doomed", "gone"} => notes[n].told = 1)
    <3>1. ToldOnce /\ OpenIsListed /\ notes[n] \in AnyNote
      BY <2>2 DEF NoteInv, NoteType
    <3>2. CASE notes[n].st = "alive"
      BY <3>1, <3>2 DEF ToldOnce, OpenIsListed
    <3>3. CASE notes[n].st # "alive"
      BY <3>1, <3>3 DEF ToldOnce, AnyNote
    <3> QED BY <3>2, <3>3
  <2> QED BY <2>1, <2>2 DEF Notes!ListIsWhatIsOpen, Notes!ClosedOnce
<1> QED BY <1>1, InitNoteInv, NextNoteInv, NoteSteps, PTL DEF Notes!Spec

-----------------------------------------------------------------------------
(* What somebody closes is kept while it is locked                           *)

\* What a step makes of a notification that exists.
Spared == \A n \in Notes!Notes : notes[n].st \in {"alive", "retained"} /\ notes'[n].st \in {"doomed", "gone"}
                                   => notes'[n].locks = 0 \/ Notes!Discarded(n)

\* The two deletions that ask for no lock are of a notification nobody is closing.
LEMMA NobodyCloses ==
  ASSUME NoteType, NEW n, ~Closing(n), ~Dropping(n)
  PROVE  ~Notes!Emitting("closed", n) /\ ~Notes!Emitting("dropped", n)
BY DEF NoteType, Closing, Dropping, CallFor, Notes!Emitting

LEMMA UntrackedIsDiscarded ==
  ASSUME NoteInv, NEW n, calls # <<>>, Head(calls).at = "notification", n = Head(calls).n,
         notes[n].reason # "tracked", n \in Notes!Notes
  PROVE  Notes!Discarded(n)
<1>1. NoteType /\ EmittedOnce
  BY DEF NoteInv
<1>2. /\ Announced /\ Bottom = Head(calls)
      /\ ~Closing(n) /\ ~Dropping(n)
  BY <1>1, AtNotification
<1>3. notes[n].st = "alive"
  BY <1>2 DEF NoteInv, OpenIsListed, Pending
<1> QED BY <1>1, <1>2, <1>3, NobodyCloses DEF Notes!Discarded, Notes!At, Notes!Top

LEMMA LeftIsDiscarded ==
  ASSUME NoteInv, NEW n \in listed, calls = <<>>, calls' = <<>>, listed' = {}
  PROVE  Notes!Discarded(n)
<1>1. NoteType /\ notes[n].st = "alive"
  BY DEF NoteInv, NoteType, OpenIsListed
<1>2. ~Closing(n) /\ ~Dropping(n)
  BY NothingEmitted
<1> QED BY <1>1, <1>2, NobodyCloses DEF Notes!Discarded

LEMMA OthersSpared ==
  ASSUME NoteType, NEW n \in Notes!Notes, NEW new, notes' = [notes EXCEPT ![n] = new],
         notes[n].st \in {"alive", "retained"} /\ new.st \in {"doomed", "gone"}
           => new.locks = 0 \/ Notes!Discarded(n)
  PROVE  Spared
<1> SUFFICES ASSUME NEW m \in Notes!Notes, notes[m].st \in {"alive", "retained"}, notes'[m].st \in {"doomed", "gone"}
                PROVE  notes'[m].locks = 0 \/ Notes!Discarded(m)
  BY DEF Spared
<1>1. notes \in [Notes!Notes -> AnyNote]
  BY DEF NoteType
<1>2. CASE m = n
  BY <1>1, <1>2
<1>3. CASE m # n
  BY <1>1, <1>3
<1> QED BY <1>2, <1>3

LEMMA NextSpares == NoteInv /\ [Notes!Next]_(Notes!noteVars) => Spared
<1> SUFFICES ASSUME NoteInv, [Notes!Next]_(Notes!noteVars) PROVE Spared
  OBVIOUS
<1>0. NoteType
  BY DEF NoteInv
<1>1. notes \in [Notes!Notes -> AnyNote] /\ calls \in Seq(AnyCall) /\ listed \subseteq Notes!Notes
  BY <1>0 DEF NoteType
<1>2. ASSUME calls # <<>> PROVE Head(calls).n \in Notes!Notes /\ Head(calls).rest \in Seq(Notes!Notes)
  BY <1>1, <1>2, StackPop DEF AnyCall
<1>3. ASSUME notes' = notes PROVE Spared
  BY <1>3 DEF Spared
<1>4. CASE Notes!Notify
  <2>1. PICK n \in Notes!Notes : notes' = [notes EXCEPT ![n] = [notes[n] EXCEPT !.st = "alive"]]
    BY <1>1, <1>4 DEF Notes!Notify
  <2>2. [notes[n] EXCEPT !.st = "alive"].st = "alive"
    BY <1>1 DEF AnyNote
  <2> QED BY <1>0, <2>1, <2>2, OthersSpared
<1>5. ASSUME NEW n \in Notes!Notes, notes' = [notes EXCEPT ![n].st = "gone", ![n].told = @ + 1],
             Notes!Discarded(n)
      PROVE  Spared
  <2>1. \A m \in Notes!Notes : m # n => notes'[m] = notes[m]
    BY <1>0, <1>5, DroppedChanges
  <2>2. ASSUME NEW m \in Notes!Notes, notes[m].st \in {"alive", "retained"}, notes'[m].st \in {"doomed", "gone"}
        PROVE  Notes!Discarded(m)
    <3>1. m = n
      BY <2>1, <2>2
    <3> QED BY <1>5, <3>1
  <2> QED BY <2>2 DEF Spared
<1>6. CASE Notes!Notified
  <2>1. PICK n : n = Head(calls).n
    OBVIOUS
  <2>2. calls # <<>> /\ Head(calls).at = "notification" /\ n \in Notes!Notes
    BY <1>2, <1>6, <2>1 DEF Notes!Notified, Notes!At
  <2>3. CASE notes[n].reason = "tracked"
    BY <1>3, <1>6, <2>1, <2>3 DEF Notes!Notified, Notes!Top, Notes!Kept
  <2>4. CASE notes[n].reason # "tracked"
    <3>1. notes' = [notes EXCEPT ![n].st = "gone", ![n].told = @ + 1]
      BY <1>6, <2>1, <2>4 DEF Notes!Notified, Notes!Top, Notes!Dropped
    <3>2. Notes!Discarded(n)
      BY <2>1, <2>2, <2>4, UntrackedIsDiscarded
    <3> QED BY <1>5, <2>2, <3>1, <3>2
  <2> QED BY <2>3, <2>4
<1>7. ASSUME NEW ns \in [Notes!Notes -> AnyNote], NEW n \in Notes!Notes, notes' = Notes!Handed(ns, n),
             \A m \in Notes!Notes : ns[m].st = notes[m].st \/ Notes!Discarded(m)
      PROVE  Spared
  <2>1. ASSUME NEW m \in Notes!Notes, notes[m].st \in {"alive", "retained"}, notes'[m].st \in {"doomed", "gone"}
        PROVE  Notes!Discarded(m)
    <3>1. notes'[m].st = ns[m].st
      BY <1>7, HandedChanges
    <3>2. ns[m].st # notes[m].st
      BY <2>1, <3>1
    <3> QED BY <1>7, <3>2
  <2> QED BY <2>1 DEF Spared
<1>8. CASE Notes!NotifiedAgain
  <2>1. Head(Head(calls).rest) \in Notes!Notes /\ Head(calls).n \in Notes!Notes
    BY <1>2, <1>8, HeadTailProperties DEF Notes!NotifiedAgain, Notes!At, Notes!Top
  <2>2. PICK n, next : n = Head(calls).n /\ next = Head(Head(calls).rest)
    OBVIOUS
  <2>0. PICK gone : gone = [notes EXCEPT ![n].st = "gone", ![n].told = @ + 1]
    OBVIOUS
  <2>3. \/ notes' = Notes!Handed(notes, next)
        \/ notes[n].reason # "tracked" /\ notes' = Notes!Handed(gone, next)
    BY <1>8, <2>0, <2>2 DEF Notes!NotifiedAgain, Notes!Top
  <2>4. /\ gone \in [Notes!Notes -> AnyNote]
        /\ \A m \in Notes!Notes : m # n => gone[m] = notes[m]
    BY <1>0, <2>0, <2>1, <2>2, DroppedMakes
  <2>5. CASE notes' = Notes!Handed(notes, next)
    BY <1>1, <1>7, <2>1, <2>2, <2>5
  <2>6. CASE notes[n].reason # "tracked" /\ notes' = Notes!Handed(gone, next)
    <3>1. Notes!Discarded(n)
      BY <1>8, <2>1, <2>2, <2>6, UntrackedIsDiscarded DEF Notes!NotifiedAgain, Notes!At
    <3>2. \A m \in Notes!Notes : gone[m].st = notes[m].st \/ Notes!Discarded(m)
      BY <2>4, <3>1
    <3> QED BY <1>7, <2>1, <2>2, <2>4, <2>6, <3>2
  <2> QED BY <2>3, <2>5, <2>6
<1>9. CASE Notes!Closed
  <2>1. PICK n : n = Head(calls).n
    OBVIOUS
  <2>2. n \in Notes!Notes /\ notes' = [notes EXCEPT ![n].told = @ + 1]
    BY <1>2, <1>9, <2>1 DEF Notes!Closed, Notes!At, Notes!Top
  <2>3. PICK k \in Nat : k = notes[n].told + 1
    BY <1>1, <2>2, NoteUpdates
  <2>4. notes' = [notes EXCEPT ![n] = [notes[n] EXCEPT !.told = k]]
    BY <1>1, <2>2, <2>3
  <2>5. [notes[n] EXCEPT !.told = k].st = notes[n].st
    BY <1>1, <2>2 DEF AnyNote
  <2> QED BY <1>0, <2>2, <2>4, <2>5, OthersSpared
<1>10. CASE Notes!RetainedDestroy
  <2>1. PICK n : n = Head(calls).n
    OBVIOUS
  <2>2. n \in Notes!Notes
        /\ notes' = [notes EXCEPT ![n].st = IF @ = "gone" THEN @
                                            ELSE IF notes[n].locks = 0 THEN "doomed" ELSE "retained"]
    BY <1>2, <1>10, <2>1 DEF Notes!RetainedDestroy, Notes!At, Notes!Top
  <2> DEFINE st == IF notes[n].st = "gone" THEN "gone" ELSE IF notes[n].locks = 0 THEN "doomed" ELSE "retained"
  <2>3. notes' = [notes EXCEPT ![n] = [notes[n] EXCEPT !.st = st]]
    BY <1>1, <2>2
  <2>4. [notes[n] EXCEPT !.st = st].st = st /\ [notes[n] EXCEPT !.st = st].locks = notes[n].locks
    BY <1>1, <2>2 DEF AnyNote
  <2>5. notes[n].st \in {"alive", "retained"} /\ st \in {"doomed", "gone"} => notes[n].locks = 0
    OBVIOUS
  <2> HIDE DEF st
  <2> QED BY <1>0, <2>2, <2>3, <2>4, <2>5, OthersSpared
<1>11. ASSUME NEW reEmit \in BOOLEAN, Notes!SwitchGeneration(reEmit) PROVE Spared
  <2>1. CASE ~reEmit
    <3>1. notes' = [n \in Notes!Notes |-> IF n \in listed
                      THEN [notes[n] EXCEPT !.st = "gone", !.told = @ + 1] ELSE notes[n]]
      BY <1>11, <2>1 DEF Notes!SwitchGeneration
    <3>0. calls = <<>> /\ calls' = <<>> /\ listed' = {}
      BY <1>11, <2>1 DEF Notes!SwitchGeneration
    <3>2. ASSUME NEW n \in Notes!Notes PROVE notes'[n].st = notes[n].st \/ Notes!Discarded(n)
      <4>1. CASE n \in listed
        BY <3>0, <4>1, LeftIsDiscarded
      <4>2. CASE n \notin listed
        BY <3>1, <4>2
      <4> QED BY <4>1, <4>2
    <3>3. ASSUME NEW n \in Notes!Notes, notes[n].st \in {"alive", "retained"}, notes'[n].st \in {"doomed", "gone"}
          PROVE  Notes!Discarded(n)
      <4>1. notes'[n].st # notes[n].st
        BY <3>3
      <4> QED BY <3>2, <4>1
    <3> QED BY <3>3 DEF Spared
  <2>2. CASE reEmit
    <3>1. PICK next : next = Head(Notes!SetToSeq(listed))
      OBVIOUS
    <3>2. notes' = Notes!Handed(notes, next) /\ listed # {}
      BY <1>11, <2>2, <3>1 DEF Notes!SwitchGeneration
    <3>3. next \in Notes!Notes
      BY <1>1, <3>1, <3>2, FirstInOrder
    <3> QED BY <1>1, <1>7, <3>2, <3>3
  <2> QED BY <1>11, <2>1, <2>2
<1>12. ASSUME NEW n \in Notes!Notes PROVE Notes!CloseNotification(n) => Spared
  BY <1>3 DEF Notes!CloseNotification
<1>13. ASSUME NEW n \in Notes!Notes, Notes!DeleteLater(n) PROVE Spared
  <2>1. notes' = [notes EXCEPT ![n] = [notes[n] EXCEPT !.st = "gone"]]
    BY <1>1, <1>13 DEF Notes!DeleteLater
  <2>2. notes[n].st \notin {"alive", "retained"}
    BY <1>13 DEF Notes!DeleteLater
  <2> QED BY <1>0, <2>1, <2>2, OthersSpared
<1>14. ASSUME NEW n \in Notes!Notes, NEW reason, notes' = [notes EXCEPT ![n].reason = reason] PROVE Spared
  <2>1. notes' = [notes EXCEPT ![n] = [notes[n] EXCEPT !.reason = reason]]
    BY <1>1, <1>14
  <2>2. [notes[n] EXCEPT !.reason = reason].st = notes[n].st
    BY <1>1, <1>14 DEF AnyNote
  <2> QED BY <1>0, <2>1, <2>2, OthersSpared
<1>15. ASSUME NEW n \in Notes!Notes PROVE Notes!SetTracked(n) => Spared
  BY <1>14 DEF Notes!SetTracked
<1>16. ASSUME NEW n \in Notes!Notes PROVE \A reason \in {"Expired", "Dismissed"} : Notes!Close(n, reason) => Spared
  BY <1>14 DEF Notes!Close
<1>17. ASSUME NEW n \in Notes!Notes, Notes!Lock(n) PROVE Spared
  <2>1. notes' = [notes EXCEPT ![n] = [notes[n] EXCEPT !.locks = 1]]
    BY <1>1, <1>17 DEF Notes!Lock
  <2>2. [notes[n] EXCEPT !.locks = 1].st = notes[n].st
    BY <1>1, <1>17 DEF AnyNote
  <2> QED BY <1>0, <2>1, <2>2, OthersSpared
<1>18. ASSUME NEW n \in Notes!Notes, Notes!Unlock(n) PROVE Spared
  <2>1. notes' = [notes EXCEPT ![n].locks = 0, ![n].st = IF @ = "retained" THEN "doomed" ELSE @]
    BY <1>18 DEF Notes!Unlock
  <2> DEFINE st == IF notes[n].st = "retained" THEN "doomed" ELSE notes[n].st
             new == [[notes[n] EXCEPT !.locks = 0] EXCEPT !.st = st]
  <2>2. notes' = [notes EXCEPT ![n] = new]
    BY <1>1, <2>1
  <2>3. new.locks = 0
    BY <1>1, <1>18 DEF AnyNote
  <2> HIDE DEF new
  <2> QED BY <1>0, <2>2, <2>3, OthersSpared
<1>19. CASE UNCHANGED Notes!noteVars
  BY <1>3, <1>19 DEF Notes!noteVars
<1> QED BY <1>4, <1>6, <1>8, <1>9, <1>10, <1>11, <1>12, <1>13, <1>15, <1>16, <1>17, <1>18, <1>19
        DEF Notes!Next

\* A notification that somebody is closing or has closed is not deleted while a RetainableLock
\* holds it, by no step and whatever closes, unlocks, nested handlers and reloads cross
\* (Retainable::retainedDestroy() and unlock()).  The server deletes locked notifications only
\* where nobody closed them: Discarded, not tracked after notification() or left by a reload.
THEOREM LockedAreKept == Spec => LockedIsKept
<1>1. NoteInv /\ [Notes!Next]_(Notes!noteVars) => Spared
  BY NextSpares
<1> QED BY <1>1, InitNoteInv, NextNoteInv, NoteSteps, PTL DEF Notes!Spec, LockedIsKept, Notes!LockedIsKept, Spared
-----------------------------------------------------------------------------
(* PAM conversations                                                         *)

LEMMA PamSteps == Spec => Pam!Spec
<1>1. Init => Pam!Init
  BY DEF Init
<1>2. [Next]_vars => [Pam!Next]_(Pam!pamVars)
  BY DEF Next, vars, pamVars, Pam!pamVars
<1> QED BY <1>1, <1>2, PTL DEF Spec, Pam!Spec

AnyMessage == [type : {"ask", "tell"}, n : Nat] \cup [type : {"exit"}, ok : BOOLEAN]
AnyConversation == [st : {"unused", "live", "doomed", "gone"}, linked : BOOLEAN, pid : BOOLEAN,
                    child : {"none", "running", "waiting", "ended", "reaped"}, sent : Nat,
                    up : Seq(AnyMessage), down : Seq(Nat)]
AnyFrame == [at : Pam!Points \ {"messageChanged"}, k : Pam!Convs]
            \cup [at : {"messageChanged"}, k : Pam!Convs, ask : BOOLEAN]

PamType == /\ convs \in [Pam!Convs -> AnyConversation] /\ frames \in Seq(AnyFrame)
           /\ conv \in Pam!Convs \cup {0}

\* A child that has asked goes no further until it is answered, with one answer and to that
\* question, its last message; its question may still be on its way.
Stopped(c) == c.child \in {"waiting", "ended", "reaped"}
Asks(c)    == \E i \in 1..Len(c.up) : c.up[i].type = "ask"
Orderly(c) ==
  /\ \A i \in 1..Len(c.up) :
       c.up[i].type = "ask" => i = Len(c.up) /\ c.up[i].n = c.sent /\ c.down = <<>> /\ Stopped(c)
  /\ c.down # <<>> => Len(c.down) = 1 /\ c.down[1] = c.sent /\ Stopped(c)

\* What the shell was shown last is the question that the child waits for.
Ready(c) == shown = c.sent /\ c.down = <<>> /\ Stopped(c) /\ ~Asks(c)

\* Only the context's own conversation reaches it, and none is started twice.
Owned == /\ \A k \in Pam!Convs : /\ convs[k].linked => k = conv
                                 /\ convs[k].st = "unused" => convs[k].child = "none" /\ ~convs[k].linked
         /\ conv # 0 => convs[conv].st = "live"
         /\ ~postInit => conv = 0 /\ \A k \in Pam!Convs : convs[k].st = "unused"

\* A message comes from the event loop, so that the handlers of its signals have nothing
\* beneath them, and no handler runs while a conversation is being started.
Plain(fs)    == \A i \in 1..Len(fs) : /\ fs[i].at \notin {"messageChanged", "starting"}
                                      /\ fs[i].at = "pamMessage" => i = Len(fs)
Aborting(fs) == \E i \in 1..Len(fs) : fs[i].at = "aborting"
Stacked ==
  frames # <<>> =>
    /\ Plain(Tail(frames))
    /\ Head(frames).at = "messageChanged" =>
         Tail(frames) = <<>> /\ conv # 0 /\ ~answered /\ (Head(frames).ask => Ready(convs[conv]))
    /\ Head(frames).at = "pamMessage" => Tail(frames) = <<>>
    /\ Head(frames).at = "starting" => conv # 0 /\ convs[conv].child = "none"

\* An answer that is wanted and was not given yet is to the question that the child waits for,
\* unless its conversation is being aborted or the next message is being shown.
RequiredIsAsked ==
  pamRequired /\ ~Aborting(frames) /\ ~(frames # <<>> /\ Head(frames).at = "messageChanged") =>
    conv # 0 /\ (~answered => Ready(convs[conv]))

\* Signals are those of conversations that were started.
Used(fs) == \A i \in 1..Len(fs) : convs[fs[i].k].st # "unused"

PamInv == /\ PamType /\ (\A k \in Pam!Convs : Orderly(convs[k])) /\ Owned
          /\ Stacked /\ Used(frames) /\ RequiredIsAsked

\* The handlers that answer are those of pamMessage(), once each, and none of those of the signals
\* that a conversation's start and the change of a message emit call back.
AnswersInTurn == /\ PamReenter \cap {"starting", "messageChanged"} = {}
                 /\ PamAnswer \subseteq {"pamMessage"} /\ ~AnswerTwice

-----------------------------------------------------------------------------
(* The calls in progress                                                     *)

LEMMA FramePush ==
  ASSUME NEW s \in Seq(AnyFrame), NEW f \in AnyFrame, NEW q, q = <<f>> \o s
  PROVE  /\ q \in Seq(AnyFrame) /\ q # <<>> /\ Head(q) = f /\ Tail(q) = s
         /\ Len(q) = Len(s) + 1 /\ Len(s) \in Nat /\ q[1] = f
         /\ \A i \in 1..Len(s) : q[i + 1] = s[i]
<1>1. <<f>> \in Seq(AnyFrame) /\ Len(<<f>>) = 1 /\ <<f>>[1] = f
  OBVIOUS
<1>2. Len(s) \in Nat
  BY LenProperties
<1>3. /\ q \in Seq(AnyFrame) /\ Len(q) = Len(s) + 1 /\ q[1] = f
      /\ \A i \in 1..Len(s) : q[i + 1] = s[i]
  BY <1>1, <1>2, ConcatProperties
<1>4. q # <<>>
  BY <1>2, <1>3, EmptySeq
<1>5. Head(q) = f
  BY <1>2, <1>3, <1>4
<1>6. /\ Tail(q) \in Seq(AnyFrame) /\ Len(Tail(q)) = Len(s)
      /\ \A i \in 1..Len(s) : Tail(q)[i] = q[i + 1]
  BY <1>2, <1>3, <1>4, HeadTailProperties
<1>7. Tail(q) = s
  BY <1>2, <1>3, <1>6, SeqEqual
<1> QED BY <1>2, <1>3, <1>4, <1>5, <1>7

LEMMA FrameTop ==
  ASSUME NEW s \in Seq(AnyFrame), s # <<>>
  PROVE  /\ Tail(s) \in Seq(AnyFrame) /\ Len(Tail(s)) = Len(s) - 1 /\ Len(s) \in Nat /\ Len(s) > 0
         /\ \A i \in 1..Len(s)-1 : Tail(s)[i] = s[i + 1]
         /\ Len(s) = 1 <=> Tail(s) = <<>>
         /\ Head(s) = s[1] /\ s[1] \in AnyFrame
<1>1. Tail(s) \in Seq(AnyFrame) /\ Len(Tail(s)) = Len(s) - 1 /\ \A i \in 1..Len(s)-1 : Tail(s)[i] = s[i + 1]
  BY HeadTailProperties
<1>2. Len(s) \in Nat /\ Len(s) > 0
  BY LenProperties, EmptySeq
<1>3. Head(s) = s[1] /\ s[1] \in AnyFrame
  BY <1>2, ElementOfSeq
<1>4. Len(s) = 1 <=> Tail(s) = <<>>
  <2>1. Len(s) = 1 <=> Len(Tail(s)) = 0
    BY <1>1, <1>2
  <2>2. Len(Tail(s)) = 0 <=> Tail(s) = <<>>
    BY <1>1, EmptySeq
  <2> QED BY <2>1, <2>2
<1> QED BY <1>1, <1>2, <1>3, <1>4

LEMMA NoFrames == <<>> \in Seq(AnyFrame) /\ Plain(<<>>) /\ ~Aborting(<<>>) /\ Used(<<>>)
BY EmptySeq DEF Plain, Aborting, Used

\* A plain stack of calls, and what is plain with another call on top.
LEMMA PlainTop ==
  ASSUME NEW s \in Seq(AnyFrame), s # <<>>
  PROVE  /\ Plain(s) <=> /\ Plain(Tail(s)) /\ Head(s).at \notin {"messageChanged", "starting"}
                         /\ Head(s).at = "pamMessage" => Tail(s) = <<>>
         /\ Aborting(s) <=> Head(s).at = "aborting" \/ Aborting(Tail(s))
<1>1. /\ Len(Tail(s)) = Len(s) - 1 /\ Len(s) \in Nat /\ Len(s) > 0
      /\ \A i \in 1..Len(s)-1 : Tail(s)[i] = s[i + 1]
      /\ Len(s) = 1 <=> Tail(s) = <<>>
      /\ Head(s) = s[1]
  BY FrameTop
<1> DEFINE L == Len(s)
           t == Tail(s)
<1> HIDE DEF L, t
<1>2. \A i \in 1..L : i = 1 \/ (i - 1 \in 1..L-1 /\ t[i - 1] = s[i])
  BY <1>1 DEF L, t
<1>3. \A i \in 1..L-1 : i + 1 \in 1..L /\ t[i] = s[i + 1]
  BY <1>1 DEF L, t
<1>4. L \in Nat /\ L > 0 /\ Len(s) = L /\ Len(t) = L - 1 /\ (L = 1 <=> t = <<>>) /\ Head(s) = s[1]
  BY <1>1 DEF L, t
<1>5. ASSUME Plain(s)
      PROVE  Plain(t) /\ s[1].at \notin {"messageChanged", "starting"} /\ (s[1].at = "pamMessage" => t = <<>>)
  BY <1>3, <1>4, <1>5 DEF Plain
<1>6. ASSUME Plain(t), s[1].at \notin {"messageChanged", "starting"}, s[1].at = "pamMessage" => t = <<>>
      PROVE  Plain(s)
  <2> SUFFICES ASSUME NEW i \in 1..L
               PROVE  s[i].at \notin {"messageChanged", "starting"} /\ (s[i].at = "pamMessage" => i = L)
    BY <1>4 DEF Plain
  <2>1. CASE i = 1
    BY <1>4, <1>6, <2>1
  <2>2. CASE i # 1
    <3>1. i - 1 \in 1..Len(t) /\ t[i - 1] = s[i]
      BY <1>2, <1>4, <2>2
    <3>2. t[i - 1].at \notin {"messageChanged", "starting"} /\ (t[i - 1].at = "pamMessage" => i - 1 = Len(t))
      BY <1>6, <3>1 DEF Plain
    <3> QED BY <1>4, <3>1, <3>2
  <2> QED BY <2>1, <2>2
<1>7. Aborting(s) <=> s[1].at = "aborting" \/ Aborting(t)
  <2>1. ASSUME Aborting(t) PROVE Aborting(s)
    BY <1>3, <1>4, <2>1 DEF Aborting
  <2>2. ASSUME Aborting(s), s[1].at # "aborting" PROVE Aborting(t)
    <3>1. PICK i \in 1..L : s[i].at = "aborting"
      BY <1>4, <2>2 DEF Aborting
    <3>2. i - 1 \in 1..Len(t) /\ t[i - 1] = s[i]
      BY <1>2, <1>4, <2>2, <3>1
    <3> QED BY <3>1, <3>2 DEF Aborting
  <2>3. s[1].at = "aborting" => Aborting(s)
    BY <1>4 DEF Aborting
  <2> QED BY <2>1, <2>2, <2>3
<1> QED BY <1>4, <1>5, <1>6, <1>7 DEF t

LEMMA TwoFrames ==
  ASSUME NEW f \in AnyFrame, NEW g \in AnyFrame, NEW s \in Seq(AnyFrame)
  PROVE  <<f, g>> \o s = <<f>> \o (<<g>> \o s)
<1>1. /\ <<f>> \in Seq(AnyFrame) /\ <<g>> \in Seq(AnyFrame) /\ <<f, g>> \in Seq(AnyFrame)
      /\ Len(<<f>>) = 1 /\ Len(<<g>>) = 1 /\ Len(<<f, g>>) = 2
      /\ <<f>>[1] = f /\ <<g>>[1] = g /\ <<f, g>>[1] = f /\ <<f, g>>[2] = g
  OBVIOUS
<1> DEFINE t == <<f>> \o <<g>>
<1>2. t \in Seq(AnyFrame) /\ Len(t) = 2 /\ t[1] = f /\ t[2] = g
  BY <1>1, ConcatProperties
<1>3. t = <<f, g>>
  <2> DEFINE u == <<f, g>>
  <2>1. u \in Seq(AnyFrame) /\ Len(u) = 2 /\ u[1] = f /\ u[2] = g
    BY <1>1
  <2> HIDE DEF t, u
  <2>2. \A i \in 1..2 : t[i] = u[i]
    BY <1>2, <2>1
  <2>3. t = u
    BY <1>2, <2>1, <2>2, SeqEqual
  <2> QED BY <2>3 DEF t, u
<1> DEFINE a == <<f>>
           b == <<g>>
<1>4. a \in Seq(AnyFrame) /\ b \in Seq(AnyFrame)
  BY <1>1
<1> HIDE DEF a, b
<1>5. (a \o b) \o s = a \o (b \o s)
  BY <1>4, ConcatAssociative
<1> QED BY <1>3, <1>5, Zenon DEF a, b

LEMMA PlainPush ==
  ASSUME NEW s \in Seq(AnyFrame), Plain(s), NEW k \in Pam!Convs,
         NEW at \in {"aborting", "error", "completed", "reap"}, NEW q, q = <<Pam!Frame(at, k)>> \o s
  PROVE  /\ q \in Seq(AnyFrame) /\ q # <<>> /\ Plain(q)
         /\ Aborting(q) <=> at = "aborting" \/ Aborting(s)
<1> DEFINE f == Pam!Frame(at, k)
<1>1. f \in AnyFrame /\ f.at = at
  BY DEF AnyFrame, Pam!Frame, Pam!Points
<1> HIDE DEF f
<1>2. q \in Seq(AnyFrame) /\ q # <<>> /\ Head(q) = f /\ Tail(q) = s
  BY <1>1, FramePush DEF f
<1> QED BY <1>1, <1>2, PlainTop

LEMMA PlainAlone ==
  ASSUME NEW k \in Pam!Convs, NEW at \in {"aborting", "error", "completed", "reap"}
  PROVE  /\ <<Pam!Frame(at, k)>> \in Seq(AnyFrame) /\ Plain(<<Pam!Frame(at, k)>>)
<1> DEFINE f == Pam!Frame(at, k)
<1>1. f \in AnyFrame
  BY DEF AnyFrame, Pam!Frame, Pam!Points
<1> HIDE DEF f
<1>2. <<f>> \in Seq(AnyFrame)
  BY <1>1
<1>3. <<f>> = <<f>> \o <<>>
  BY <1>2, ConcatEmptySeq
<1>4. Plain(<<f>>)
  BY <1>3, NoFrames, PlainPush DEF f
<1> QED BY <1>2, <1>4 DEF f

LEMMA UsedPush ==
  ASSUME NEW s \in Seq(AnyFrame), Used(s), NEW k \in Pam!Convs, convs[k].st # "unused",
         NEW at \in {"aborting", "error", "completed", "reap"}
  PROVE  Used(<<Pam!Frame(at, k)>> \o s)
<1> DEFINE f == Pam!Frame(at, k)
           q == <<f>> \o s
<1>1. f \in AnyFrame /\ f.k = k
  BY DEF AnyFrame, Pam!Frame, Pam!Points
<1> HIDE DEF f
<1>2. Len(q) = Len(s) + 1 /\ Len(s) \in Nat /\ q[1] = f /\ \A i \in 1..Len(s) : q[i + 1] = s[i]
  BY <1>1, FramePush
<1> HIDE DEF q
<1>3. \A i \in 1..Len(q) : i = 1 \/ (i - 1 \in 1..Len(s) /\ q[i] = s[i - 1])
  BY <1>2
<1>4. Used(q)
  BY <1>1, <1>2, <1>3 DEF Used
<1> QED BY <1>4 DEF q, f

\* The calls are those of s, with one more of conversation f.k.
LEMMA UsedPushed ==
  ASSUME NEW s \in Seq(AnyFrame), NEW f \in AnyFrame, frames' = <<f>> \o s, convs'[f.k].st # "unused",
         \A i \in 1..Len(s) : convs'[s[i].k].st # "unused"
  PROVE  Used(frames)'
<1> DEFINE q == <<f>> \o s
<1>1. Len(q) = Len(s) + 1 /\ Len(s) \in Nat /\ q[1] = f /\ \A i \in 1..Len(s) : q[i + 1] = s[i]
  BY FramePush
<1>2. frames' = q
  OBVIOUS
<1> HIDE DEF q
<1>3. \A i \in 1..Len(q) : i = 1 \/ (i - 1 \in 1..Len(s) /\ q[i] = s[i - 1])
  BY <1>1
<1>4. \A i \in 1..Len(q) : convs'[q[i].k].st # "unused"
  BY <1>1, <1>3
<1> QED BY <1>2, <1>4 DEF Used

LEMMA UsedBelow ==
  ASSUME NEW s \in Seq(AnyFrame), s # <<>>, Used(s)
  PROVE  Used(Tail(s)) /\ Head(s).k \in Pam!Convs /\ convs[Head(s).k].st # "unused"
<1>1. /\ Len(Tail(s)) = Len(s) - 1 /\ Len(s) \in Nat /\ Len(s) > 0 /\ Head(s) = s[1] /\ s[1] \in AnyFrame
      /\ \A i \in 1..Len(s)-1 : Tail(s)[i] = s[i + 1]
  BY FrameTop
<1>2. \A i \in 1..Len(Tail(s)) : i + 1 \in 1..Len(s) /\ Tail(s)[i] = s[i + 1]
  BY <1>1
<1>3. Used(Tail(s))
  BY <1>2 DEF Used
<1>4. Head(s).k \in Pam!Convs
  BY <1>1 DEF AnyFrame
<1> QED BY <1>1, <1>3, <1>4 DEF Used

LEMMA UsedAfter ==
  ASSUME NEW fs \in Seq(AnyFrame), Used(fs), frames' = fs,
         \A k \in Pam!Convs : convs[k].st # "unused" => convs'[k].st # "unused"
  PROVE  Used(frames)'
<1>1. \A i \in 1..Len(fs) : fs[i] \in AnyFrame
  BY ElementOfSeq
<1>2. \A i \in 1..Len(fs) : fs[i].k \in Pam!Convs
  BY <1>1 DEF AnyFrame
<1> QED BY <1>2 DEF Used

\* The only call is that of f.
LEMMA OnlyCall ==
  ASSUME NEW f \in AnyFrame, frames' = <<f>> \o <<>>, convs'[f.k].st # "unused"
  PROVE  /\ frames' \in Seq(AnyFrame) /\ frames' # <<>> /\ Head(frames') = f /\ Tail(frames') = <<>>
         /\ Used(frames)'
<1>1. PICK s \in Seq(AnyFrame) : s = <<>>
  BY NoFrames
<1>2. frames' = <<f>> \o s /\ Len(s) = 0
  BY <1>1
<1>3. frames' \in Seq(AnyFrame) /\ frames' # <<>> /\ Head(frames') = f /\ Tail(frames') = s
  BY <1>2, FramePush
<1>4. \A i \in 1..Len(s) : convs'[s[i].k].st # "unused"
  BY <1>2
<1>5. Used(frames)'
  BY <1>2, <1>4, UsedPushed
<1> QED BY <1>1, <1>3, <1>5

\* The calls below the innermost are plain, and so are all of them where QML may act.
LEMMA BelowIsPlain ==
  ASSUME PamInv, frames # <<>>
  PROVE  Tail(frames) \in Seq(AnyFrame) /\ Plain(Tail(frames)) /\ Used(Tail(frames))
BY FrameTop, UsedBelow DEF PamInv, PamType, Stacked

LEMMA QmlIsPlain ==
  ASSUME PamInv, AnswersInTurn, Pam!QmlRuns
  PROVE  Plain(frames) /\ frames \in Seq(AnyFrame) /\ Used(frames)
<1>1. CASE frames = <<>>
  BY <1>1, NoFrames DEF PamInv
<1>2. CASE frames # <<>>
  BY <1>2, PlainTop DEF PamInv, PamType, Stacked, Pam!QmlRuns, Pam!Top, AnswersInTurn
<1> QED BY <1>1, <1>2

-----------------------------------------------------------------------------
(* What a step may do to conversations and calls                             *)

\* A step that starts and aborts none.
ConvsStep ==
  /\ convs' \in [Pam!Convs -> AnyConversation]
  /\ \A k \in Pam!Convs :
       /\ Orderly(convs'[k]) /\ (convs'[k].linked => convs[k].linked)
       /\ convs'[k].st = convs[k].st \/ (convs[k].st # "unused" /\ convs'[k].st = "gone" /\ k # conv)
       /\ convs[k].st = "unused" => convs'[k].child = convs[k].child

LEMMA OwnedKeeps ==
  ASSUME PamInv, ConvsStep, UNCHANGED <<postInit, conv>> PROVE Owned'
<1>1. ASSUME conv # 0 PROVE convs'[conv].st = "live"
  BY <1>1 DEF PamInv, PamType, Owned, ConvsStep
<1> QED BY <1>1 DEF PamInv, Owned, ConvsStep

LEMMA StayKeeps ==
  ASSUME PamInv, ConvsStep, UNCHANGED <<postInit, conv, pamRequired, shown, answered, frames>>,
         conv # 0 => /\ Ready(convs[conv]) => Ready(convs[conv])'
                     /\ convs[conv].child = "none" => convs'[conv].child = "none"
  PROVE  PamInv'
<1>1. PamType' /\ \A k \in Pam!Convs : Orderly(convs[k])'
  BY DEF PamInv, PamType, ConvsStep, Orderly, Stopped
<1>2. Stacked'
  <2>1. Plain(Tail(frames))' <=> Plain(Tail(frames))
    BY DEF Plain
  <2> QED BY <2>1 DEF PamInv, Stacked
<1>3. RequiredIsAsked'
  <2>1. Aborting(frames)' <=> Aborting(frames)
    BY DEF Aborting
  <2> QED BY <2>1 DEF PamInv, RequiredIsAsked
<1>4. Used(frames)'
  <2>1. PICK fs : fs = frames
    OBVIOUS
  <2>2. fs \in Seq(AnyFrame) /\ Used(fs) /\ frames' = fs
    BY <2>1 DEF PamInv, PamType
  <2> QED BY <2>2, UsedAfter DEF ConvsStep
<1> QED BY <1>1, <1>2, <1>3, <1>4, OwnedKeeps DEF PamInv

\* The calls fs are left.
LEMMA PlainStacked ==
  ASSUME NEW fs \in Seq(AnyFrame), Plain(fs), frames' = fs
  PROVE  /\ Stacked' /\ ~(frames' # <<>> /\ Head(frames').at = "messageChanged")
         /\ Aborting(frames)' <=> Aborting(fs)
<1>1. fs # <<>> => /\ Plain(Tail(fs)) /\ Head(fs).at \notin {"messageChanged", "starting"}
                   /\ Head(fs).at = "pamMessage" => Tail(fs) = <<>>
  BY PlainTop
<1>2. Plain(Tail(frames))' <=> Plain(Tail(fs))
  BY DEF Plain
<1>3. Aborting(frames)' <=> Aborting(fs)
  BY DEF Aborting
<1> QED BY <1>1, <1>2, <1>3 DEF Stacked

LEMMA GoesOn ==
  ASSUME PamInv, ConvsStep, NEW rest \in Seq(AnyFrame), Plain(rest), Used(rest), frames' = rest,
         UNCHANGED <<postInit, conv, shown>>,
         pamRequired' => /\ pamRequired /\ ~(frames # <<>> /\ Head(frames).at = "messageChanged")
                         /\ Aborting(frames) => Aborting(rest),
         conv # 0 /\ ~answered' => ~answered /\ (Ready(convs[conv]) => Ready(convs[conv])')
  PROVE  PamInv'
<1>1. PamType' /\ \A k \in Pam!Convs : Orderly(convs[k])'
  BY DEF PamInv, PamType, ConvsStep, Orderly, Stopped
<1>2. Stacked' /\ ~(frames' # <<>> /\ Head(frames').at = "messageChanged") /\ (Aborting(frames)' <=> Aborting(rest))
  BY PlainStacked
<1>3. RequiredIsAsked'
  BY <1>2 DEF PamInv, RequiredIsAsked
<1>4. Used(frames)'
  BY UsedAfter DEF ConvsStep
<1> QED BY <1>1, <1>2, <1>3, <1>4, OwnedKeeps DEF PamInv

\* The context's conversation is aborted in the state cs, with the calls fs left to do.
LEMMA AbortKeeps ==
  ASSUME PamInv, conv # 0, NEW cs \in [Pam!Convs -> AnyConversation],
         \A k \in Pam!Convs : /\ Orderly(cs[k]) /\ cs[k].linked = convs[k].linked /\ cs[k].st = convs[k].st
                              /\ convs[k].st = "unused" => cs[k].child = "none",
         NEW fs \in Seq(AnyFrame), Plain(fs), Used(fs),
         convs' = [cs EXCEPT ![conv].st = "doomed", ![conv].linked = FALSE],
         conv' = 0, frames' = <<Pam!Frame("aborting", conv)>> \o fs, UNCHANGED postInit
  PROVE  PamInv'
<1>1. conv \in Pam!Convs /\ cs[conv] \in AnyConversation
  BY DEF PamInv, PamType
<1> DEFINE new == [[cs[conv] EXCEPT !.st = "doomed"] EXCEPT !.linked = FALSE]
<1>2. convs' = [cs EXCEPT ![conv] = new]
  BY <1>1
<1>3. /\ new \in AnyConversation /\ new.st = "doomed" /\ ~new.linked
      /\ new.up = cs[conv].up /\ new.down = cs[conv].down /\ new.sent = cs[conv].sent
      /\ new.child = cs[conv].child
  BY <1>1 DEF AnyConversation
<1> HIDE DEF new
<1>4. /\ convs' \in [Pam!Convs -> AnyConversation] /\ convs'[conv] = new
      /\ \A k \in Pam!Convs : k # conv => convs'[k] = cs[k]
  BY <1>1, <1>2, <1>3
<1>5. frames' \in Seq(AnyFrame) /\ Plain(frames') /\ Aborting(frames')
  <2>1. PICK at \in {"aborting", "error", "completed", "reap"} : at = "aborting"
    OBVIOUS
  <2>2. PICK k \in Pam!Convs : k = conv
    BY <1>1
  <2> DEFINE q == <<Pam!Frame(at, k)>> \o fs
  <2>4. q \in Seq(AnyFrame) /\ Plain(q) /\ (Aborting(q) <=> at = "aborting" \/ Aborting(fs))
    <3>1. fs \in Seq(AnyFrame) /\ Plain(fs)
      OBVIOUS
    <3>2. at \in {"aborting", "error", "completed", "reap"} /\ k \in Pam!Convs
      OBVIOUS
    <3> QED BY ONLY <3>1, <3>2, PlainPush
  <2>5. frames' = q
    BY <2>1, <2>2
  <2> HIDE DEF q
  <2>6. q \in Seq(AnyFrame) /\ Plain(q) /\ Aborting(q)
    BY <2>1, <2>4
  <2> QED BY <2>5, <2>6 DEF Plain, Aborting
<1>6. PamType'
  BY <1>4, <1>5 DEF PamType
<1>7. \A k \in Pam!Convs : Orderly(convs[k])'
  <2> SUFFICES ASSUME NEW k \in Pam!Convs PROVE Orderly(convs'[k])
    BY DEF Orderly, Stopped
  <2>1. CASE k = conv
    BY <1>1, <1>3, <1>4, <2>1 DEF Orderly, Stopped
  <2>2. CASE k # conv
    BY <1>4, <2>2
  <2> QED BY <2>1, <2>2
<1>8. Owned'
  <2>1. postInit
    BY DEF PamInv, Owned
  <2>2. \A k \in Pam!Convs : ~convs'[k].linked /\ (convs'[k].st = "unused" => convs'[k].child = "none")
    BY <1>1, <1>3, <1>4 DEF PamInv, Owned
  <2> QED BY <2>1, <2>2 DEF Owned
<1>9. Stacked' /\ Aborting(frames)'
  <2>1. PICK q \in Seq(AnyFrame) : q = frames' /\ Plain(q) /\ Aborting(q)
    BY <1>5
  <2> QED BY <2>1, PlainStacked
<1>10. Used(frames)'
  <2> DEFINE f == Pam!Frame("aborting", conv)
  <2>1. f \in AnyFrame /\ f.k = conv
    BY <1>1 DEF AnyFrame, Pam!Frame, Pam!Points
  <2>2. frames' = <<f>> \o fs
    OBVIOUS
  <2> HIDE DEF f
  <2>3. \A k \in Pam!Convs : convs[k].st # "unused" => convs'[k].st # "unused"
    BY <1>1, <1>3, <1>4
  <2>4. \A i \in 1..Len(fs) : convs'[fs[i].k].st # "unused"
    <3>1. \A i \in 1..Len(fs) : fs[i] \in AnyFrame
      BY ElementOfSeq
    <3> QED BY <2>3, <3>1 DEF Used, AnyFrame
  <2>5. convs'[conv].st # "unused"
    BY <1>3, <1>4
  <2> QED BY <2>1, <2>2, <2>4, <2>5, UsedPushed
<1> QED BY <1>6, <1>7, <1>8, <1>9, <1>10 DEF PamInv, RequiredIsAsked

\* Conversation k is started.
LEMMA StartKeeps ==
  ASSUME PamInv, Plain(frames), NEW k \in Pam!Convs, convs[k].st = "unused", conv = 0, conv' = k,
         convs' = [convs EXCEPT ![k].st = "live", ![k].linked = TRUE],
         frames' = <<Pam!Frame("starting", k)>> \o frames, postInit',
         UNCHANGED <<pamRequired, shown, answered>>
  PROVE  PamInv'
<1>1. convs \in [Pam!Convs -> AnyConversation] /\ convs[k] \in AnyConversation /\ frames \in Seq(AnyFrame)
      /\ k # 0 /\ conv' \in Pam!Convs
  BY ConvsAreNumbered DEF PamInv, PamType, Pam!Convs
<1> DEFINE new == [[convs[k] EXCEPT !.st = "live"] EXCEPT !.linked = TRUE]
<1>2. convs' = [convs EXCEPT ![k] = new]
  BY <1>1
<1>3. /\ new \in AnyConversation /\ new.st = "live"
      /\ new.up = convs[k].up /\ new.down = convs[k].down /\ new.sent = convs[k].sent
      /\ new.child = convs[k].child /\ convs[k].child = "none"
  BY <1>1 DEF AnyConversation, PamInv, Owned
<1> HIDE DEF new
<1>4. /\ convs' \in [Pam!Convs -> AnyConversation] /\ convs'[k] = new
      /\ \A m \in Pam!Convs : m # k => convs'[m] = convs[m]
  BY <1>1, <1>2, <1>3
<1> DEFINE f == Pam!Frame("starting", k)
<1>5. f \in AnyFrame /\ f.at = "starting"
  BY DEF AnyFrame, Pam!Frame, Pam!Points
<1> HIDE DEF f
<1>6. frames' \in Seq(AnyFrame) /\ frames' # <<>> /\ Head(frames') = f /\ Tail(frames') = frames
  BY <1>1, <1>5, FramePush DEF f
<1>7. Aborting(frames') <=> Aborting(frames)
  BY <1>5, <1>6, PlainTop
<1>8. PamType'
  BY <1>1, <1>4, <1>6 DEF PamType
<1>9. \A m \in Pam!Convs : Orderly(convs[m])'
  <2> SUFFICES ASSUME NEW m \in Pam!Convs PROVE Orderly(convs'[m])
    BY DEF Orderly, Stopped
  <2>1. CASE m = k
    BY <1>3, <1>4, <2>1 DEF PamInv, Orderly, Stopped
  <2>2. CASE m # k
    BY <1>4, <2>2 DEF PamInv
  <2> QED BY <2>1, <2>2
<1>10. Owned'
  <2>1. ASSUME NEW m \in Pam!Convs
        PROVE  /\ convs'[m].linked => m = k
               /\ convs'[m].st = "unused" => convs'[m].child = "none" /\ ~convs'[m].linked
    <3>1. CASE m = k
      BY <1>3, <1>4, <3>1
    <3>2. CASE m # k
      <4>1. m # 0 /\ convs'[m] = convs[m]
        BY <1>4, <3>2, ConvsAreNumbered DEF Pam!Convs
      <4> QED BY <4>1 DEF PamInv, Owned
    <3> QED BY <3>1, <3>2
  <2>2. conv' = k /\ convs'[conv'].st = "live" /\ postInit'
    BY <1>3, <1>4
  <2> QED BY <2>1, <2>2 DEF Owned
<1>11. Stacked'
  <2>1. Plain(Tail(frames))'
    BY <1>6 DEF Plain
  <2>2. convs'[conv'].child = "none" /\ conv' # 0
    BY <1>1, <1>3, <1>4
  <2> QED BY <1>5, <1>6, <2>1, <2>2 DEF Stacked
<1>12. RequiredIsAsked'
  <2>1. ~(frames # <<>> /\ Head(frames).at = "messageChanged")
    BY <1>1, PlainTop
  <2>2. pamRequired => Aborting(frames)
    BY <2>1 DEF PamInv, RequiredIsAsked
  <2>3. pamRequired' => Aborting(frames)'
    BY <1>7, <2>2 DEF Aborting
  <2> QED BY <2>3 DEF RequiredIsAsked
<1>13. Used(frames)'
  <2>1. f.k = k /\ frames' = <<f>> \o frames
    BY DEF f, Pam!Frame
  <2>2. \A i \in 1..Len(frames) : convs'[frames[i].k].st # "unused"
    <3>1. \A i \in 1..Len(frames) : frames[i] \in AnyFrame
      BY <1>1, ElementOfSeq
    <3> QED BY <1>3, <1>4, <3>1 DEF PamInv, Used, AnyFrame
  <2>3. convs'[k].st # "unused"
    BY <1>3, <1>4
  <2> QED BY <1>1, <1>5, <2>1, <2>2, <2>3, UsedPushed
<1> QED BY <1>8, <1>9, <1>10, <1>11, <1>12, <1>13 DEF PamInv

\* error() or completed() of conversation k, which may no longer reach the context, with the
\* calls fs left to do.
LEMMA CompletesKeeps ==
  ASSUME PamInv, NEW k \in Pam!Convs, convs[k].linked, NEW cs \in [Pam!Convs -> AnyConversation],
         \A m \in Pam!Convs : /\ Orderly(cs[m]) /\ cs[m].linked = convs[m].linked /\ cs[m].st = convs[m].st
                              /\ convs[m].st = "unused" => cs[m].child = "none",
         NEW fs \in Seq(AnyFrame), Plain(fs), Used(fs), UNCHANGED postInit,
         Pam!Completes(cs, k, fs) \/ Pam!Fails(cs, k, fs)
  PROVE  PamInv'
<1>1. conv = k /\ conv # 0
  BY ConvsAreNumbered DEF PamInv, Owned, Pam!Convs
<1> DEFINE c == <<Pam!Frame("completed", k)>> \o fs
           e == <<Pam!Frame("error", k)>> \o c
<1>0. convs[k].st # "unused"
  BY DEF PamInv, Owned
<1>2. c \in Seq(AnyFrame) /\ Plain(c) /\ Used(c)
  BY <1>0, PlainPush, UsedPush
<1> HIDE DEF c
<1>3. e \in Seq(AnyFrame) /\ Plain(e) /\ Used(e)
  BY <1>0, <1>2, PlainPush, UsedPush
<1>4. <<Pam!Frame("error", k), Pam!Frame("completed", k)>> \o fs = e
  <2>1. Pam!Frame("error", k) \in AnyFrame /\ Pam!Frame("completed", k) \in AnyFrame
    BY DEF AnyFrame, Pam!Frame, Pam!Points
  <2> QED BY <2>1, TwoFrames DEF c
<1> HIDE DEF e
<1>5. ASSUME NEW rest \in {c, e}, Pam!AbortConversation(cs, rest) PROVE PamInv'
  BY <1>1, <1>2, <1>3, <1>5, AbortKeeps DEF Pam!AbortConversation, Pam!NoConv
<1>6. Pam!AbortConversation(cs, c) \/ Pam!AbortConversation(cs, e)
  BY <1>4 DEF Pam!Completes, Pam!Fails, c
<1> QED BY <1>5, <1>6

-----------------------------------------------------------------------------
(* The steps of a PAM conversation                                           *)

LEMMA InitPamInv == Pam!Init => PamInv
<1> SUFFICES ASSUME Pam!Init PROVE PamInv
  OBVIOUS
<1>1. /\ postInit = FALSE /\ conv = 0 /\ pamRequired = FALSE /\ frames = <<>>
      /\ convs = [k \in Pam!Convs |-> Pam!NoConversation]
  BY DEF Pam!Init, Pam!NoConv
<1>2. Pam!NoConversation \in AnyConversation
  BY EmptySeq DEF Pam!NoConversation, AnyConversation
<1>3. Pam!NoConversation.st = "unused" /\ Pam!NoConversation.child = "none" /\ ~Pam!NoConversation.linked
      /\ Pam!NoConversation.up = <<>> /\ Pam!NoConversation.down = <<>>
  BY DEF Pam!NoConversation
<1>4. Len(<<>>) = 0
  OBVIOUS
<1>5. PamType
  BY <1>1, <1>2, EmptySeq DEF PamType
<1>6. \A k \in Pam!Convs : Orderly(convs[k])
  BY <1>1, <1>3, <1>4 DEF Orderly
<1>7. Owned
  BY <1>1, <1>3 DEF Owned
<1> QED BY <1>1, <1>4, <1>5, <1>6, <1>7 DEF PamInv, Stacked, Used, RequiredIsAsked

\* Nothing of what the invariant speaks of changes.
LEMMA NothingPam ==
  ASSUME PamInv, UNCHANGED <<postInit, conv, pamRequired, shown, answered, convs, frames>> PROVE PamInv'
BY DEF PamInv, PamType, Orderly, Stopped, Owned, Stacked, Plain, Used, Ready, Asks, RequiredIsAsked, Aborting

LEMMA SameConvs ==
  ASSUME PamInv, UNCHANGED convs PROVE ConvsStep
BY DEF PamInv, PamType, ConvsStep

LEMMA ActivateKeeps == ASSUME PamInv, AnswersInTurn, Pam!Activate PROVE PamInv'
<1>1. Plain(frames) /\ UNCHANGED <<postInit, pamRequired, shown, answered>>
  BY QmlIsPlain DEF Pam!Activate
<1>2. CASE UNCHANGED <<conv, convs, frames>>
  BY <1>1, <1>2, NothingPam
<1>3. ASSUME NEW k \in Pam!Convs, convs[k].st = "unused", postInit, conv = 0, conv' = k,
             convs' = [convs EXCEPT ![k].st = "live", ![k].linked = TRUE],
             frames' = <<Pam!Frame("starting", k)>> \o frames
      PROVE  PamInv'
  BY <1>1, <1>3, StartKeeps
<1> QED BY <1>2, <1>3 DEF Pam!Activate, Pam!StartConversation, Pam!NoConv

LEMMA ComponentCompleteKeeps == ASSUME PamInv, Pam!ComponentComplete PROVE PamInv'
<1>1. frames = <<>> /\ ~postInit /\ postInit' /\ UNCHANGED <<pamRequired, shown, answered>>
      /\ conv = 0 /\ \A k \in Pam!Convs : convs[k].st = "unused"
  BY DEF Pam!ComponentComplete, PamInv, Owned
<1>2. CASE UNCHANGED <<conv, convs, frames>>
  <2>1. PamType' /\ (\A k \in Pam!Convs : Orderly(convs[k])') /\ Owned'
    BY <1>1, <1>2 DEF PamInv, PamType, Orderly, Stopped, Owned
  <2>2. Stacked' /\ Used(frames)' /\ RequiredIsAsked'
    BY <1>1, <1>2 DEF PamInv, Stacked, Plain, Used, RequiredIsAsked, Aborting, Ready, Asks, Stopped
  <2> QED BY <2>1, <2>2 DEF PamInv
<1>3. CASE /\ convs' = [convs EXCEPT ![1].st = "live", ![1].linked = TRUE] /\ conv' = 1
           /\ frames' = <<Pam!Frame("starting", 1)>>
  <2>1. PICK k \in Pam!Convs : k = 1
    BY ConvsAreNumbered DEF Pam!Convs
  <2> DEFINE f == Pam!Frame("starting", k)
  <2>2. f \in AnyFrame
    BY DEF AnyFrame, Pam!Frame, Pam!Points
  <2> HIDE DEF f
  <2>3. <<f>> \in Seq(AnyFrame)
    BY <2>2
  <2>4. <<f>> = <<f>> \o <<>>
    BY <2>3, ConcatEmptySeq
  <2>5. frames' = <<Pam!Frame("starting", k)>> \o frames
    BY <1>1, <1>3, <2>1, <2>4 DEF f
  <2>6. Plain(frames)
    BY <1>1, NoFrames
  <2> QED BY <1>1, <1>3, <2>1, <2>5, <2>6, StartKeeps
<1> QED BY <1>2, <1>3 DEF Pam!ComponentComplete

LEMMA DeactivateKeeps == ASSUME PamInv, AnswersInTurn, Pam!Deactivate PROVE PamInv'
<1>1. Plain(frames) /\ frames \in Seq(AnyFrame) /\ UNCHANGED <<postInit, pamRequired, shown, answered>>
  BY QmlIsPlain DEF Pam!Deactivate
<1>2. CASE UNCHANGED <<conv, convs, frames>>
  BY <1>1, <1>2, NothingPam
<1>3. CASE conv # 0 /\ Pam!AbortConversation(convs, frames)
  <2>1. /\ convs' = [convs EXCEPT ![conv].st = "doomed", ![conv].linked = FALSE]
        /\ conv' = 0 /\ frames' = <<Pam!Frame("aborting", conv)>> \o frames
    BY <1>3 DEF Pam!AbortConversation, Pam!NoConv
  <2>2. convs \in [Pam!Convs -> AnyConversation] /\ Used(frames)
        /\ \A k \in Pam!Convs : Orderly(convs[k]) /\ (convs[k].st = "unused" => convs[k].child = "none")
    BY DEF PamInv, PamType, Owned
  <2> QED BY <1>1, <1>3, <2>1, <2>2, AbortKeeps
<1> QED BY <1>2, <1>3 DEF Pam!Deactivate, Pam!NoConv

LEMMA AbortedKeeps == ASSUME PamInv, Pam!Aborted PROVE PamInv'
<1>1. frames # <<>> /\ frames' = Tail(frames) /\ pamRequired' = FALSE
      /\ UNCHANGED <<postInit, conv, shown, answered, convs>>
  BY DEF Pam!Aborted, Pam!At, Pam!Return
<1>2. ConvsStep /\ (conv # 0 /\ Ready(convs[conv]) => Ready(convs[conv])')
  BY <1>1, SameConvs DEF Ready, Stopped, Asks
<1> QED BY <1>1, <1>2, BelowIsPlain, GoesOn

LEMMA EmittedKeeps == ASSUME PamInv, Pam!Emitted PROVE PamInv'
<1>1. frames # <<>> /\ frames' = Tail(frames) /\ Head(frames).at \in {"error", "completed", "pamMessage"}
      /\ UNCHANGED <<postInit, conv, pamRequired, shown, answered, convs>>
  BY DEF Pam!Emitted, Pam!Top, Pam!Return
<1>2. ConvsStep /\ (conv # 0 /\ Ready(convs[conv]) => Ready(convs[conv])')
  BY <1>1, SameConvs DEF Ready, Stopped, Asks
<1>3. Aborting(frames) => Aborting(Tail(frames))
  BY <1>1, PlainTop DEF PamInv, PamType
<1> QED BY <1>1, <1>2, <1>3, BelowIsPlain, GoesOn

\* One conversation changes, its messages to come and its answers as they were.
LEMMA ChildChanges ==
  ASSUME PamInv, NEW k \in Pam!Convs, convs[k].st # "unused", NEW c \in AnyConversation,
         convs' = [convs EXCEPT ![k] = c], Orderly(c),
         c.linked = convs[k].linked, c.st = convs[k].st
  PROVE  /\ ConvsStep /\ convs'[k] = c
         /\ \A m \in Pam!Convs : m # k => convs'[m] = convs[m]
<1>1. convs \in [Pam!Convs -> AnyConversation]
  BY DEF PamInv, PamType
<1>2. /\ convs'[k] = c /\ convs' \in [Pam!Convs -> AnyConversation]
      /\ \A m \in Pam!Convs : m # k => convs'[m] = convs[m]
  BY <1>1
<1>3. ASSUME NEW m \in Pam!Convs
      PROVE  /\ Orderly(convs'[m]) /\ (convs'[m].linked => convs[m].linked) /\ convs'[m].st = convs[m].st
             /\ convs[m].st = "unused" => convs'[m].child = convs[m].child
  <2>1. CASE m = k
    BY <1>2, <2>1
  <2>2. CASE m # k
    BY <1>2, <2>2 DEF PamInv
  <2> QED BY <2>1, <2>2
<1> QED BY <1>2, <1>3 DEF ConvsStep

LEMMA ChildStarts ==
  ASSUME PamInv, NEW k \in Pam!Convs, convs[k].st = "live", NEW c \in AnyConversation,
         convs' = [convs EXCEPT ![k] = c], Orderly(c), c.linked = convs[k].linked, c.st = convs[k].st
  PROVE  ConvsStep
<1>1. convs[k].st # "unused"
  OBVIOUS
<1> QED BY <1>1, ChildChanges

LEMMA ReapedKeeps == ASSUME PamInv, Pam!Reaped PROVE PamInv'
<1>1. PICK k : k = Head(frames).k
  OBVIOUS
<1>2. frames # <<>> /\ frames' = Tail(frames) /\ Head(frames).at = "reap"
      /\ UNCHANGED <<postInit, conv, pamRequired, shown, answered>>
      /\ convs' = [convs EXCEPT ![k].pid = FALSE, ![k].child = "reaped"]
  BY <1>1 DEF Pam!Reaped, Pam!At, Pam!Top, Pam!Return
<1>3. k \in Pam!Convs /\ convs[k] \in AnyConversation /\ convs \in [Pam!Convs -> AnyConversation]
  BY <1>1, <1>2, FrameTop DEF PamInv, PamType, AnyFrame
<1> DEFINE c == [[convs[k] EXCEPT !.pid = FALSE] EXCEPT !.child = "reaped"]
<1>4. convs' = [convs EXCEPT ![k] = c]
  BY <1>2, <1>3
<1>5. /\ c \in AnyConversation /\ c.linked = convs[k].linked /\ c.st = convs[k].st
      /\ c.up = convs[k].up /\ c.down = convs[k].down /\ c.sent = convs[k].sent /\ c.child = "reaped"
  BY <1>3 DEF AnyConversation
<1> HIDE DEF c
<1>6. convs[k].st # "unused" /\ Orderly(convs[k])
  BY <1>1, <1>2, <1>3, UsedBelow DEF PamInv, PamType
<1>7. Orderly(c)
  BY <1>5, <1>6 DEF Orderly, Stopped
<1>8. ConvsStep /\ convs'[k] = c /\ \A m \in Pam!Convs : m # k => convs'[m] = convs[m]
  BY <1>3, <1>4, <1>5, <1>6, <1>7, ChildChanges
<1>9. conv # 0 /\ Ready(convs[conv]) => Ready(convs[conv])'
  BY <1>2, <1>5, <1>8 DEF PamInv, PamType, Ready, Asks, Stopped
<1>10. Aborting(frames) => Aborting(Tail(frames))
  BY <1>2, PlainTop DEF PamInv, PamType
<1> QED BY <1>2, <1>8, <1>9, <1>10, BelowIsPlain, GoesOn

\* A conversation whose child is killed, if it has one, and one whose next message is read.
LEMMA KilledIsOrderly ==
  ASSUME PamInv, NEW k \in Pam!Convs
  PROVE  \E c \in AnyConversation :
           /\ Pam!Killed(k) = [convs EXCEPT ![k] = c] /\ Orderly(c)
           /\ c.linked = convs[k].linked /\ c.st = convs[k].st
           /\ Ready(convs[k]) => Ready(c)
<1>1. convs \in [Pam!Convs -> AnyConversation] /\ convs[k] \in AnyConversation /\ Orderly(convs[k])
  BY DEF PamInv, PamType
<1> DEFINE ch == IF convs[k].pid THEN "reaped" ELSE convs[k].child
           c  == [[convs[k] EXCEPT !.pid = FALSE] EXCEPT !.child = ch]
<1>2. ch \in {"none", "running", "waiting", "ended", "reaped"} /\ (Stopped(convs[k]) => ch \in {"waiting", "ended", "reaped"})
  BY <1>1 DEF AnyConversation, Stopped
<1>3. Pam!Killed(k) = [convs EXCEPT ![k] = c]
  BY <1>1 DEF Pam!Killed
<1> HIDE DEF ch
<1>4. /\ c \in AnyConversation /\ c.linked = convs[k].linked /\ c.st = convs[k].st
      /\ c.up = convs[k].up /\ c.down = convs[k].down /\ c.sent = convs[k].sent /\ c.child = ch
  BY <1>1, <1>2 DEF AnyConversation
<1> HIDE DEF c
<1>5. Orderly(c)
  BY <1>1, <1>2, <1>4 DEF Orderly, Stopped
<1>6. Ready(convs[k]) => Ready(c)
  BY <1>2, <1>4 DEF Ready, Asks, Stopped
<1> QED BY <1>3, <1>4, <1>5, <1>6

LEMMA ReadIsOrderly ==
  ASSUME PamInv, NEW k \in Pam!Convs, convs[k].up # <<>>
  PROVE  \E c \in AnyConversation :
           /\ Pam!Read(k) = [convs EXCEPT ![k] = c] /\ Orderly(c)
           /\ c.linked = convs[k].linked /\ c.st = convs[k].st /\ c.child = convs[k].child
           /\ Ready(convs[k]) => Ready(c)
           /\ Head(convs[k].up).type = "ask" =>
                Head(convs[k].up).n = c.sent /\ c.down = <<>> /\ Stopped(c) /\ ~Asks(c)
<1>1. convs \in [Pam!Convs -> AnyConversation] /\ convs[k] \in AnyConversation /\ Orderly(convs[k])
  BY DEF PamInv, PamType
<1> DEFINE u == convs[k].up
           t == Tail(u)
           c == [convs[k] EXCEPT !.up = t]
<1>2. u \in Seq(AnyMessage) /\ u # <<>>
  BY <1>1 DEF AnyConversation
<1>3. Pam!Read(k) = [convs EXCEPT ![k] = c]
  BY <1>1 DEF Pam!Read
<1>4. /\ t \in Seq(AnyMessage) /\ Len(t) = Len(u) - 1 /\ Head(u) = u[1]
      /\ \A i \in 1..Len(u)-1 : t[i] = u[i + 1]
  <2> HIDE DEF u
  <2> QED BY <1>2, HeadTailProperties
<1>5. Len(u) \in Nat /\ Len(u) > 0
  <2> HIDE DEF u
  <2> QED BY <1>2, LenProperties, EmptySeq
<1> HIDE DEF t
<1>6. /\ c \in AnyConversation /\ c.linked = convs[k].linked /\ c.st = convs[k].st /\ c.child = convs[k].child
      /\ c.up = t /\ c.down = convs[k].down /\ c.sent = convs[k].sent
  BY <1>1, <1>4 DEF AnyConversation
<1> HIDE DEF c
<1>7. \A i \in 1..Len(u) : u[i].type = "ask" =>
        i = Len(u) /\ u[i].n = convs[k].sent /\ convs[k].down = <<>> /\ Stopped(convs[k])
  BY <1>1 DEF Orderly
<1> DEFINE n == Len(u)
<1>8. n \in Nat /\ n > 0 /\ Len(t) = n - 1 /\ \A i \in 1..n-1 : i + 1 \in 1..n /\ t[i] = u[i + 1]
  BY <1>4, <1>5
<1>9. Len(u) = n
  OBVIOUS
<1> HIDE DEF n, u
<1>10. \A i \in 1..Len(t) : t[i].type = "ask" =>
         i = Len(t) /\ t[i].n = convs[k].sent /\ convs[k].down = <<>> /\ Stopped(convs[k])
  <2> SUFFICES ASSUME NEW i \in 1..Len(t), t[i].type = "ask"
               PROVE  i = Len(t) /\ t[i].n = convs[k].sent /\ convs[k].down = <<>> /\ Stopped(convs[k])
    OBVIOUS
  <2>1. i + 1 \in 1..n /\ u[i + 1].type = "ask" /\ t[i] = u[i + 1]
    BY <1>8
  <2> QED BY <1>7, <1>8, <1>9, <2>1
<1>11. Orderly(c)
  BY <1>1, <1>6, <1>10 DEF Orderly, Stopped
<1>12. (\E i \in 1..Len(t) : t[i].type = "ask") => \E i \in 1..n : u[i].type = "ask"
  BY <1>8
<1>13. Ready(convs[k]) => Ready(c)
  BY <1>6, <1>9, <1>12 DEF Ready, Asks, Stopped, u
<1>14. ASSUME Head(u).type = "ask"
       PROVE  Head(u).n = c.sent /\ c.down = <<>> /\ Stopped(c) /\ ~Asks(c)
  <2>1. n = 1 /\ Head(u).n = convs[k].sent /\ convs[k].down = <<>> /\ Stopped(convs[k])
    BY <1>4, <1>7, <1>8, <1>9, <1>14
  <2>2. Len(t) = 0
    BY <1>8, <2>1
  <2> QED BY <1>6, <2>1, <2>2 DEF Stopped, Asks
<1> QED BY <1>3, <1>6, <1>11, <1>13, <1>14 DEF u

\* A step of conversation k's child.
LEMMA ChildKeeps ==
  ASSUME PamInv, NEW k \in Pam!Convs, convs[k].child # "none", NEW c \in AnyConversation,
         convs' = [convs EXCEPT ![k] = c], Orderly(c), c.linked = convs[k].linked, c.st = convs[k].st,
         Ready(convs[k]) => Ready(c),
         UNCHANGED <<postInit, conv, pamRequired, shown, answered, frames>>
  PROVE  PamInv'
<1>1. convs[k].st # "unused"
  BY DEF PamInv, Owned
<1>2. ConvsStep /\ convs'[k] = c /\ \A m \in Pam!Convs : m # k => convs'[m] = convs[m]
  BY <1>1, ChildChanges
<1>3. ASSUME conv # 0
      PROVE  /\ Ready(convs[conv]) => Ready(convs[conv])'
             /\ convs[conv].child = "none" => convs'[conv].child = "none"
  <2>1. conv \in Pam!Convs
    BY <1>3 DEF PamInv, PamType
  <2>2. CASE conv = k
    BY <1>2, <2>2 DEF Ready, Stopped, Asks
  <2>3. CASE conv # k
    BY <1>2, <2>1, <2>3 DEF Ready, Stopped, Asks
  <2> QED BY <2>2, <2>3
<1> QED BY <1>2, <1>3, StayKeeps

\* Conversation k may change without leaving its readiness, and is not heard of any more.
LEMMA UnheardKeeps ==
  ASSUME PamInv, NEW k \in Pam!Convs, convs[k].st # "unused", NEW c \in AnyConversation,
         convs' = [convs EXCEPT ![k] = c], Orderly(c), c.linked = convs[k].linked, c.st = convs[k].st,
         Ready(convs[k]) => Ready(c),
         UNCHANGED <<postInit, conv, pamRequired, shown>>, answered' = answered \/ answered' = TRUE,
         NEW rest \in Seq(AnyFrame), Plain(rest), Used(rest), frames' = rest,
         ~Aborting(frames), ~(frames # <<>> /\ Head(frames).at = "messageChanged")
  PROVE  PamInv'
<1>1. ConvsStep /\ convs'[k] = c /\ \A m \in Pam!Convs : m # k => convs'[m] = convs[m]
  BY ChildChanges
<1>2. conv # 0 /\ Ready(convs[conv]) => Ready(convs[conv])'
  <2> SUFFICES ASSUME conv # 0, Ready(convs[conv]) PROVE Ready(convs[conv])'
    OBVIOUS
  <2>1. conv \in Pam!Convs
    BY DEF PamInv, PamType
  <2>2. CASE conv = k
    BY <1>1, <2>2 DEF Ready, Stopped, Asks
  <2>3. CASE conv # k
    BY <1>1, <2>1, <2>3 DEF Ready, Stopped, Asks
  <2> QED BY <2>2, <2>3
<1> QED BY <1>1, <1>2, GoesOn

\* The conversations with one that changed.
LEMMA Changed ==
  ASSUME PamInv, NEW k \in Pam!Convs, NEW c \in AnyConversation, NEW cs, cs = [convs EXCEPT ![k] = c],
         Orderly(c), c.linked = convs[k].linked, c.st = convs[k].st, convs[k].st # "unused"
  PROVE  /\ cs \in [Pam!Convs -> AnyConversation]
         /\ \A m \in Pam!Convs : /\ Orderly(cs[m]) /\ cs[m].linked = convs[m].linked /\ cs[m].st = convs[m].st
                                 /\ convs[m].st = "unused" => cs[m].child = "none"
<1>1. /\ cs[k] = c /\ cs \in [Pam!Convs -> AnyConversation]
      /\ \A m \in Pam!Convs : m # k => cs[m] = convs[m]
  BY DEF PamInv, PamType
<1>2. ASSUME NEW m \in Pam!Convs
      PROVE  /\ Orderly(cs[m]) /\ cs[m].linked = convs[m].linked /\ cs[m].st = convs[m].st
             /\ convs[m].st = "unused" => cs[m].child = "none"
  <2>1. CASE m = k
    BY <1>1, <2>1
  <2>2. CASE m # k
    BY <1>1, <2>2 DEF PamInv, Owned
  <2> QED BY <2>1, <2>2
<1> QED BY <1>1, <1>2

\* What the end of conversation k does when the calls fs are left to do.
LEMMA EndKeeps ==
  ASSUME PamInv, NEW k \in Pam!Convs, convs[k].st # "unused", NEW c \in AnyConversation, NEW cs,
         cs = [convs EXCEPT ![k] = c], Orderly(c), c.linked = convs[k].linked, c.st = convs[k].st,
         Ready(convs[k]) => Ready(c),
         UNCHANGED <<postInit, pamRequired, shown>>, answered' = answered \/ answered' = TRUE,
         NEW fs \in Seq(AnyFrame), Plain(fs), Used(fs),
         ~Aborting(frames), ~(frames # <<>> /\ Head(frames).at = "messageChanged"),
         Pam!Completes(cs, k, fs) \/ Pam!Fails(cs, k, fs)
  PROVE  PamInv'
<1>1. CASE convs[k].linked
  BY <1>1, Changed, CompletesKeeps
<1>2. CASE ~convs[k].linked
  <2>1. convs' = cs /\ frames' = fs /\ conv' = conv
    BY <1>2 DEF Pam!Completes, Pam!Fails
  <2> QED BY <2>1, UnheardKeeps
<1> QED BY <1>1, <1>2

LEMMA StartedKeeps == ASSUME PamInv, Pam!Started PROVE PamInv'
<1>1. /\ frames # <<>> /\ Head(frames).at = "starting" /\ conv # 0
      /\ UNCHANGED <<postInit, pamRequired, shown, answered>>
      /\ convs[conv].child = "none" /\ conv \in Pam!Convs /\ convs[conv].st = "live"
      /\ convs \in [Pam!Convs -> AnyConversation] /\ convs[conv] \in AnyConversation /\ Orderly(convs[conv])
  BY DEF Pam!Started, Pam!At, Pam!NoConv, PamInv, PamType, Stacked, Owned
<1>2. Aborting(frames) => Aborting(Tail(frames))
  BY <1>1, PlainTop DEF PamInv, PamType
<1>3. Tail(frames) \in Seq(AnyFrame) /\ Plain(Tail(frames)) /\ Used(Tail(frames))
  BY <1>1, BelowIsPlain
<1>4. ~Ready(convs[conv])
  BY <1>1 DEF Ready, Stopped
<1>5. CASE /\ convs' = [convs EXCEPT ![conv].pid = TRUE, ![conv].child = "running"]
           /\ frames' = Tail(frames) /\ conv' = conv
  <2> DEFINE c == [[convs[conv] EXCEPT !.pid = TRUE] EXCEPT !.child = "running"]
  <2>1. convs' = [convs EXCEPT ![conv] = c]
    BY <1>1, <1>5
  <2>2. /\ c \in AnyConversation /\ c.linked = convs[conv].linked /\ c.st = convs[conv].st
        /\ c.up = convs[conv].up /\ c.down = convs[conv].down /\ c.sent = convs[conv].sent
    BY <1>1 DEF AnyConversation
  <2> HIDE DEF c
  <2>3. Orderly(c)
    BY <1>1, <2>2 DEF Orderly, Stopped
  <2>4. ConvsStep
    BY <1>1, <2>1, <2>2, <2>3, ChildStarts
  <2> QED BY <1>1, <1>2, <1>3, <1>4, <1>5, <2>4, GoesOn
<1>6. CASE Pam!Fails(convs, conv, Tail(frames))
  <2>1. CASE convs[conv].linked
    <3>1. \A m \in Pam!Convs : Orderly(convs[m]) /\ (convs[m].st = "unused" => convs[m].child = "none")
      BY DEF PamInv, Owned
    <3> QED BY <1>1, <1>3, <1>6, <2>1, <3>1, CompletesKeeps
  <2>2. CASE ~convs[conv].linked
    <3>1. convs' = convs /\ frames' = Tail(frames) /\ conv' = conv
      BY <1>6, <2>2 DEF Pam!Fails
    <3> QED BY <1>1, <1>2, <1>3, <1>4, <3>1, SameConvs, GoesOn
  <2> QED BY <2>1, <2>2
<1> QED BY <1>5, <1>6 DEF Pam!Started, Pam!Return

LEMMA AnswerKeeps == ASSUME PamInv, AnswersInTurn, Pam!Respond PROVE PamInv'
<1>1. /\ Plain(frames) /\ frames \in Seq(AnyFrame) /\ Used(frames)
      /\ conv # 0 /\ pamRequired /\ answered' = TRUE /\ ~answered
      /\ UNCHANGED <<postInit, pamRequired, shown>>
      /\ frames # <<>> => Head(frames).at = "pamMessage"
  BY QmlIsPlain DEF Pam!Respond, Pam!NoConv, Pam!Top, AnswersInTurn
<1>2. ~Aborting(frames) /\ ~(frames # <<>> /\ Head(frames).at = "messageChanged")
  BY <1>1, NoFrames, PlainTop
<1>3. Ready(convs[conv])
  BY <1>1, <1>2 DEF PamInv, RequiredIsAsked
<1>4. /\ conv \in Pam!Convs /\ convs[conv].st = "live" /\ convs \in [Pam!Convs -> AnyConversation]
      /\ convs[conv] \in AnyConversation
  BY <1>1 DEF PamInv, PamType, Owned
<1>5. CASE convs' = [convs EXCEPT ![conv].down = Append(@, shown)] /\ UNCHANGED <<conv, frames>>
  <2> DEFINE d == Append(convs[conv].down, shown)
             c == [convs[conv] EXCEPT !.down = d]
  <2>1. convs' = [convs EXCEPT ![conv] = c]
    BY <1>4, <1>5
  <2>2. convs[conv].down = <<>> /\ shown = convs[conv].sent /\ shown \in Nat
    BY <1>3, <1>4 DEF Ready, AnyConversation
  <2>3. d \in Seq(Nat) /\ Len(d) = 1 /\ d[1] = shown
    BY <2>2
  <2> HIDE DEF d
  <2>4. /\ c \in AnyConversation /\ c.linked = convs[conv].linked /\ c.st = convs[conv].st
        /\ c.up = convs[conv].up /\ c.down = d /\ c.sent = convs[conv].sent /\ c.child = convs[conv].child
    BY <1>4, <2>3 DEF AnyConversation
  <2> HIDE DEF c
  <2>5. Orderly(c)
    BY <1>3, <2>2, <2>3, <2>4 DEF Ready, Orderly, Asks, Stopped
  <2>6. convs[conv].st # "unused"
    BY <1>4
  <2>7. ConvsStep
    BY <1>4, <2>1, <2>4, <2>5, <2>6, ChildChanges
  <2> QED BY <1>1, <1>2, <1>5, <2>7, GoesOn
<1>6. CASE Pam!Fails(Pam!Killed(conv), conv, frames)
  <2>1. PICK c \in AnyConversation :
           /\ Pam!Killed(conv) = [convs EXCEPT ![conv] = c] /\ Orderly(c)
           /\ c.linked = convs[conv].linked /\ c.st = convs[conv].st
           /\ Ready(convs[conv]) => Ready(c)
    BY <1>4, KilledIsOrderly
  <2>2. convs[conv].st # "unused"
    BY <1>4
  <2> QED BY <1>1, <1>2, <1>4, <1>6, <2>1, <2>2, EndKeeps
<1> QED BY <1>5, <1>6 DEF Pam!Respond

LEMMA OnRequestKeeps == ASSUME PamInv, NEW k \in Pam!Convs, Pam!OnRequest(k) PROVE PamInv'
<1>1. /\ frames = <<>> /\ convs[k].up # <<>> /\ convs[k].st \in {"live", "doomed"}
      /\ convs' = Pam!Read(k) /\ UNCHANGED <<postInit, conv, pamRequired>>
  BY DEF Pam!OnRequest, Pam!Readable
<1>2. PICK c \in AnyConversation :
         /\ Pam!Read(k) = [convs EXCEPT ![k] = c] /\ Orderly(c)
         /\ c.linked = convs[k].linked /\ c.st = convs[k].st /\ c.child = convs[k].child
         /\ Ready(convs[k]) => Ready(c)
         /\ Head(convs[k].up).type = "ask" =>
              Head(convs[k].up).n = c.sent /\ c.down = <<>> /\ Stopped(c) /\ ~Asks(c)
  BY <1>1, ReadIsOrderly
<1>3. convs[k].st # "unused" /\ convs' = [convs EXCEPT ![k] = c]
  BY <1>1, <1>2
<1>4. CASE convs[k].linked
  <2>1. /\ shown' = Head(convs[k].up).n /\ answered' = FALSE
        /\ frames' = <<[at |-> "messageChanged", k |-> k, ask |-> Head(convs[k].up).type = "ask"]>>
    BY <1>4 DEF Pam!OnRequest
  <2> DEFINE ask == Head(convs[k].up).type = "ask"
             f == [at |-> "messageChanged", k |-> k, ask |-> ask]
  <2>2. ask \in BOOLEAN
    OBVIOUS
  <2>3. frames' = <<f>>
    BY <2>1
  <2> HIDE DEF ask
  <2>4. f \in AnyFrame /\ f.at = "messageChanged" /\ f.k = k /\ f.ask = ask
    BY <2>2 DEF AnyFrame
  <2> HIDE DEF f
  <2>5. <<f>> \in Seq(AnyFrame)
    BY <2>4
  <2>6. frames' = <<f>> \o <<>>
    BY <2>3, <2>5, ConcatEmptySeq
  <2>7. frames' \in Seq(AnyFrame) /\ frames' # <<>> /\ Head(frames') = f /\ Tail(frames') = <<>>
    BY <2>4, <2>6, NoFrames, FramePush
  <2>8. k = conv /\ conv # 0 /\ conv' = conv /\ conv \in Pam!Convs
    BY <1>1, <1>4, ConvsAreNumbered DEF PamInv, Owned, Pam!Convs
  <2>9. ConvsStep /\ convs'[k] = c
    BY <1>2, <1>3, ChildChanges
  <2>10. PamType' /\ \A m \in Pam!Convs : Orderly(convs[m])'
    BY <2>7, <2>8, <2>9 DEF PamType, ConvsStep, Orderly, Stopped
  <2>11. Owned'
    BY <1>1, <2>9, OwnedKeeps
  <2>12. ask => Ready(convs[conv])'
    BY <1>2, <2>1, <2>8, <2>9 DEF ask, Ready, Asks, Stopped
  <2>13. Stacked'
    <3>1. Plain(Tail(frames))'
      BY <2>7, NoFrames DEF Plain
    <3> QED BY <2>1, <2>4, <2>7, <2>8, <2>12, <3>1 DEF Stacked
  <2>14. Used(frames)'
    <3>1. convs'[f.k].st # "unused"
      BY <1>2, <1>3, <2>4, <2>9
    <3> QED BY <2>4, <2>6, <3>1, OnlyCall
  <2>15. RequiredIsAsked'
    BY <2>4, <2>7 DEF RequiredIsAsked
  <2> QED BY <2>10, <2>11, <2>13, <2>14, <2>15 DEF PamInv
<1>5. CASE ~convs[k].linked
  <2>1. UNCHANGED <<shown, answered, frames>>
    BY <1>5 DEF Pam!OnRequest
  <2> QED BY <1>1, <1>2, <1>3, <2>1, NoFrames, UnheardKeeps
<1> QED BY <1>4, <1>5

LEMMA MessageChangedKeeps == ASSUME PamInv, Pam!MessageChanged PROVE PamInv'
<1> DEFINE k == Head(frames).k
           f == Pam!Frame("pamMessage", k)
<1>1. /\ frames # <<>> /\ Head(frames).at = "messageChanged" /\ pamRequired' = Head(frames).ask
      /\ frames' = <<f>> \o Tail(frames) /\ UNCHANGED <<postInit, conv, shown, answered, convs>>
  BY DEF Pam!MessageChanged, Pam!At, Pam!Top
<1>2. Tail(frames) = <<>> /\ conv # 0 /\ ~answered /\ (Head(frames).ask => Ready(convs[conv]))
  BY <1>1 DEF PamInv, Stacked
<1>3. k \in Pam!Convs /\ convs[k].st # "unused"
  BY <1>1, UsedBelow DEF PamInv, PamType
<1>4. f \in AnyFrame /\ f.at = "pamMessage" /\ f.k = k
  BY <1>3 DEF AnyFrame, Pam!Frame, Pam!Points
<1> HIDE DEF f, k
<1>5. /\ frames' \in Seq(AnyFrame) /\ frames' # <<>> /\ Head(frames') = f /\ Tail(frames') = <<>>
      /\ Used(frames)'
  <2>1. convs'[f.k].st # "unused" /\ frames' = <<f>> \o <<>>
    BY <1>1, <1>2, <1>3, <1>4
  <2> QED BY <1>4, <2>1, OnlyCall
<1>6. PamType' /\ (\A m \in Pam!Convs : Orderly(convs[m])') /\ Owned'
  BY <1>1, <1>5 DEF PamInv, PamType, Orderly, Stopped, Owned
<1>7. Stacked'
  <2>1. Plain(Tail(frames))'
    BY <1>5, NoFrames DEF Plain
  <2> QED BY <1>4, <1>5, <2>1 DEF Stacked
<1>8. RequiredIsAsked'
  BY <1>1, <1>2 DEF RequiredIsAsked, Ready, Asks, Stopped
<1> QED BY <1>5, <1>6, <1>7, <1>8 DEF PamInv

LEMMA OnExitKeeps == ASSUME PamInv, NEW k \in Pam!Convs, Pam!OnExit(k) PROVE PamInv'
<1>1. /\ frames = <<>> /\ convs[k].up # <<>> /\ convs[k].st # "unused"
      /\ UNCHANGED <<postInit, pamRequired, shown, answered>>
  BY DEF Pam!OnExit, Pam!Readable
<1>2. PICK c \in AnyConversation :
         /\ Pam!Read(k) = [convs EXCEPT ![k] = c] /\ Orderly(c)
         /\ c.linked = convs[k].linked /\ c.st = convs[k].st
         /\ Ready(convs[k]) => Ready(c)
  BY <1>1, ReadIsOrderly
<1> DEFINE fs == <<Pam!Frame("reap", k)>>
           cs == Pam!Read(k)
<1>3. fs \in Seq(AnyFrame) /\ Plain(fs)
  BY PlainAlone
<1>4. Used(fs)
  <2> DEFINE q == <<Pam!Frame("reap", k)>> \o <<>>
  <2>1. Used(q)
    BY <1>1, NoFrames, UsedPush
  <2>2. fs = q
    BY <1>3, ConcatEmptySeq
  <2> QED BY <2>1, <2>2 DEF Used
<1>5. Pam!Completes(cs, k, fs) \/ Pam!Fails(cs, k, fs)
  BY DEF Pam!OnExit
<1>6. ~Aborting(frames)
  BY <1>1, NoFrames
<1>7. cs = [convs EXCEPT ![k] = c]
  BY <1>2
<1> HIDE DEF fs, cs
<1> QED BY <1>1, <1>2, <1>3, <1>4, <1>5, <1>6, <1>7, EndKeeps

LEMMA OnEofKeeps == ASSUME PamInv, NEW k \in Pam!Convs, Pam!OnEof(k) PROVE PamInv'
<1>1. /\ frames = <<>> /\ convs[k].st # "unused" /\ UNCHANGED <<postInit, pamRequired, shown, answered>>
      /\ Pam!Fails(Pam!Killed(k), k, <<>>)
  BY DEF Pam!OnEof, Pam!Readable
<1>2. PICK c \in AnyConversation :
         /\ Pam!Killed(k) = [convs EXCEPT ![k] = c] /\ Orderly(c)
         /\ c.linked = convs[k].linked /\ c.st = convs[k].st
         /\ Ready(convs[k]) => Ready(c)
  BY KilledIsOrderly
<1>3. ~Aborting(frames)
  BY <1>1, NoFrames
<1> QED BY <1>1, <1>2, <1>3, NoFrames, EndKeeps

LEMMA DeleteKeeps == ASSUME PamInv, NEW k \in Pam!Convs, Pam!Delete(k) PROVE PamInv'
<1>1. /\ convs[k].st = "doomed" /\ UNCHANGED <<postInit, conv, pamRequired, shown, answered, frames>>
      /\ convs' = [convs EXCEPT ![k] = [Pam!NoConversation EXCEPT !.st = "gone", !.child = Pam!Killed(k)[k].child]]
      /\ convs \in [Pam!Convs -> AnyConversation]
  BY DEF Pam!Delete, PamInv, PamType
<1> DEFINE ch == Pam!Killed(k)[k].child
           c  == [[Pam!NoConversation EXCEPT !.st = "gone"] EXCEPT !.child = ch]
<1>2. ch \in {"none", "running", "waiting", "ended", "reaped"}
  <2>1. PICK d \in AnyConversation : Pam!Killed(k) = [convs EXCEPT ![k] = d]
    BY KilledIsOrderly
  <2>2. Pam!Killed(k)[k] = d
    BY <1>1, <2>1
  <2> QED BY <2>2 DEF AnyConversation
<1>3. convs' = [convs EXCEPT ![k] = c]
  BY <1>1 DEF Pam!NoConversation
<1> HIDE DEF ch
<1>4. c \in AnyConversation /\ c.st = "gone" /\ ~c.linked /\ c.up = <<>> /\ c.down = <<>>
  BY <1>2, EmptySeq DEF AnyConversation, Pam!NoConversation
<1> HIDE DEF c
<1>5. Orderly(c)
  <2>1. Len(c.up) = 0
    BY <1>4
  <2> QED BY <1>4, <2>1 DEF Orderly
<1>6. k # conv
  BY <1>1, ConvsAreNumbered DEF PamInv, Owned, Pam!Convs
<1>7. /\ convs' \in [Pam!Convs -> AnyConversation] /\ convs'[k] = c
      /\ \A m \in Pam!Convs : m # k => convs'[m] = convs[m]
  BY <1>1, <1>3, <1>4
<1>8. ConvsStep
  <2>1. ASSUME NEW m \in Pam!Convs
        PROVE  /\ Orderly(convs'[m]) /\ (convs'[m].linked => convs[m].linked)
               /\ convs'[m].st = convs[m].st \/ (convs[m].st # "unused" /\ convs'[m].st = "gone" /\ m # conv)
               /\ convs[m].st = "unused" => convs'[m].child = convs[m].child
    <3>1. CASE m = k
      BY <1>1, <1>4, <1>5, <1>6, <1>7, <3>1
    <3>2. CASE m # k
      BY <1>7, <3>2 DEF PamInv
    <3> QED BY <3>1, <3>2
  <2> QED BY <1>7, <2>1 DEF ConvsStep
<1>9. conv # 0 => convs'[conv] = convs[conv]
  BY <1>6, <1>7 DEF PamInv, PamType
<1>10. conv # 0 => /\ Ready(convs[conv]) => Ready(convs[conv])'
                   /\ convs[conv].child = "none" => convs'[conv].child = "none"
  BY <1>1, <1>9 DEF Ready, Stopped, Asks
<1> QED BY <1>1, <1>8, <1>10, StayKeeps

\* A child that goes on has asked nothing, and nothing was answered.
LEMMA RunningAsksNothing ==
  ASSUME PamInv, NEW k \in Pam!Convs, convs[k].child = "running"
  PROVE  /\ ~Ready(convs[k]) /\ ~Asks(convs[k]) /\ convs[k].down = <<>>
         /\ convs \in [Pam!Convs -> AnyConversation] /\ convs[k] \in AnyConversation
BY DEF PamInv, PamType, Ready, Orderly, Asks, Stopped

\* A message that is sent after others that ask nothing.
LEMMA Sends ==
  ASSUME NEW c \in AnyConversation, NEW u \in Seq(AnyMessage), NEW m \in AnyMessage, c.up = Append(u, m),
         ~\E i \in 1..Len(u) : u[i].type = "ask", c.down = <<>>,
         m.type = "ask" => m.n = c.sent /\ Stopped(c)
  PROVE  Orderly(c)
<1>1. /\ Len(u) \in Nat /\ Len(c.up) = Len(u) + 1 /\ c.up[Len(u) + 1] = m
      /\ \A i \in 1..Len(u) : c.up[i] = u[i]
  BY LenProperties, AppendProperties
<1>2. \A i \in 1..Len(c.up) : i = Len(u) + 1 \/ i \in 1..Len(u)
  BY <1>1
<1> QED BY <1>1, <1>2 DEF Orderly

LEMMA ChildAsksKeeps == ASSUME PamInv, NEW k \in Pam!Convs, Pam!ChildAsks(k) PROVE PamInv'
<1>1. /\ convs[k].child = "running"
      /\ UNCHANGED <<postInit, conv, pamRequired, shown, answered, frames>>
  BY DEF Pam!ChildAsks, Pam!Alive
<1>2. PICK type \in {"ask", "tell"} :
        convs' = [convs EXCEPT ![k].sent = @ + 1,
                               ![k].up = Append(@, [type |-> type, n |-> convs[k].sent + 1]),
                               ![k].child = IF type = "ask" THEN "waiting" ELSE @]
  BY DEF Pam!ChildAsks
<1>3. /\ ~Ready(convs[k]) /\ ~Asks(convs[k]) /\ convs[k].down = <<>>
      /\ convs \in [Pam!Convs -> AnyConversation] /\ convs[k] \in AnyConversation
  BY <1>1, RunningAsksNothing
<1> DEFINE n  == convs[k].sent + 1
           m  == [type |-> type, n |-> n]
           u  == Append(convs[k].up, m)
           ch == IF type = "ask" THEN "waiting" ELSE convs[k].child
           c  == [[[convs[k] EXCEPT !.sent = n] EXCEPT !.up = u] EXCEPT !.child = ch]
<1>4. convs' = [convs EXCEPT ![k] = c]
  BY <1>2, <1>3
<1>5. n \in Nat /\ ch \in {"running", "waiting"} /\ (type = "ask" => ch = "waiting")
  BY <1>1, <1>3 DEF AnyConversation
<1> HIDE DEF n, ch
<1>6. m \in AnyMessage /\ m.n = n /\ m.type = type
  BY <1>5 DEF AnyMessage
<1> HIDE DEF m
<1>7. convs[k].up \in Seq(AnyMessage) /\ u \in Seq(AnyMessage) /\ u = Append(convs[k].up, m)
  BY <1>3, <1>6 DEF AnyConversation
<1> HIDE DEF u
<1>8. /\ c \in AnyConversation /\ c.linked = convs[k].linked /\ c.st = convs[k].st
      /\ c.up = u /\ c.down = convs[k].down /\ c.sent = n /\ c.child = ch
  BY <1>3, <1>5, <1>7 DEF AnyConversation
<1> HIDE DEF c
<1>9. Orderly(c)
  BY <1>3, <1>5, <1>6, <1>7, <1>8, Sends DEF Asks, Stopped
<1> QED BY <1>1, <1>3, <1>4, <1>8, <1>9, ChildKeeps

LEMMA ChildReadsKeeps == ASSUME PamInv, NEW k \in Pam!Convs, Pam!ChildReads(k) PROVE PamInv'
<1>1. /\ convs[k].child = "waiting" /\ convs[k].down # <<>>
      /\ UNCHANGED <<postInit, conv, pamRequired, shown, answered, frames>>
      /\ convs' = [convs EXCEPT ![k].down = Tail(@), ![k].child = "running"]
      /\ convs \in [Pam!Convs -> AnyConversation] /\ convs[k] \in AnyConversation /\ Orderly(convs[k])
  BY DEF Pam!ChildReads, Pam!Alive, PamInv, PamType
<1> DEFINE d == Tail(convs[k].down)
           c == [[convs[k] EXCEPT !.down = d] EXCEPT !.child = "running"]
<1>2. convs' = [convs EXCEPT ![k] = c]
  BY <1>1
<1>3. d \in Seq(Nat) /\ d = <<>>
  <2>1. PICK e : e = convs[k].down
    OBVIOUS
  <2>2. e \in Seq(Nat) /\ e # <<>> /\ Len(e) = 1
    BY <1>1, <2>1 DEF Orderly, AnyConversation
  <2>3. Tail(e) \in Seq(Nat) /\ Len(Tail(e)) = 0
    BY <2>2, HeadTailProperties
  <2> QED BY <2>1, <2>3, EmptySeq
<1> HIDE DEF d
<1>4. /\ c \in AnyConversation /\ c.linked = convs[k].linked /\ c.st = convs[k].st
      /\ c.up = convs[k].up /\ c.down = <<>> /\ c.sent = convs[k].sent
  BY <1>1, <1>3 DEF AnyConversation
<1> HIDE DEF c
<1>5. Orderly(c) /\ ~Ready(convs[k])
  BY <1>1, <1>4 DEF Orderly, Ready
<1> QED BY <1>1, <1>2, <1>4, <1>5, ChildKeeps

LEMMA ChildExitsKeeps == ASSUME PamInv, NEW k \in Pam!Convs, Pam!ChildExits(k) PROVE PamInv'
<1>1. /\ convs[k].child = "running"
      /\ UNCHANGED <<postInit, conv, pamRequired, shown, answered, frames>>
  BY DEF Pam!ChildExits, Pam!Alive
<1>2. PICK ok \in BOOLEAN :
        convs' = [convs EXCEPT ![k].up = Append(@, [type |-> "exit", ok |-> ok]), ![k].child = "ended"]
  BY DEF Pam!ChildExits, Pam!Send
<1>3. /\ ~Ready(convs[k]) /\ ~Asks(convs[k]) /\ convs[k].down = <<>>
      /\ convs \in [Pam!Convs -> AnyConversation] /\ convs[k] \in AnyConversation
  BY <1>1, RunningAsksNothing
<1> DEFINE m == [type |-> "exit", ok |-> ok]
           u == Append(convs[k].up, m)
           c == [[convs[k] EXCEPT !.up = u] EXCEPT !.child = "ended"]
<1>4. convs' = [convs EXCEPT ![k] = c]
  BY <1>2, <1>3
<1>5. m \in AnyMessage /\ m.type # "ask"
  BY DEF AnyMessage
<1> HIDE DEF m
<1>6. convs[k].up \in Seq(AnyMessage) /\ u \in Seq(AnyMessage) /\ u = Append(convs[k].up, m)
  BY <1>3, <1>5 DEF AnyConversation
<1> HIDE DEF u
<1>7. /\ c \in AnyConversation /\ c.linked = convs[k].linked /\ c.st = convs[k].st
      /\ c.up = u /\ c.down = convs[k].down
  BY <1>3, <1>6 DEF AnyConversation
<1> HIDE DEF c
<1>8. Orderly(c)
  BY <1>3, <1>5, <1>6, <1>7, Sends DEF Asks
<1> QED BY <1>1, <1>3, <1>4, <1>7, <1>8, ChildKeeps

LEMMA ChildDiesKeeps == ASSUME PamInv, NEW k \in Pam!Convs, Pam!ChildDies(k) PROVE PamInv'
<1>1. /\ convs[k].child \in {"running", "waiting"}
      /\ UNCHANGED <<postInit, conv, pamRequired, shown, answered, frames>>
      /\ convs' = [convs EXCEPT ![k].child = "ended"]
      /\ convs \in [Pam!Convs -> AnyConversation] /\ convs[k] \in AnyConversation /\ Orderly(convs[k])
  BY DEF Pam!ChildDies, PamInv, PamType
<1> DEFINE c == [convs[k] EXCEPT !.child = "ended"]
<1>2. convs' = [convs EXCEPT ![k] = c]
  BY <1>1
<1>3. /\ c \in AnyConversation /\ c.linked = convs[k].linked /\ c.st = convs[k].st
      /\ c.up = convs[k].up /\ c.down = convs[k].down /\ c.sent = convs[k].sent /\ c.child = "ended"
  BY <1>1 DEF AnyConversation
<1> HIDE DEF c
<1>4. Orderly(c) /\ (Ready(convs[k]) => Ready(c))
  BY <1>1, <1>3 DEF Orderly, Ready, Asks, Stopped
<1> QED BY <1>1, <1>2, <1>3, <1>4, ChildKeeps

LEMMA NextPamInv == ASSUME PamInv, AnswersInTurn, [Pam!Next]_(Pam!pamVars) PROVE PamInv'
<1>1. CASE Pam!Qml
  BY <1>1, ActivateKeeps, DeactivateKeeps, AnswerKeeps, ComponentCompleteKeeps DEF Pam!Qml
<1>2. CASE Pam!Main
  BY <1>2, AbortedKeeps, StartedKeeps, MessageChangedKeeps, EmittedKeeps, ReapedKeeps,
     OnRequestKeeps, OnExitKeeps, OnEofKeeps, DeleteKeeps DEF Pam!Main
<1>3. ASSUME NEW k \in Pam!Convs, Pam!Child(k) \/ Pam!ChildDies(k) PROVE PamInv'
  BY <1>3, ChildAsksKeeps, ChildReadsKeeps, ChildExitsKeeps, ChildDiesKeeps DEF Pam!Child
<1>4. CASE UNCHANGED Pam!pamVars
  BY <1>4, NothingPam DEF Pam!pamVars
<1> QED BY <1>1, <1>2, <1>3, <1>4 DEF Pam!Next

\* Every answer that a child reads is the one to the question it waits for, if the shell answers
\* each message once and from its own handler, and no handler of a conversation's start or of the
\* change of a message acts: what PamContext::respond() writes reaches the question that the user saw.
THEOREM AnswersReachTheirQuestion == ASSUME AnswersInTurn PROVE Spec => AnswersMatch
<1> DEFINE Match == \A k \in Pam!Convs :
             Len(convs'[k].down) < Len(convs[k].down) /\ convs'[k].child = "running"
               => Head(convs[k].down) = convs[k].sent
<1>1. PamInv /\ PamInv' => Match
  <2> SUFFICES ASSUME PamInv, PamInv', NEW k \in Pam!Convs, Len(convs'[k].down) < Len(convs[k].down)
               PROVE  Head(convs[k].down) = convs[k].sent
    OBVIOUS
  <2>1. PICK e : e = convs[k].down
    OBVIOUS
  <2>2. e \in Seq(Nat) /\ (e # <<>> => Len(e) = 1 /\ e[1] = convs[k].sent)
    BY <2>1 DEF PamInv, PamType, AnyConversation, Orderly
  <2>3. Len(convs'[k].down) \in Nat
    BY LenProperties DEF PamInv, PamType, AnyConversation
  <2>4. e # <<>>
    BY <2>1, <2>3
  <2> QED BY <2>1, <2>2, <2>4
<1>2. PamInv /\ [Pam!Next]_(Pam!pamVars) => PamInv'
  BY NextPamInv
<1>3. [Match]_(Pam!pamVars) => [\A k \in Pam!Convs :
             Len(convs'[k].down) < Len(convs[k].down) /\ convs'[k].child = "running"
               => Head(convs[k].down) = convs[k].sent]_(Pam!pamVars)
  OBVIOUS
<1> HIDE DEF Match
<1> QED BY <1>1, <1>2, <1>3, InitPamInv, PamSteps, PTL DEF Pam!Spec, AnswersMatch, Pam!AnswersMatch

-----------------------------------------------------------------------------
(* Conversations and their children, whatever handlers do.                   *)

\* Only the context's conversation reaches it, and a child runs or waits to be reaped only while its
\* conversation knows its process and was not deleted.
Parted(cs, c) ==
  /\ \A k \in Pam!Convs :
       /\ cs[k].linked => k = c
       /\ cs[k].st = "unused" => cs[k].child = "none" /\ ~cs[k].linked
       /\ cs[k].child \in {"running", "waiting", "ended"} => cs[k].pid /\ cs[k].st \in {"live", "doomed"}
  /\ c # 0 => cs[c].st = "live" /\ cs[c].linked
\* A child is reaped at the end of a handler only when its conversation was given up.
Reaping(fs, cs, c) ==
  \A i \in 1..Len(fs) : fs[i].at = "reap" => cs[fs[i].k].st # "unused" /\ (cs[fs[i].k].linked => fs[i].k = c)
\* A conversation without a process is being started.
Starting(fs, cs, c) == c # 0 /\ ~cs[c].pid => \E i \in 1..Len(fs) : fs[i].at = "starting"
Idle == /\ ~postInit => conv = 0 /\ \A k \in Pam!Convs : convs[k].st = "unused"
        /\ postInit => (pamTarget <=> conv # 0)

LifeType ==
  /\ convs \in [Pam!Convs -> Pam!Conversation] /\ frames \in Seq(AnyFrame) /\ conv \in Pam!Convs \cup {0}
  /\ pamTarget \in BOOLEAN /\ postInit \in BOOLEAN /\ pamRequired \in BOOLEAN /\ answered \in BOOLEAN
  /\ shown \in 0..MaxMessages

PamLife == LifeType /\ Parted(convs, conv) /\ Reaping(frames, convs, 0) /\ Starting(frames, convs, conv) /\ Idle

LEMMA LifeHolds == PamLife => Pam!TypeOK /\ Pam!ChildrenAreOwned /\ Pam!ActiveHasChild
<1> SUFFICES ASSUME PamLife PROVE Pam!TypeOK /\ Pam!ChildrenAreOwned /\ Pam!ActiveHasChild
  OBVIOUS
<1>1. Pam!TypeOK
  <2>1. \A i \in DOMAIN frames : frames[i] \in AnyFrame
    BY DEF PamLife, LifeType
  <2> QED BY <2>1 DEF PamLife, LifeType, Pam!TypeOK, AnyFrame, Pam!NoConv, Pam!Points
<1>2. frames = <<>> /\ conv # 0 => convs[conv].pid
  BY EmptySeq DEF PamLife, Starting
<1> QED BY <1>1, <1>2 DEF PamLife, LifeType, Parted, Idle, Pam!ChildrenAreOwned, Pam!ActiveHasChild, Pam!NoConv

-----------------------------------------------------------------------------
\* What is left of the calls in progress when one returns, and what is more with another.
LEMMA LifePush ==
  ASSUME NEW s \in Seq(AnyFrame), NEW f \in AnyFrame, NEW q, q = <<f>> \o s, NEW cs, NEW c, Reaping(s, cs, c),
         f.at = "reap" => cs[f.k].st # "unused" /\ (cs[f.k].linked => f.k = c)
  PROVE  /\ q \in Seq(AnyFrame) /\ Reaping(q, cs, c)
         /\ \A d : Starting(s, cs, d) => Starting(q, cs, d)
<1>1. /\ q \in Seq(AnyFrame) /\ Len(q) = Len(s) + 1 /\ Len(s) \in Nat /\ q[1] = f
      /\ \A i \in 1..Len(s) : q[i + 1] = s[i]
  BY FramePush
<1>2. ASSUME NEW i \in 1..Len(q) PROVE i = 1 \/ (i - 1 \in 1..Len(s) /\ q[i] = s[i - 1])
  <2>1. CASE i # 1
    <3>1. i - 1 \in 1..Len(s) /\ q[(i - 1) + 1] = s[i - 1]
      BY <1>1, <2>1
    <3>2. (i - 1) + 1 = i
      OBVIOUS
    <3> QED BY <3>1, <3>2
  <2> QED BY <2>1
<1>3. Reaping(q, cs, c)
  BY <1>1, <1>2 DEF Reaping
<1>4. ASSUME NEW i \in 1..Len(s), s[i].at = "starting" PROVE \E j \in 1..Len(q) : q[j].at = "starting"
  <2>1. i + 1 \in 1..Len(q) /\ q[i + 1] = s[i]
    BY <1>1
  <2> QED BY <1>4, <2>1
<1> QED BY <1>1, <1>3, <1>4 DEF Starting

LEMMA LifeCall ==
  ASSUME NEW s \in Seq(AnyFrame), NEW k \in Pam!Convs, NEW at \in {"aborting", "error", "completed", "starting"},
         NEW cs, NEW c, Reaping(s, cs, c), NEW q, q = <<Pam!Frame(at, k)>> \o s
  PROVE  q \in Seq(AnyFrame) /\ Reaping(q, cs, c)
<1> DEFINE f == Pam!Frame(at, k)
<1>1. f \in AnyFrame /\ f.at = at /\ at # "reap"
  BY DEF AnyFrame, Pam!Frame, Pam!Points
<1> HIDE DEF f
<1>2. q = <<f>> \o s
  BY DEF f
<1> QED BY <1>1, <1>2, LifePush

LEMMA LifeTop ==
  ASSUME NEW s \in Seq(AnyFrame), s # <<>>, NEW cs, NEW c, Reaping(s, cs, c)
  PROVE  /\ Tail(s) \in Seq(AnyFrame) /\ Head(s) \in AnyFrame /\ Reaping(Tail(s), cs, c)
         /\ Head(s).at # "starting" => \A d : Starting(s, cs, d) => Starting(Tail(s), cs, d)
         /\ Head(s).at = "reap" => cs[Head(s).k].st # "unused" /\ (cs[Head(s).k].linked => Head(s).k = c)
<1>1. /\ Tail(s) \in Seq(AnyFrame) /\ Len(Tail(s)) = Len(s) - 1 /\ Len(s) \in Nat /\ Len(s) > 0
      /\ \A i \in 1..Len(s)-1 : Tail(s)[i] = s[i + 1]
      /\ Head(s) = s[1] /\ s[1] \in AnyFrame
  BY FrameTop
<1> DEFINE t == Tail(s)
<1> HIDE DEF t
<1>2. Reaping(t, cs, c)
  <2> SUFFICES ASSUME NEW i \in 1..Len(t), t[i].at = "reap"
               PROVE  cs[t[i].k].st # "unused" /\ (cs[t[i].k].linked => t[i].k = c)
    BY DEF Reaping
  <2>1. i + 1 \in 1..Len(s) /\ t[i] = s[i + 1]
    BY <1>1 DEF t
  <2> QED BY <2>1 DEF Reaping
<1>3. ASSUME NEW i \in 1..Len(s), s[i].at = "starting", s[1].at # "starting"
      PROVE  \E j \in 1..Len(t) : t[j].at = "starting"
  <2>1. i # 1 /\ i - 1 \in 1..Len(t) /\ i - 1 \in 1..Len(s)-1
    BY <1>1, <1>3 DEF t
  <2>2. t[i - 1] = s[(i - 1) + 1] /\ (i - 1) + 1 = i
    BY <1>1, <2>1 DEF t
  <2> QED BY <1>3, <2>1, <2>2
<1>4. s[1].at = "reap" => cs[s[1].k].st # "unused" /\ (cs[s[1].k].linked => s[1].k = c)
  BY <1>1 DEF Reaping
<1> QED BY <1>1, <1>2, <1>3, <1>4 DEF t, Starting

LEMMA AnyReaping ==
  ASSUME NEW fs \in Seq(AnyFrame), NEW cs, Reaping(fs, cs, 0), NEW c
  PROVE  Reaping(fs, cs, c)
<1> SUFFICES ASSUME NEW i \in 1..Len(fs), fs[i].at = "reap"
             PROVE  cs[fs[i].k].st # "unused" /\ ~cs[fs[i].k].linked
  BY DEF Reaping
<1>1. fs[i] \in AnyFrame
  OBVIOUS
<1>2. fs[i].k \in Pam!Convs /\ fs[i].k # 0
  BY <1>1, ConvsAreNumbered DEF AnyFrame, Pam!Convs
<1> QED BY <1>2 DEF Reaping

LEMMA NoReaping == ASSUME NEW cs, NEW c PROVE Reaping(<<>>, cs, c)
BY EmptySeq DEF Reaping

\* A conversation changes, but not whether it reaches the context: what reaps it or starts stays.
LEMMA OneLife ==
  ASSUME PamLife, NEW k \in Pam!Convs, NEW new \in Pam!Conversation, convs' = [convs EXCEPT ![k] = new],
         new.st = convs[k].st, new.linked = convs[k].linked,
         convs[k].st = "unused" => new.child = "none",
         new.child \in {"running", "waiting", "ended"} => new.pid /\ new.st \in {"live", "doomed"},
         frames' \in Seq(AnyFrame), Reaping(frames', convs, 0),
         Starting(frames', convs, conv) \/ (k = conv /\ new.pid), k # conv \/ new.pid \/ ~convs[k].pid,
         UNCHANGED <<pamTarget, postInit, conv>>, pamRequired' \in BOOLEAN, answered' \in BOOLEAN,
         shown' \in 0..MaxMessages
  PROVE  PamLife'
<1>1. /\ convs' \in [Pam!Convs -> Pam!Conversation] /\ convs'[k] = new
      /\ \A m \in Pam!Convs : m # k => convs'[m] = convs[m]
      /\ \A m \in Pam!Convs : convs'[m].st = convs[m].st /\ convs'[m].linked = convs[m].linked
  BY DEF PamLife, LifeType
<1>2. LifeType'
  BY <1>1 DEF PamLife, LifeType
<1>3. Parted(convs, conv)'
  <2>1. ASSUME NEW m \in Pam!Convs
        PROVE  /\ convs'[m].linked => m = conv
               /\ convs'[m].st = "unused" => convs'[m].child = "none" /\ ~convs'[m].linked
               /\ convs'[m].child \in {"running", "waiting", "ended"} => convs'[m].pid /\ convs'[m].st \in {"live", "doomed"}
    BY <1>1 DEF PamLife, Parted
  <2>2. conv # 0 => convs'[conv].st = "live" /\ convs'[conv].linked
    BY <1>1 DEF PamLife, LifeType, Parted
  <2> QED BY <2>1, <2>2 DEF Parted
<1>4. Reaping(frames, convs, 0)'
  <2>1. ASSUME NEW i \in 1..Len(frames') PROVE frames'[i].k \in Pam!Convs
    <3>1. frames'[i] \in AnyFrame
      BY DEF PamLife
    <3> QED BY <3>1 DEF AnyFrame
  <2> QED BY <1>1, <2>1 DEF Reaping
<1>5. Starting(frames, convs, conv)'
  BY <1>1 DEF Starting, PamLife, LifeType
<1>6. Idle'
  BY <1>1 DEF PamLife, Idle
<1> QED BY <1>2, <1>3, <1>4, <1>5, <1>6 DEF PamLife

LEMMA OneParted ==
  ASSUME PamLife, NEW k \in Pam!Convs, NEW new \in Pam!Conversation,
         new.st = convs[k].st, new.linked = convs[k].linked,
         convs[k].st = "unused" => new.child = "none",
         new.child \in {"running", "waiting", "ended"} => new.pid /\ new.st \in {"live", "doomed"},
         NEW cs, cs = [convs EXCEPT ![k] = new]
  PROVE  /\ cs \in [Pam!Convs -> Pam!Conversation] /\ Parted(cs, conv) /\ cs[k] = new
         /\ \A m \in Pam!Convs : m # k => cs[m] = convs[m]
         /\ \A m \in Pam!Convs : cs[m].st = convs[m].st /\ cs[m].linked = convs[m].linked
<1>1. /\ cs \in [Pam!Convs -> Pam!Conversation] /\ cs[k] = new
      /\ \A m \in Pam!Convs : m # k => cs[m] = convs[m]
      /\ \A m \in Pam!Convs : cs[m].st = convs[m].st /\ cs[m].linked = convs[m].linked
  BY DEF PamLife, LifeType
<1>2. ASSUME NEW m \in Pam!Convs
      PROVE  /\ cs[m].linked => m = conv
             /\ cs[m].st = "unused" => cs[m].child = "none" /\ ~cs[m].linked
             /\ cs[m].child \in {"running", "waiting", "ended"} => cs[m].pid /\ cs[m].st \in {"live", "doomed"}
  BY <1>1 DEF PamLife, Parted
<1>3. conv # 0 => cs[conv].st = "live" /\ cs[conv].linked
  BY <1>1 DEF PamLife, LifeType, Parted
<1> QED BY <1>1, <1>2, <1>3 DEF Parted

\* The context gives its conversation up, in the state cs of the conversations.
LEMMA AbortLife ==
  ASSUME PamLife, NEW cs \in [Pam!Convs -> Pam!Conversation], Parted(cs, conv),
         \A m \in Pam!Convs : cs[m].st = convs[m].st,
         NEW rest \in Seq(AnyFrame), Reaping(rest, cs, conv), conv # 0, Pam!AbortConversation(cs, rest),
         UNCHANGED postInit, pamRequired' \in BOOLEAN, answered' \in BOOLEAN, shown' \in 0..MaxMessages
  PROVE  PamLife'
<1>1. /\ convs' = [cs EXCEPT ![conv].st = "doomed", ![conv].linked = FALSE]
      /\ conv' = 0 /\ pamTarget' = FALSE /\ frames' = <<Pam!Frame("aborting", conv)>> \o rest
      /\ conv \in Pam!Convs
  BY DEF Pam!AbortConversation, Pam!NoConv, PamLife, LifeType
<1> DEFINE new == [cs[conv] EXCEPT !.st = "doomed", !.linked = FALSE]
<1>2. new \in Pam!Conversation /\ new.st = "doomed" /\ ~new.linked /\ new.child = cs[conv].child /\ new.pid = cs[conv].pid
  <2>1. cs[conv] \in Pam!Conversation
    BY <1>1
  <2> QED BY <2>1 DEF Pam!Conversation
<1>3. convs' = [cs EXCEPT ![conv] = new]
  BY <1>1
<1> HIDE DEF new
<1>4. /\ convs' \in [Pam!Convs -> Pam!Conversation] /\ convs'[conv] = new
      /\ \A m \in Pam!Convs : m # conv => convs'[m] = cs[m]
  BY <1>1, <1>2, <1>3
<1>5. frames' \in Seq(AnyFrame) /\ Reaping(frames', cs, conv)
  <2>1. "aborting" \in {"aborting", "error", "completed", "starting"}
    OBVIOUS
  <2> QED BY <1>1, <2>1, LifeCall
<1>6. Reaping(frames, convs, 0)'
  <2>1. ASSUME NEW i \in 1..Len(frames'), frames'[i].at = "reap"
        PROVE  convs'[frames'[i].k].st # "unused" /\ ~convs'[frames'[i].k].linked
    <3>1. frames'[i] \in AnyFrame
      BY <1>5
    <3>2. frames'[i].k \in Pam!Convs
      BY <3>1 DEF AnyFrame
    <3> QED BY <1>2, <1>4, <1>5, <2>1, <3>2 DEF Reaping
  <2> QED BY <2>1 DEF Reaping
<1>7. Parted(convs, conv)'
  <2>1. ASSUME NEW m \in Pam!Convs
        PROVE  /\ ~convs'[m].linked
               /\ convs'[m].st = "unused" => convs'[m].child = "none"
               /\ convs'[m].child \in {"running", "waiting", "ended"} => convs'[m].pid /\ convs'[m].st \in {"live", "doomed"}
    BY <1>2, <1>4 DEF Parted
  <2> QED BY <1>1, <2>1 DEF Parted
<1>8. postInit
  BY DEF PamLife, Idle
<1> QED BY <1>1, <1>4, <1>5, <1>6, <1>7, <1>8 DEF PamLife, LifeType, Idle, Starting

\* Conversation k ends, in the state cs of the conversations.
LEMMA EndLife ==
  ASSUME PamLife, NEW k \in Pam!Convs, frames = <<>> \/ k = conv,
         NEW cs \in [Pam!Convs -> Pam!Conversation], Parted(cs, conv),
         \A m \in Pam!Convs : cs[m].st = convs[m].st /\ cs[m].linked = convs[m].linked,
         \A m \in Pam!Convs : m # k => cs[m] = convs[m],
         NEW rest \in Seq(AnyFrame), Reaping(rest, cs, k), Pam!Fails(cs, k, rest) \/ Pam!Completes(cs, k, rest),
         UNCHANGED postInit, pamRequired' \in BOOLEAN, answered' \in BOOLEAN, shown' \in 0..MaxMessages
  PROVE  PamLife'
<1>1. k # 0
  BY ConvsAreNumbered DEF Pam!Convs
<1>2. CASE convs[k].linked
  <2>1. k = conv
    BY <1>2 DEF PamLife, Parted
  <2> DEFINE c == <<Pam!Frame("completed", k)>> \o rest
             e == <<Pam!Frame("error", k)>> \o c
  <2>2. /\ Pam!Frame("error", k) \in AnyFrame /\ Pam!Frame("completed", k) \in AnyFrame
    BY DEF AnyFrame, Pam!Frame, Pam!Points
  <2>3. c \in Seq(AnyFrame) /\ Reaping(c, cs, k)
    BY LifeCall
  <2>4. <<Pam!Frame("error", k), Pam!Frame("completed", k)>> \o rest = e
    BY <2>2, TwoFrames
  <2> HIDE DEF c
  <2>5. e \in Seq(AnyFrame) /\ Reaping(e, cs, k)
    BY <2>3, LifeCall
  <2> HIDE DEF e
  <2>6. Pam!AbortConversation(cs, c) \/ Pam!AbortConversation(cs, e)
    BY <1>2, <2>4 DEF Pam!Completes, Pam!Fails, c
  <2> QED BY <1>1, <2>1, <2>3, <2>5, <2>6, AbortLife
<1>3. CASE ~convs[k].linked
  <2>1. convs' = cs /\ frames' = rest /\ UNCHANGED <<pamTarget, conv>>
    BY <1>3 DEF Pam!Completes, Pam!Fails
  <2>2. k # conv /\ frames = <<>>
    BY <1>1, <1>3 DEF PamLife, Parted
  <2>3. conv # 0 => cs[conv].pid
    BY <2>2, EmptySeq DEF PamLife, LifeType, Starting
  <2>4. Reaping(rest, cs, 0)
    BY <1>3 DEF Reaping
  <2>5. LifeType'
    BY <2>1 DEF PamLife, LifeType
  <2>6. Idle'
    BY <2>1 DEF PamLife, Idle
  <2> QED BY <2>1, <2>3, <2>4, <2>5, <2>6 DEF PamLife, Starting
<1> QED BY <1>2, <1>3

\* A conversation is made.
LEMMA StartLife ==
  ASSUME PamLife, NEW k \in Pam!Convs, convs[k].st = "unused", conv = 0,
         convs' = [convs EXCEPT ![k].st = "live", ![k].linked = TRUE], conv' = k, pamTarget' = TRUE, postInit' = TRUE,
         frames' = <<Pam!Frame("starting", k)>> \o frames, UNCHANGED <<pamRequired, answered, shown>>
  PROVE  PamLife'
<1> DEFINE new == [convs[k] EXCEPT !.st = "live", !.linked = TRUE]
<1>1. new \in Pam!Conversation /\ new.st = "live" /\ new.linked /\ new.child = "none"
  <2>1. convs[k] \in Pam!Conversation /\ convs[k].child = "none"
    BY DEF PamLife, LifeType, Parted
  <2> QED BY <2>1 DEF Pam!Conversation
<1>2. convs' = [convs EXCEPT ![k] = new] /\ convs \in [Pam!Convs -> Pam!Conversation]
  BY DEF PamLife, LifeType
<1> HIDE DEF new
<1>3. /\ convs' \in [Pam!Convs -> Pam!Conversation] /\ convs'[k] = new
      /\ \A m \in Pam!Convs : m # k => convs'[m] = convs[m]
  BY <1>1, <1>2
<1>4. \A m \in Pam!Convs : ~convs[m].linked
  BY ConvsAreNumbered DEF PamLife, Parted, Pam!Convs
<1>5. Parted(convs, conv)'
  <2>1. ASSUME NEW m \in Pam!Convs
        PROVE  /\ convs'[m].linked => m = k
               /\ convs'[m].st = "unused" => convs'[m].child = "none" /\ ~convs'[m].linked
               /\ convs'[m].child \in {"running", "waiting", "ended"} => convs'[m].pid /\ convs'[m].st \in {"live", "doomed"}
    BY <1>1, <1>3, <1>4 DEF PamLife, Parted
  <2> QED BY <1>1, <1>3, <2>1 DEF Parted
<1>6. frames' \in Seq(AnyFrame) /\ Reaping(frames', convs, 0) /\ \A d : Starting(frames', convs', d)
  <2>1. frames' \in Seq(AnyFrame) /\ Reaping(frames', convs, 0)
    BY LifeCall DEF PamLife, LifeType
  <2>2. \E i \in 1..Len(frames') : frames'[i].at = "starting"
    <3>1. Pam!Frame("starting", k) \in AnyFrame /\ Pam!Frame("starting", k).at = "starting"
      BY DEF AnyFrame, Pam!Frame, Pam!Points
    <3> DEFINE f == Pam!Frame("starting", k)
    <3>2. frames' = <<f>> \o frames /\ frames \in Seq(AnyFrame)
      BY DEF PamLife, LifeType
    <3> HIDE DEF f
    <3>3. Len(frames') = Len(frames) + 1 /\ Len(frames) \in Nat /\ frames'[1] = f
      BY <3>1, <3>2, FramePush DEF f
    <3>4. 1 \in 1..Len(frames')
      BY <3>3
    <3> QED BY <3>1, <3>3, <3>4 DEF f
  <2> QED BY <2>1, <2>2 DEF Starting
<1>7. Reaping(frames, convs, 0)'
  <2>1. ASSUME NEW i \in 1..Len(frames'), frames'[i].at = "reap"
        PROVE  convs'[frames'[i].k].st # "unused" /\ ~convs'[frames'[i].k].linked
    <3>1. frames'[i] \in AnyFrame
      BY <1>6
    <3>2. frames'[i].k \in Pam!Convs /\ convs[frames'[i].k].st # "unused"
      BY <1>6, <2>1, <3>1 DEF AnyFrame, Reaping
    <3> QED BY <1>3, <1>4, <3>2
  <2> QED BY <2>1 DEF Reaping
<1>8. k # 0
  BY ConvsAreNumbered DEF Pam!Convs
<1>9. LifeType'
  BY <1>3, <1>6 DEF PamLife, LifeType
<1>10. Idle'
  BY <1>8 DEF Idle
<1> QED BY <1>5, <1>6, <1>7, <1>9, <1>10 DEF PamLife

-----------------------------------------------------------------------------
(* The steps, whatever the handlers are.                                     *)

LEMMA InitPamLife == Pam!Init => PamLife
<1> SUFFICES ASSUME Pam!Init PROVE PamLife
  OBVIOUS
<1>1. Pam!NoConversation \in Pam!Conversation
  BY MessagesAreNumbered, EmptySeq DEF Pam!NoConversation, Pam!Conversation
<1>2. LifeType
  <2> DEFINE none == Pam!NoConversation
  <2>1. convs = [k \in Pam!Convs |-> none] /\ none \in Pam!Conversation /\ frames \in Seq(AnyFrame)
    BY <1>1, EmptySeq DEF Pam!Init
  <2> HIDE DEF none
  <2>2. convs \in [Pam!Convs -> Pam!Conversation]
    BY <2>1
  <2>3. 0 \in 0..MaxMessages
    BY MessagesAreNumbered
  <2>4. conv = 0 /\ pamTarget = FALSE /\ postInit = FALSE /\ pamRequired = FALSE /\ answered = FALSE /\ shown = 0
    BY DEF Pam!Init, Pam!NoConv
  <2> QED BY <2>1, <2>2, <2>3, <2>4 DEF LifeType
<1>3. Parted(convs, conv) /\ Idle
  BY DEF Pam!Init, Parted, Idle, Pam!NoConv, Pam!NoConversation
<1> QED BY <1>2, <1>3, NoReaping DEF Pam!Init, PamLife, Starting, Pam!NoConv

\* Only whether the context is active changes.
LEMMA TargetLife ==
  ASSUME PamLife, UNCHANGED <<convs, frames, conv, postInit, pamRequired, answered, shown>>, pamTarget' \in BOOLEAN,
         postInit => (pamTarget' <=> conv # 0)
  PROVE  PamLife'
BY DEF PamLife, LifeType, Parted, Reaping, Starting, Idle

LEMMA QmlLife == ASSUME PamLife, Pam!Activate \/ Pam!Deactivate \/ Pam!ComponentComplete PROVE PamLife'
<1>1. ASSUME Pam!Activate PROVE PamLife'
  <2>1. UNCHANGED <<postInit, pamRequired, shown, answered>> /\ ~pamTarget
    BY <1>1 DEF Pam!Activate
  <2>2. CASE /\ ~postInit \/ conv # Pam!NoConv
             /\ pamTarget' = TRUE /\ UNCHANGED <<conv, convs, frames>>
    BY <2>1, <2>2, TargetLife DEF Pam!NoConv
  <2>3. CASE postInit /\ conv = Pam!NoConv /\ pamTarget' = FALSE /\ UNCHANGED <<conv, convs, frames>>
    BY <2>1, <2>3, TargetLife DEF Pam!NoConv
  <2>4. ASSUME postInit, conv = Pam!NoConv, NEW k \in Pam!Convs, convs[k].st = "unused",
               convs' = [convs EXCEPT ![k].st = "live", ![k].linked = TRUE], conv' = k, pamTarget' = TRUE,
               frames' = <<Pam!Frame("starting", k)>> \o frames
        PROVE  PamLife'
    BY <2>1, <2>4, StartLife DEF Pam!NoConv
  <2> QED BY <1>1, <2>2, <2>3, <2>4 DEF Pam!Activate, Pam!StartConversation
<1>2. ASSUME Pam!Deactivate PROVE PamLife'
  <2>1. UNCHANGED <<postInit, pamRequired, shown, answered>>
    BY <1>2 DEF Pam!Deactivate
  <2>2. CASE conv = Pam!NoConv
    BY <1>2, <2>1, <2>2, TargetLife DEF Pam!Deactivate, Pam!NoConv
  <2>3. CASE conv # Pam!NoConv
    <3>1. Reaping(frames, convs, conv)
      BY AnyReaping DEF PamLife, LifeType
    <3>2. pamRequired' \in BOOLEAN /\ answered' \in BOOLEAN /\ shown' \in 0..MaxMessages
      BY <2>1 DEF PamLife, LifeType
    <3>3. convs \in [Pam!Convs -> Pam!Conversation] /\ frames \in Seq(AnyFrame) /\ Parted(convs, conv)
      BY DEF PamLife, LifeType
    <3> QED BY <1>2, <2>1, <2>3, <3>1, <3>2, <3>3, AbortLife DEF Pam!Deactivate, Pam!NoConv
  <2> QED BY <2>2, <2>3
<1>3. ASSUME Pam!ComponentComplete PROVE PamLife'
  <2>1. ~postInit /\ frames = <<>> /\ postInit' = TRUE /\ UNCHANGED <<pamTarget, pamRequired, shown, answered>>
        /\ 1 \in Pam!Convs
    BY <1>3, ConvsAreNumbered DEF Pam!ComponentComplete, Pam!Convs
  <2>2. CASE pamTarget
    <3>1. <<Pam!Frame("starting", 1)>> \o <<>> = <<Pam!Frame("starting", 1)>>
      <4> DEFINE f == Pam!Frame("starting", 1)
      <4>1. <<f>> \in Seq({f})
        OBVIOUS
      <4> HIDE DEF f
      <4> QED BY <4>1, ConcatEmptySeq DEF f
    <3>2. convs[1].st = "unused" /\ conv = 0
      BY <2>1 DEF PamLife, Idle
    <3> QED BY <1>3, <2>1, <2>2, <3>1, <3>2, StartLife DEF Pam!ComponentComplete, PamLife, LifeType
  <2>3. CASE ~pamTarget
    BY <1>3, <2>1, <2>3 DEF Pam!ComponentComplete, PamLife, LifeType, Parted, Reaping, Starting, Idle
  <2> QED BY <2>2, <2>3
<1> QED BY <1>1, <1>2, <1>3

\* A call returns or goes on.
LEMMA ReturnLife == ASSUME PamLife, Pam!Aborted \/ Pam!Emitted \/ Pam!MessageChanged PROVE PamLife'
<1>1. frames # <<>> /\ frames \in Seq(AnyFrame) /\ UNCHANGED <<pamTarget, postInit, conv, shown, answered, convs>>
  BY DEF Pam!Aborted, Pam!Emitted, Pam!MessageChanged, Pam!At, PamLife, LifeType
<1>2. Head(frames).at # "starting"
  BY DEF Pam!Aborted, Pam!Emitted, Pam!MessageChanged, Pam!At, Pam!Top
<1>3. /\ Tail(frames) \in Seq(AnyFrame) /\ Head(frames) \in AnyFrame /\ Reaping(Tail(frames), convs, 0)
      /\ Starting(Tail(frames), convs, conv)
  BY <1>1, <1>2, LifeTop DEF PamLife
<1>4. frames' \in Seq(AnyFrame) /\ Reaping(frames', convs, 0) /\ Starting(frames', convs, conv) /\ pamRequired' \in BOOLEAN
  <2>1. CASE Pam!Aborted \/ Pam!Emitted
    BY <1>3, <2>1 DEF Pam!Aborted, Pam!Emitted, Pam!Return, PamLife, LifeType
  <2>2. CASE Pam!MessageChanged
    <3> DEFINE f == Pam!Frame("pamMessage", Pam!Top.k)
    <3>1. frames' = <<f>> \o Tail(frames) /\ pamRequired' = Head(frames).ask /\ Head(frames).at = "messageChanged"
      BY <2>2 DEF Pam!MessageChanged, Pam!Top, Pam!At
    <3>2. f \in AnyFrame /\ f.at = "pamMessage"
      BY <1>3 DEF AnyFrame, Pam!Frame, Pam!Points, Pam!Top
    <3>3. pamRequired' \in BOOLEAN
      BY <1>3, <3>1 DEF AnyFrame
    <3> HIDE DEF f
    <3>4. f.at # "reap"
      BY <3>2
    <3>5. frames' \in Seq(AnyFrame) /\ Reaping(frames', convs, 0) /\ Starting(frames', convs, conv)
      BY <1>3, <3>1, <3>2, <3>4, LifePush
    <3> QED BY <3>3, <3>5
  <2> QED BY <2>1, <2>2
<1> QED BY <1>1, <1>4 DEF PamLife, LifeType, Parted, Reaping, Starting, Idle

LEMMA StartedLife == ASSUME PamLife, Pam!Started PROVE PamLife'
<1>1. /\ frames # <<>> /\ frames \in Seq(AnyFrame) /\ conv # 0 /\ conv \in Pam!Convs
      /\ UNCHANGED <<postInit, pamRequired, shown, answered>> /\ convs \in [Pam!Convs -> Pam!Conversation]
      /\ Parted(convs, conv)
  BY DEF Pam!Started, Pam!At, Pam!NoConv, PamLife, LifeType
<1>2. Tail(frames) \in Seq(AnyFrame) /\ Reaping(Tail(frames), convs, 0)
  BY <1>1, LifeTop DEF PamLife
<1>3. pamRequired' \in BOOLEAN /\ answered' \in BOOLEAN /\ shown' \in 0..MaxMessages
  BY <1>1 DEF PamLife, LifeType
<1>4. CASE /\ convs' = [convs EXCEPT ![conv].pid = TRUE, ![conv].child = "running"]
           /\ Pam!Return /\ UNCHANGED <<pamTarget, conv>>
  <2> DEFINE new == [convs[conv] EXCEPT !.pid = TRUE, !.child = "running"]
  <2>1. convs' = [convs EXCEPT ![conv] = new] /\ frames' = Tail(frames)
    BY <1>1, <1>4 DEF Pam!Return
  <2>2. convs[conv] \in Pam!Conversation /\ convs[conv].st = "live"
    BY <1>1 DEF Parted
  <2>3. new \in Pam!Conversation /\ new.st = convs[conv].st /\ new.linked = convs[conv].linked /\ new.pid
    BY <2>2 DEF Pam!Conversation
  <2> HIDE DEF new
  <2> QED BY <1>1, <1>2, <1>3, <1>4, <2>1, <2>2, <2>3, OneLife
<1>5. CASE Pam!Fails(convs, conv, Tail(frames))
  <2>1. Reaping(Tail(frames), convs, conv)
    BY <1>2, AnyReaping
  <2> QED BY <1>1, <1>2, <1>3, <1>5, <2>1, EndLife
<1> QED BY <1>4, <1>5 DEF Pam!Started

\* What is left of a conversation whose child was killed.
LEMMA KilledLife ==
  ASSUME PamLife, NEW k \in Pam!Convs, convs[k].st # "unused", NEW cs, cs = Pam!Killed(k)
  PROVE  /\ cs \in [Pam!Convs -> Pam!Conversation] /\ Parted(cs, conv) /\ cs[k].child \notin {"running", "waiting", "ended"}
         /\ \A m \in Pam!Convs : cs[m].st = convs[m].st /\ cs[m].linked = convs[m].linked
         /\ \A m \in Pam!Convs : m # k => cs[m] = convs[m]
<1> DEFINE ch  == IF convs[k].pid THEN "reaped" ELSE convs[k].child
           new == [convs[k] EXCEPT !.pid = FALSE, !.child = ch]
<1>1. cs = [convs EXCEPT ![k] = new] /\ convs[k] \in Pam!Conversation
  BY DEF Pam!Killed, PamLife, LifeType
<1>2. ch \in {"none", "reaped"}
  BY <1>1 DEF PamLife, Parted, Pam!Conversation
<1> HIDE DEF ch
<1>3. new \in Pam!Conversation /\ new.st = convs[k].st /\ new.linked = convs[k].linked /\ new.child = ch
  BY <1>1, <1>2 DEF Pam!Conversation
<1> HIDE DEF new
<1>4. new.child \notin {"running", "waiting", "ended"}
  BY <1>2, <1>3
<1>5. /\ cs \in [Pam!Convs -> Pam!Conversation] /\ Parted(cs, conv) /\ cs[k] = new
      /\ \A m \in Pam!Convs : m # k => cs[m] = convs[m]
      /\ \A m \in Pam!Convs : cs[m].st = convs[m].st /\ cs[m].linked = convs[m].linked
  BY <1>1, <1>3, <1>4, OneParted
<1> QED BY <1>4, <1>5

LEMMA RespondLife == ASSUME PamLife, Pam!Respond PROVE PamLife'
<1>1. /\ conv # 0 /\ conv \in Pam!Convs /\ UNCHANGED <<postInit, pamRequired, shown>> /\ answered' = TRUE
      /\ convs[conv] \in Pam!Conversation /\ convs[conv].st = "live" /\ convs \in [Pam!Convs -> Pam!Conversation]
      /\ frames \in Seq(AnyFrame) /\ shown \in 0..MaxMessages
  BY DEF Pam!Respond, Pam!NoConv, PamLife, LifeType, Parted
<1>2. pamRequired' \in BOOLEAN /\ answered' \in BOOLEAN /\ shown' \in 0..MaxMessages
  BY <1>1 DEF PamLife, LifeType
<1>3. CASE convs[conv].child \in {"running", "waiting"}
  <2> DEFINE d   == Append(convs[conv].down, shown)
             new == [convs[conv] EXCEPT !.down = d]
  <2>1. convs' = [convs EXCEPT ![conv] = new] /\ UNCHANGED <<pamTarget, conv, frames>>
    BY <1>1, <1>3 DEF Pam!Respond
  <2>2. d \in Seq(0..MaxMessages)
    <3>1. convs[conv].down \in Seq(0..MaxMessages)
      BY <1>1 DEF Pam!Conversation
    <3> QED BY <1>1, <3>1, AppendProperties
  <2> HIDE DEF d
  <2>3. /\ new \in Pam!Conversation /\ new.st = convs[conv].st /\ new.linked = convs[conv].linked
        /\ new.pid = convs[conv].pid /\ new.child = convs[conv].child
    BY <1>1, <2>2 DEF Pam!Conversation
  <2> HIDE DEF new
  <2>4. convs[conv].pid /\ Reaping(frames', convs, 0) /\ Starting(frames', convs, conv) /\ frames' \in Seq(AnyFrame)
    BY <1>1, <1>3, <2>1 DEF PamLife, Parted
  <2> QED BY <1>1, <1>2, <1>3, <2>1, <2>3, <2>4, OneLife
<1>4. CASE convs[conv].child \notin {"running", "waiting"}
  <2> DEFINE cs == Pam!Killed(conv)
  <2>1. Pam!Fails(cs, conv, frames)
    BY <1>4 DEF Pam!Respond
  <2>2. /\ cs \in [Pam!Convs -> Pam!Conversation] /\ Parted(cs, conv)
        /\ \A m \in Pam!Convs : cs[m].st = convs[m].st /\ cs[m].linked = convs[m].linked
        /\ \A m \in Pam!Convs : m # conv => cs[m] = convs[m]
    BY <1>1, KilledLife
  <2> HIDE DEF cs
  <2>3. Reaping(frames, cs, conv)
    <3>1. Reaping(frames, convs, conv)
      BY <1>1, AnyReaping DEF PamLife
    <3>2. ASSUME NEW i \in 1..Len(frames) PROVE frames[i].k \in Pam!Convs
      <4>1. frames[i] \in AnyFrame
        BY <1>1
      <4> QED BY <4>1 DEF AnyFrame
    <3> QED BY <2>2, <3>1, <3>2 DEF Reaping
  <2> QED BY <1>1, <1>2, <2>1, <2>2, <2>3, EndLife
<1> QED BY <1>3, <1>4

\* The main thread reads what a conversation's child has sent.
LEMMA ReadLife ==
  ASSUME PamLife, NEW k \in Pam!Convs, Pam!Readable(k), convs[k].up # <<>>, NEW cs, cs = Pam!Read(k)
  PROVE  /\ Head(convs[k].up) \in Pam!Message
         /\ cs \in [Pam!Convs -> Pam!Conversation] /\ Parted(cs, conv)
         /\ \A m \in Pam!Convs : cs[m].st = convs[m].st /\ cs[m].linked = convs[m].linked /\ cs[m].pid = convs[m].pid
         /\ \A m \in Pam!Convs : m # k => cs[m] = convs[m]
<1> DEFINE u   == Tail(convs[k].up)
           new == [convs[k] EXCEPT !.up = u]
<1>1. cs = [convs EXCEPT ![k] = new] /\ convs[k] \in Pam!Conversation /\ convs[k].st \in {"live", "doomed"}
  BY DEF Pam!Read, Pam!Readable, PamLife, LifeType
<1>2. u \in Seq(Pam!Message) /\ Head(convs[k].up) \in Pam!Message
  <2>1. PICK e : e = convs[k].up
    OBVIOUS
  <2>2. e \in Seq(Pam!Message) /\ e # <<>>
    BY <1>1, <2>1 DEF Pam!Conversation
  <2> QED BY <2>1, <2>2, HeadTailProperties
<1> HIDE DEF u
<1>3. /\ new \in Pam!Conversation /\ new.st = convs[k].st /\ new.linked = convs[k].linked
      /\ new.child = convs[k].child /\ new.pid = convs[k].pid
  BY <1>1, <1>2 DEF Pam!Conversation
<1> HIDE DEF new
<1>4. new.child \in {"running", "waiting", "ended"} => new.pid /\ new.st \in {"live", "doomed"}
  BY <1>3 DEF PamLife, Parted
<1>5. /\ cs \in [Pam!Convs -> Pam!Conversation] /\ Parted(cs, conv) /\ cs[k] = new
      /\ \A m \in Pam!Convs : m # k => cs[m] = convs[m]
      /\ \A m \in Pam!Convs : cs[m].st = convs[m].st /\ cs[m].linked = convs[m].linked
  BY <1>1, <1>3, <1>4, OneParted
<1> QED BY <1>2, <1>3, <1>5

LEMMA OnRequestLife == ASSUME PamLife, NEW k \in Pam!Convs, Pam!OnRequest(k) PROVE PamLife'
<1>1. /\ Pam!Readable(k) /\ convs[k].up # <<>> /\ Head(convs[k].up).type # "exit"
      /\ convs' = Pam!Read(k) /\ frames = <<>> /\ UNCHANGED <<pamTarget, postInit, conv, pamRequired>>
  BY DEF Pam!OnRequest, Pam!Readable
<1>2. /\ Head(convs[k].up) \in Pam!Message
      /\ convs' \in [Pam!Convs -> Pam!Conversation] /\ Parted(convs', conv)
      /\ \A m \in Pam!Convs : convs'[m].st = convs[m].st /\ convs'[m].linked = convs[m].linked /\ convs'[m].pid = convs[m].pid
  BY <1>1, ReadLife
<1>3. frames' \in Seq(AnyFrame) /\ Reaping(frames', convs', 0) /\ shown' \in 0..MaxMessages /\ answered' \in BOOLEAN
  <2>1. CASE convs[k].linked
    <3> DEFINE f == [at |-> "messageChanged", k |-> k, ask |-> Head(convs[k].up).type = "ask"]
    <3>1. frames' = <<f>> /\ shown' = Head(convs[k].up).n /\ answered' = FALSE
      BY <2>1 DEF Pam!OnRequest
    <3>2. f \in AnyFrame /\ f.at # "reap"
      BY DEF AnyFrame
    <3> HIDE DEF f
    <3>3. frames' \in Seq(AnyFrame) /\ Len(frames') = 1 /\ frames'[1] = f
      BY <3>1, <3>2
    <3>4. Head(convs[k].up).n \in 1..MaxMessages
      BY <1>1, <1>2 DEF Pam!Message
    <3>5. shown' \in 0..MaxMessages
      BY <3>1, <3>4, MessagesAreNumbered
    <3>6. ASSUME NEW i \in 1..Len(frames') PROVE frames'[i].at # "reap"
      <4>1. i = 1
        BY <3>3
      <4> QED BY <3>2, <3>3, <4>1
    <3>7. Reaping(frames', convs', 0)
      BY <3>6 DEF Reaping
    <3>8. answered' \in BOOLEAN
      BY <3>1
    <3> QED BY <3>3, <3>5, <3>7, <3>8
  <2>2. CASE ~convs[k].linked
    BY <1>1, <2>2, EmptySeq, NoReaping DEF Pam!OnRequest, PamLife, LifeType
  <2> QED BY <2>1, <2>2
<1>4. conv # 0 => convs'[conv].pid
  BY <1>1, <1>2, EmptySeq DEF PamLife, LifeType, Starting
<1>5. LifeType'
  BY <1>1, <1>2, <1>3 DEF PamLife, LifeType
<1>6. Idle'
  BY <1>1, <1>2 DEF PamLife, Idle
<1> QED BY <1>1, <1>2, <1>3, <1>4, <1>5, <1>6 DEF PamLife, Starting

LEMMA OnExitLife == ASSUME PamLife, NEW k \in Pam!Convs, Pam!OnExit(k) PROVE PamLife'
<1> DEFINE cs == Pam!Read(k)
           f  == Pam!Frame("reap", k)
<1>1. /\ Pam!Readable(k) /\ convs[k].up # <<>> /\ frames = <<>> /\ convs[k].st # "unused"
      /\ UNCHANGED <<postInit, pamRequired, shown, answered>>
  BY DEF Pam!OnExit, Pam!Readable
<1>2. Pam!Completes(cs, k, <<f>>) \/ Pam!Fails(cs, k, <<f>>)
  BY DEF Pam!OnExit
<1>3. f \in AnyFrame /\ f.k = k
  BY DEF AnyFrame, Pam!Frame, Pam!Points
<1>4. /\ cs \in [Pam!Convs -> Pam!Conversation] /\ Parted(cs, conv)
      /\ \A m \in Pam!Convs : cs[m].st = convs[m].st /\ cs[m].linked = convs[m].linked
      /\ \A m \in Pam!Convs : m # k => cs[m] = convs[m]
  BY <1>1, ReadLife
<1> HIDE DEF cs, f
<1>5. <<f>> \in Seq(AnyFrame) /\ Reaping(<<f>>, cs, k)
  <2>1. <<f>> \in Seq(AnyFrame) /\ Len(<<f>>) = 1 /\ <<f>>[1] = f
    BY <1>3
  <2> QED BY <1>1, <1>3, <1>4, <2>1 DEF Reaping
<1>6. pamRequired' \in BOOLEAN /\ answered' \in BOOLEAN /\ shown' \in 0..MaxMessages
  BY <1>1 DEF PamLife, LifeType
<1> QED BY <1>1, <1>2, <1>4, <1>5, <1>6, EndLife

LEMMA OnEofLife == ASSUME PamLife, NEW k \in Pam!Convs, Pam!OnEof(k) PROVE PamLife'
<1> DEFINE cs == Pam!Killed(k)
<1>1. /\ frames = <<>> /\ convs[k].st # "unused" /\ UNCHANGED <<postInit, pamRequired, shown, answered>>
      /\ Pam!Fails(cs, k, <<>>)
  BY DEF Pam!OnEof, Pam!Readable
<1>2. /\ cs \in [Pam!Convs -> Pam!Conversation] /\ Parted(cs, conv)
      /\ \A m \in Pam!Convs : cs[m].st = convs[m].st /\ cs[m].linked = convs[m].linked
      /\ \A m \in Pam!Convs : m # k => cs[m] = convs[m]
  BY <1>1, KilledLife
<1> HIDE DEF cs
<1>3. <<>> \in Seq(AnyFrame) /\ Reaping(<<>>, cs, k)
  BY EmptySeq, NoReaping
<1>4. pamRequired' \in BOOLEAN /\ answered' \in BOOLEAN /\ shown' \in 0..MaxMessages
  BY <1>1 DEF PamLife, LifeType
<1> QED BY <1>1, <1>2, <1>3, <1>4, EndLife

LEMMA ReapedLife == ASSUME PamLife, Pam!Reaped PROVE PamLife'
<1> DEFINE k   == Head(frames).k
           new == [convs[k] EXCEPT !.pid = FALSE, !.child = "reaped"]
<1>1. /\ frames # <<>> /\ frames \in Seq(AnyFrame) /\ Head(frames).at = "reap"
      /\ UNCHANGED <<pamTarget, postInit, conv, pamRequired, shown, answered>> /\ frames' = Tail(frames)
      /\ convs' = [convs EXCEPT ![k].pid = FALSE, ![k].child = "reaped"]
  BY DEF Pam!Reaped, Pam!At, Pam!Top, Pam!Return, PamLife, LifeType
<1>2. /\ Tail(frames) \in Seq(AnyFrame) /\ Head(frames) \in AnyFrame /\ Reaping(Tail(frames), convs, 0)
      /\ Starting(Tail(frames), convs, conv) /\ convs[k].st # "unused" /\ (convs[k].linked => k = 0)
  BY <1>1, LifeTop DEF PamLife
<1>3. k \in Pam!Convs /\ k # 0
  BY <1>2, ConvsAreNumbered DEF AnyFrame, Pam!Convs
<1> HIDE DEF k
<1>4. k # conv
  BY <1>2, <1>3 DEF PamLife, Parted
<1>5. convs' = [convs EXCEPT ![k] = new] /\ convs[k] \in Pam!Conversation
  BY <1>1, <1>3 DEF PamLife, LifeType
<1>6. new \in Pam!Conversation /\ new.st = convs[k].st /\ new.linked = convs[k].linked /\ new.child = "reaped"
  BY <1>5 DEF Pam!Conversation
<1> HIDE DEF new
<1>7. pamRequired' \in BOOLEAN /\ answered' \in BOOLEAN /\ shown' \in 0..MaxMessages
  BY <1>1 DEF PamLife, LifeType
<1> QED BY <1>1, <1>2, <1>3, <1>4, <1>5, <1>6, <1>7, OneLife

LEMMA DeleteLife == ASSUME PamLife, NEW k \in Pam!Convs, Pam!Delete(k) PROVE PamLife'
<1> DEFINE ch  == Pam!Killed(k)[k].child
           new == [Pam!NoConversation EXCEPT !.st = "gone", !.child = ch]
<1>1. frames = <<>> /\ convs[k].st = "doomed" /\ convs' = [convs EXCEPT ![k] = new]
      /\ UNCHANGED <<pamTarget, postInit, conv, pamRequired, shown, answered, frames>>
      /\ convs \in [Pam!Convs -> Pam!Conversation]
  BY DEF Pam!Delete, PamLife, LifeType
<1>2. ch \in {"none", "reaped"}
  <2> DEFINE cs == Pam!Killed(k)
  <2>1. cs \in [Pam!Convs -> Pam!Conversation] /\ cs[k].child \notin {"running", "waiting", "ended"}
    BY <1>1, KilledLife
  <2> HIDE DEF cs
  <2>2. cs[k].child \in {"none", "reaped"}
    BY <2>1 DEF Pam!Conversation
  <2> QED BY <2>2 DEF cs
<1> HIDE DEF ch
<1>3. new \in Pam!Conversation /\ new.st = "gone" /\ ~new.linked /\ new.child = ch
  <2> DEFINE none == Pam!NoConversation
  <2>1. none \in Pam!Conversation /\ ~none.linked
    BY MessagesAreNumbered, EmptySeq DEF Pam!NoConversation, Pam!Conversation
  <2> HIDE DEF none
  <2>2. new = [none EXCEPT !.st = "gone", !.child = ch]
    BY DEF none
  <2> HIDE DEF new
  <2> QED BY <1>2, <2>1, <2>2 DEF Pam!Conversation
<1> HIDE DEF new
<1>4. /\ convs' \in [Pam!Convs -> Pam!Conversation] /\ convs'[k] = new
      /\ \A m \in Pam!Convs : m # k => convs'[m] = convs[m]
  BY <1>1, <1>3
<1>5. k # conv
  BY <1>1, ConvsAreNumbered DEF PamLife, Parted, Pam!Convs
<1>6. Parted(convs, conv)'
  <2>1. ASSUME NEW m \in Pam!Convs
        PROVE  /\ convs'[m].linked => m = conv
               /\ convs'[m].st = "unused" => convs'[m].child = "none" /\ ~convs'[m].linked
               /\ convs'[m].child \in {"running", "waiting", "ended"} => convs'[m].pid /\ convs'[m].st \in {"live", "doomed"}
    BY <1>2, <1>3, <1>4 DEF PamLife, Parted
  <2>2. conv # 0 => convs'[conv].st = "live" /\ convs'[conv].linked
    BY <1>4, <1>5 DEF PamLife, LifeType, Parted
  <2> QED BY <1>1, <2>1, <2>2 DEF Parted
<1>7. Starting(frames, convs, conv)'
  BY <1>1, <1>4, <1>5 DEF PamLife, LifeType, Starting
<1>8. Idle'
  BY <1>1, <1>4 DEF PamLife, Idle
<1>9. LifeType'
  BY <1>1, <1>4 DEF PamLife, LifeType
<1> QED BY <1>1, <1>6, <1>7, <1>8, <1>9, NoReaping DEF PamLife

\* What a child does leaves its conversation as it is.
LEMMA ChildLife ==
  ASSUME PamLife, NEW k \in Pam!Convs, Pam!Child(k) \/ Pam!ChildDies(k)
  PROVE  PamLife'
<1> DEFINE q == convs[k]
<1>1. /\ q.child \in {"running", "waiting"} /\ UNCHANGED <<pamTarget, postInit, conv, pamRequired, shown, answered, frames>>
      /\ q \in Pam!Conversation /\ convs \in [Pam!Convs -> Pam!Conversation]
  BY DEF Pam!Child, Pam!ChildAsks, Pam!ChildReads, Pam!ChildExits, Pam!ChildDies, Pam!Alive, PamLife, LifeType
<1>2. q.pid /\ q.st \in {"live", "doomed"}
  BY <1>1 DEF PamLife, Parted
<1>3. q.up \in Seq(Pam!Message) /\ q.down \in Seq(0..MaxMessages) /\ q.sent \in 0..MaxMessages
  BY <1>1 DEF Pam!Conversation
<1>4. ASSUME NEW sent \in 0..MaxMessages, NEW up \in Seq(Pam!Message), NEW down \in Seq(0..MaxMessages),
             NEW child \in {"running", "waiting", "ended"},
             convs' = [convs EXCEPT ![k] = [q EXCEPT !.sent = sent, !.up = up, !.down = down, !.child = child]]
      PROVE  PamLife'
  <2> DEFINE new == [q EXCEPT !.sent = sent, !.up = up, !.down = down, !.child = child]
  <2>1. /\ new \in Pam!Conversation /\ new.st = q.st /\ new.linked = q.linked /\ new.pid = q.pid /\ new.child = child
    BY <1>1, <1>4 DEF Pam!Conversation
  <2>2. convs' = [convs EXCEPT ![k] = new]
    BY <1>4
  <2> HIDE DEF new
  <2>3. pamRequired' \in BOOLEAN /\ answered' \in BOOLEAN /\ shown' \in 0..MaxMessages
        /\ frames' \in Seq(AnyFrame) /\ Reaping(frames', convs, 0) /\ Starting(frames', convs, conv)
    BY <1>1 DEF PamLife, LifeType
  <2> QED BY <1>1, <1>2, <1>4, <2>1, <2>2, <2>3, OneLife
<1>5. ASSUME Pam!ChildAsks(k) PROVE PamLife'
  <2>1. PICK type \in {"ask", "tell"} :
          convs' = [convs EXCEPT ![k].sent = @ + 1,
                                 ![k].up = Append(@, [type |-> type, n |-> convs[k].sent + 1]),
                                 ![k].child = IF type = "ask" THEN "waiting" ELSE @]
    BY <1>5 DEF Pam!ChildAsks
  <2> DEFINE n == q.sent + 1
             m == [type |-> type, n |-> n]
             u == Append(q.up, m)
             ch == IF type = "ask" THEN "waiting" ELSE q.child
  <2>2. convs' = [convs EXCEPT ![k] = [q EXCEPT !.sent = n, !.up = u, !.down = q.down, !.child = ch]]
    BY <1>1, <2>1 DEF Pam!Conversation
  <2>3. n \in 1..MaxMessages /\ n \in 0..MaxMessages
    BY <1>3, <1>5, MessagesAreNumbered DEF Pam!ChildAsks
  <2>4. ch \in {"running", "waiting", "ended"}
    BY <1>1
  <2> HIDE DEF n, ch
  <2>5. m \in Pam!Message
    BY <2>3 DEF Pam!Message
  <2> HIDE DEF m
  <2>6. u \in Seq(Pam!Message)
    BY <1>3, <2>5, AppendProperties
  <2> HIDE DEF u
  <2> QED BY <1>3, <1>4, <2>2, <2>3, <2>4, <2>6
<1>6. ASSUME Pam!ChildReads(k) PROVE PamLife'
  <2> DEFINE d == Tail(q.down)
  <2>1. convs' = [convs EXCEPT ![k] = [q EXCEPT !.sent = q.sent, !.up = q.up, !.down = d, !.child = "running"]]
    BY <1>1, <1>6 DEF Pam!ChildReads, Pam!Conversation
  <2>2. d \in Seq(0..MaxMessages)
    <3>1. PICK e : e = q.down
      OBVIOUS
    <3>2. e \in Seq(0..MaxMessages) /\ e # <<>>
      BY <1>3, <1>6, <3>1 DEF Pam!ChildReads
    <3> QED BY <3>1, <3>2, HeadTailProperties
  <2> HIDE DEF d
  <2> QED BY <1>3, <1>4, <2>1, <2>2
<1>7. ASSUME Pam!ChildExits(k) PROVE PamLife'
  <2>1. PICK ok \in BOOLEAN : convs' = [convs EXCEPT ![k].up = Append(@, [type |-> "exit", ok |-> ok]), ![k].child = "ended"]
    BY <1>7 DEF Pam!ChildExits, Pam!Send
  <2> DEFINE m == [type |-> "exit", ok |-> ok]
             u == Append(q.up, m)
  <2>2. convs' = [convs EXCEPT ![k] = [q EXCEPT !.sent = q.sent, !.up = u, !.down = q.down, !.child = "ended"]]
    BY <1>1, <2>1 DEF Pam!Conversation
  <2>3. m \in Pam!Message
    BY DEF Pam!Message
  <2> HIDE DEF m
  <2>4. u \in Seq(Pam!Message)
    BY <1>3, <2>3, AppendProperties
  <2> HIDE DEF u
  <2> QED BY <1>3, <1>4, <2>2, <2>4
<1>8. ASSUME Pam!ChildDies(k) PROVE PamLife'
  <2>1. convs' = [convs EXCEPT ![k] = [q EXCEPT !.sent = q.sent, !.up = q.up, !.down = q.down, !.child = "ended"]]
    BY <1>1, <1>8 DEF Pam!ChildDies, Pam!Conversation
  <2> QED BY <1>3, <1>4, <2>1
<1> QED BY <1>5, <1>6, <1>7, <1>8 DEF Pam!Child

LEMMA NextPamLife == ASSUME PamLife, [Pam!Next]_(Pam!pamVars) PROVE PamLife'
<1>1. CASE UNCHANGED Pam!pamVars
  BY <1>1 DEF Pam!pamVars, PamLife, LifeType, Parted, Reaping, Starting, Idle
<1>2. CASE Pam!Qml
  BY <1>2, QmlLife, RespondLife DEF Pam!Qml
<1>3. CASE Pam!Main
  BY <1>3, ReturnLife, StartedLife, ReapedLife, OnRequestLife, OnExitLife, OnEofLife, DeleteLife DEF Pam!Main
<1>4. CASE \E k \in Pam!Convs : Pam!Child(k) \/ Pam!ChildDies(k)
  BY <1>4, ChildLife
<1> QED BY <1>1, <1>2, <1>3, <1>4 DEF Pam!Next

LEMMA PamIsTyped == Pam!Spec => [](Pam!TypeOK /\ Pam!ChildrenAreOwned /\ Pam!ActiveHasChild)
<1>1. PamLife /\ [Pam!Next]_(Pam!pamVars) => PamLife'
  BY NextPamLife
<1> QED BY <1>1, InitPamLife, LifeHolds, PTL DEF Pam!Spec

-----------------------------------------------------------------------------
(* The types of all these, in every case.                                    *)

\* A flow is in session until it is answered, or cancelled and then answered once more, and nothing
\* waits in the queue.
AnsweredTwice(q) ==
  /\ q.session \in {"running", "asking"} => q.st = "flow" /\ q.answers = IF q.cancelled THEN 1 ELSE 0
  /\ q.st = "new" => q.answers = 0 /\ ~q.cancelled /\ ~q.doomed /\ q.session = "none"
  /\ q.st # "queued" /\ q.answers <= 2

PolkitShape ==
  /\ reqs \in [AuthRequests -> AnyRequest] /\ queue = <<>> /\ active \in AuthRequests \cup {NoFlow}
  /\ agent \in BOOLEAN /\ usual \in BOOLEAN
  /\ active # NoFlow => Polkit!InSession(active) /\ ~reqs[active].doomed
  /\ \A r \in AuthRequests : AnsweredTwice(reqs[r])

LEMMA ShapeIsTyped == PolkitShape => Polkit!TypeOK
<1> SUFFICES ASSUME PolkitShape PROVE Polkit!TypeOK
  OBVIOUS
<1>1. ASSUME NEW q \in AnyRequest, AnsweredTwice(q) PROVE q \in Polkit!Request
  <2>1. q.answers \in 0..3
    BY <1>1 DEF AnyRequest, AnsweredTwice
  <2> QED BY <2>1 DEF AnyRequest, Polkit!Request
<1>2. ASSUME NEW r \in AuthRequests PROVE reqs[r] \in Polkit!Request
  BY <1>1 DEF PolkitShape
<1>3. reqs \in [AuthRequests -> Polkit!Request]
  BY <1>2 DEF PolkitShape
<1> QED BY <1>3, EmptySeq DEF PolkitShape, Polkit!TypeOK

LEMMA OneRequest ==
  ASSUME PolkitShape, NEW r \in AuthRequests, NEW new, reqs' = [reqs EXCEPT ![r] = new],
         new \in AnyRequest /\ AnsweredTwice(new), UNCHANGED <<queue, agent>>, usual' \in BOOLEAN,
         \/ active' = active /\ (r = active => new.st = "flow" /\ new.session \in {"running", "asking"} /\ ~new.doomed)
         \/ active' = NoFlow
         \/ active' = r /\ new.st = "flow" /\ new.session \in {"running", "asking"} /\ ~new.doomed
  PROVE  PolkitShape'
<1>1. /\ reqs' \in [AuthRequests -> AnyRequest] /\ reqs'[r] = new
      /\ \A q \in AuthRequests : q # r => reqs'[q] = reqs[q]
  BY DEF PolkitShape
<1>2. active' # NoFlow => Polkit!InSession(active)' /\ ~reqs'[active'].doomed
  BY <1>1 DEF PolkitShape, Polkit!InSession, Polkit!Flow
<1> QED BY <1>1, <1>2 DEF PolkitShape

\* What is active is in session, and what is in session has been answered only if it was cancelled.
LEMMA ActiveShape ==
  ASSUME PolkitShape, active # NoFlow
  PROVE  /\ active \in AuthRequests /\ reqs[active] \in AnyRequest /\ AnsweredTwice(reqs[active])
         /\ reqs[active].st = "flow" /\ reqs[active].session \in {"running", "asking"} /\ ~reqs[active].doomed
BY DEF PolkitShape, Polkit!InSession, Polkit!Flow

\* The active flow is given up, in the state of the requests in which r has ended.
LEMMA FinishShape ==
  ASSUME PolkitShape, NEW r \in AuthRequests, NEW new \in AnyRequest, AnsweredTwice(new), new.st = "flow",
         Polkit!Finish([reqs EXCEPT ![r] = new]), UNCHANGED agent, usual' \in BOOLEAN
  PROVE  PolkitShape'
<1> DEFINE rs == [reqs EXCEPT ![r] = new]
<1>1. rs \in [AuthRequests -> AnyRequest] /\ \A q \in AuthRequests : AnsweredTwice(rs[q])
  BY DEF PolkitShape
<1>2. CASE active = NoFlow
  <2>1. reqs' = rs /\ UNCHANGED <<queue, active>>
    BY <1>2 DEF Polkit!Finish
  <2> HIDE DEF rs
  <2> QED BY <1>1, <1>2, <2>1 DEF PolkitShape
<1>3. CASE active # NoFlow
  <2>1. reqs' = [rs EXCEPT ![active].doomed = TRUE] /\ active' = NoFlow /\ queue' = queue /\ active \in AuthRequests
    BY <1>3 DEF Polkit!Finish, PolkitShape
  <2> HIDE DEF rs
  <2>2. ASSUME NEW q \in AnyRequest, AnsweredTwice(q), q.st = "flow"
        PROVE  [q EXCEPT !.doomed = TRUE] \in AnyRequest /\ AnsweredTwice([q EXCEPT !.doomed = TRUE])
    BY <2>2 DEF AnyRequest, AnsweredTwice
  <2>3. /\ reqs' = [rs EXCEPT ![active] = [rs[active] EXCEPT !.doomed = TRUE]]
        /\ rs[active] \in AnyRequest /\ AnsweredTwice(rs[active]) /\ rs[active].st = "flow"
    BY <1>1, <1>3, <2>1, ActiveShape DEF rs, PolkitShape
  <2>4. /\ reqs' \in [AuthRequests -> AnyRequest] /\ \A q \in AuthRequests : AnsweredTwice(reqs'[q])
    BY <1>1, <2>1, <2>2, <2>3
  <2> QED BY <2>1, <2>4 DEF PolkitShape
<1> QED BY <1>2, <1>3

LEMMA OneAnswerMore ==
  ASSUME NEW q \in AnyRequest, AnsweredTwice(q), q.st = "new" \/ q.session \in {"running", "asking"}
  PROVE  q.answers + 1 \in Nat /\ q.answers + 1 <= 2 /\ (~q.cancelled => q.answers + 1 = 1)
BY DEF AnyRequest, AnsweredTwice

LEMMA CancelShape ==
  ASSUME PolkitShape, active # NoFlow, Polkit!CancelFlow(active), UNCHANGED <<agent, usual>>
  PROVE  PolkitShape'
<1> DEFINE q   == reqs[active]
           k   == q.answers + 1
           new == [q EXCEPT !.answers = k, !.cancelled = TRUE, !.session = "ended", !.completed = TRUE]
<1>1. Polkit!InSession(active)
  BY DEF PolkitShape
<1>2. Polkit!Finish([[[reqs EXCEPT ![active].answers = @ + 1] EXCEPT ![active].cancelled = TRUE]
                       EXCEPT ![active].session = "ended", ![active].completed = TRUE])
  BY <1>1 DEF Polkit!CancelFlow, Polkit!Answer
<1>3. [[[reqs EXCEPT ![active].answers = @ + 1] EXCEPT ![active].cancelled = TRUE]
         EXCEPT ![active].session = "ended", ![active].completed = TRUE] = [reqs EXCEPT ![active] = new]
  BY ActiveShape DEF PolkitShape
<1>4. new \in AnyRequest /\ AnsweredTwice(new) /\ new.st = "flow"
  <2>1. q \in AnyRequest /\ AnsweredTwice(q) /\ q.st = "flow" /\ q.session \in {"running", "asking"}
    BY ActiveShape
  <2>2. k \in Nat /\ k <= 2
    BY <2>1, OneAnswerMore
  <2> HIDE DEF q, k
  <2> QED BY <2>1, <2>2 DEF AnyRequest, AnsweredTwice
<1>5. Polkit!Finish([reqs EXCEPT ![active] = new])
  BY <1>2, <1>3
<1>6. usual' \in BOOLEAN /\ active \in AuthRequests
  BY ActiveShape DEF PolkitShape
<1> HIDE DEF new
<1> QED BY <1>4, <1>5, <1>6, FinishShape

LEMMA InitiateShape == ASSUME PolkitShape, NEW r \in AuthRequests, Polkit!Initiate(r) PROVE PolkitShape'
<1> DEFINE rs == [reqs EXCEPT ![r].st = "queued"]
<1>1. reqs[r].st = "new" /\ queue = <<>> /\ reqs[r] \in AnyRequest /\ AnsweredTwice(reqs[r])
      /\ reqs \in [AuthRequests -> AnyRequest] /\ UNCHANGED agent /\ usual' \in BOOLEAN
  BY DEF Polkit!Initiate, PolkitShape
<1>2. Append(queue, r) = <<r>> /\ Len(<<r>>) = 1 /\ Head(<<r>>) = r /\ Tail(<<r>>) = <<>>
  BY <1>1, AloneInStream
<1>3. Polkit!Activate(rs, <<r>>)
  BY <1>2, Zenon DEF Polkit!Initiate
<1>4. CASE r \in Nobody
  <2> DEFINE k   == reqs[r].answers + 1
             new == [reqs[r] EXCEPT !.answers = k, !.st = "freed"]
  <2>1. queue' = <<>> /\ active' = active /\ reqs' = [[rs EXCEPT ![r].answers = @ + 1] EXCEPT ![r].st = "freed"]
    BY <1>2, <1>3, <1>4 DEF Polkit!Activate, Polkit!Refused, Polkit!Answer
  <2>2. reqs' = [reqs EXCEPT ![r] = new]
    BY <1>1, <2>1
  <2>3. new \in AnyRequest /\ AnsweredTwice(new)
    <3>1. k \in Nat /\ k <= 2
      BY <1>1, OneAnswerMore
    <3> HIDE DEF k
    <3> QED BY <1>1, <3>1 DEF AnyRequest, AnsweredTwice
  <2>4. r # active
    BY <1>1, ActiveShape, NullIsNoFlow
  <2> HIDE DEF new
  <2> QED BY <1>1, <2>1, <2>2, <2>3, <2>4, OneRequest
<1>5. CASE r \notin Nobody
  <2> DEFINE new == [reqs[r] EXCEPT !.st = "flow", !.session = "running"]
  <2>1. queue' = <<>> /\ active' = r /\ reqs' = [rs EXCEPT ![r].st = "flow", ![r].session = "running"]
    BY <1>2, <1>3, <1>5 DEF Polkit!Activate
  <2>2. reqs' = [reqs EXCEPT ![r] = new]
    BY <1>1, <2>1
  <2>3. new \in AnyRequest /\ AnsweredTwice(new) /\ new.st = "flow" /\ new.session = "running" /\ ~new.doomed
    BY <1>1 DEF AnyRequest, AnsweredTwice
  <2> HIDE DEF new
  <2> QED BY <1>1, <2>1, <2>2, <2>3, OneRequest
<1> QED BY <1>4, <1>5

\* A change of the active flow that leaves it in session.
LEMMA InSessionShape ==
  ASSUME PolkitShape, active # NoFlow, NEW new, reqs' = [reqs EXCEPT ![active] = new],
         new \in AnyRequest /\ AnsweredTwice(new) /\ ~new.doomed, new.session \in {"running", "asking"},
         UNCHANGED <<queue, active, agent>>, usual' \in BOOLEAN
  PROVE  PolkitShape'
<1>1. new.st = "flow"
  BY DEF AnsweredTwice
<1> QED BY <1>1, ActiveShape, OneRequest

LEMMA ShellShape == ASSUME PolkitShape, Polkit!Submit \/ Polkit!SelectIdentity PROVE PolkitShape'
<1> DEFINE q == reqs[active]
           submitted == [q EXCEPT !.required = FALSE,
                                  !.session = IF q.session = "asking" THEN "running" ELSE q.session]
           selected  == [q EXCEPT !.failed = q.failed \/ Polkit!InSession(active), !.session = "running"]
<1>1. active # NoFlow /\ UNCHANGED <<queue, active, agent>> /\ usual' \in BOOLEAN /\ reqs \in [AuthRequests -> AnyRequest]
  BY DEF Polkit!Submit, Polkit!SelectIdentity, PolkitShape
<1>2. /\ q \in AnyRequest /\ AnsweredTwice(q) /\ q.st = "flow" /\ q.session \in {"running", "asking"} /\ ~q.doomed
      /\ active \in AuthRequests
  BY <1>1, ActiveShape
<1>3. Polkit!InSession(active) \in BOOLEAN
  BY DEF Polkit!InSession, Polkit!Flow
<1>4. \/ reqs' = [reqs EXCEPT ![active] = submitted]
      \/ reqs' = [reqs EXCEPT ![active] = selected]
  BY <1>1, <1>2 DEF Polkit!Submit, Polkit!SelectIdentity
<1> HIDE DEF q
<1>5. submitted \in AnyRequest /\ AnsweredTwice(submitted) /\ submitted.session \in {"running", "asking"} /\ ~submitted.doomed
  BY <1>2 DEF AnyRequest, AnsweredTwice
<1>6. selected \in AnyRequest /\ AnsweredTwice(selected) /\ selected.session \in {"running", "asking"} /\ ~selected.doomed
  BY <1>2, <1>3 DEF AnyRequest, AnsweredTwice
<1> HIDE DEF submitted, selected
<1> QED BY <1>1, <1>4, <1>5, <1>6, InSessionShape

\* What a session tells, of an active flow or one that was given up.
LEMMA SessionShape ==
  ASSUME PolkitShape, NEW r \in AuthRequests,
         Polkit!SessionAsks(r) \/ Polkit!SessionGains(r) \/ Polkit!SessionFails(r)
  PROVE  PolkitShape'
<1> DEFINE q == reqs[r]
           k == q.answers + 1
           asks   == [q EXCEPT !.session = "asking", !.required = TRUE]
           gains  == [q EXCEPT !.answers = k, !.session = "ended", !.completed = TRUE]
           fails  == [q EXCEPT !.failed = TRUE, !.session = "running"]
           cancels == [q EXCEPT !.answers = k, !.failed = TRUE, !.session = "running", !.cancelled = TRUE]
           ends   == [q EXCEPT !.session = "ended", !.completed = TRUE]
<1>1. /\ q \in AnyRequest /\ AnsweredTwice(q) /\ reqs \in [AuthRequests -> AnyRequest] /\ UNCHANGED agent
      /\ usual' \in BOOLEAN /\ q.st = "flow" /\ q.session \in {"running", "asking"}
  BY DEF PolkitShape, Polkit!SessionAsks, Polkit!SessionGains, Polkit!SessionFails, Polkit!InSession, Polkit!Flow
<1>2. r = active => ~q.doomed
  BY ActiveShape, NullIsNoFlow
<1>3. \/ reqs' = [reqs EXCEPT ![r] = asks] /\ UNCHANGED <<queue, active>>
      \/ Polkit!Finish([reqs EXCEPT ![r] = gains])
      \/ reqs' = [reqs EXCEPT ![r] = fails] /\ UNCHANGED <<queue, active>>
      \/ ~q.cancelled /\ reqs' = [reqs EXCEPT ![r] = cancels] /\ UNCHANGED <<queue, active>>
      \/ Polkit!Finish([reqs EXCEPT ![r] = ends])
  <2>1. CASE Polkit!SessionAsks(r)
    BY <1>1, <2>1 DEF Polkit!SessionAsks
  <2>2. CASE Polkit!SessionGains(r)
    <3>1. [[reqs EXCEPT ![r].answers = @ + 1] EXCEPT ![r].session = "ended", ![r].completed = TRUE] = [reqs EXCEPT ![r] = gains]
      BY <1>1
    <3> QED BY <2>2, <3>1, Zenon DEF Polkit!SessionGains, Polkit!Answer
  <2>3. CASE Polkit!SessionFails(r)
    <3>1. [[reqs EXCEPT ![r].answers = @ + 1] EXCEPT ![r].failed = TRUE, ![r].session = "running", ![r].cancelled = TRUE]
            = [reqs EXCEPT ![r] = cancels]
      BY <1>1
    <3>2. [reqs EXCEPT ![r].session = "ended", ![r].completed = TRUE] = [reqs EXCEPT ![r] = ends]
          /\ [reqs EXCEPT ![r].failed = TRUE, ![r].session = "running"] = [reqs EXCEPT ![r] = fails]
      BY <1>1
    <3> HIDE DEF ends, fails, cancels
    <3> QED BY <2>3, <3>1, <3>2, Zenon DEF Polkit!SessionFails, Polkit!Answer
  <2> QED BY <2>1, <2>2, <2>3
<1>4. k \in Nat /\ k <= 2 /\ (~q.cancelled => k = 1)
  BY <1>1, OneAnswerMore
<1> HIDE DEF q, k
<1>5. gains \in AnyRequest /\ AnsweredTwice(gains) /\ gains.st = "flow"
  BY <1>1, <1>4 DEF AnyRequest, AnsweredTwice
<1>6. ends \in AnyRequest /\ AnsweredTwice(ends) /\ ends.st = "flow"
  BY <1>1 DEF AnyRequest, AnsweredTwice
<1>7. asks \in AnyRequest /\ AnsweredTwice(asks) /\ asks.st = "flow" /\ asks.session = "asking" /\ (r = active => ~asks.doomed)
  BY <1>1, <1>2 DEF AnyRequest, AnsweredTwice
<1>8. fails \in AnyRequest /\ AnsweredTwice(fails) /\ fails.st = "flow" /\ fails.session = "running" /\ (r = active => ~fails.doomed)
  BY <1>1, <1>2 DEF AnyRequest, AnsweredTwice
<1>9. ~q.cancelled => /\ cancels \in AnyRequest /\ AnsweredTwice(cancels) /\ cancels.st = "flow"
                      /\ cancels.session = "running" /\ (r = active => ~cancels.doomed)
  BY <1>1, <1>2, <1>4 DEF AnyRequest, AnsweredTwice
<1> HIDE DEF asks, gains, fails, cancels, ends
<1> QED BY <1>1, <1>3, <1>5, <1>6, <1>7, <1>8, <1>9, FinishShape, OneRequest

LEMMA DeleteFlowShape == ASSUME PolkitShape, NEW r \in AuthRequests, Polkit!DeleteFlow(r) PROVE PolkitShape'
<1> DEFINE new == [reqs[r] EXCEPT !.st = "freed", !.session = "none"]
<1>1. reqs[r] \in AnyRequest /\ AnsweredTwice(reqs[r]) /\ reqs \in [AuthRequests -> AnyRequest] /\ reqs[r].doomed
      /\ UNCHANGED <<queue, active, agent>> /\ usual' \in BOOLEAN
  BY DEF PolkitShape, Polkit!DeleteFlow
<1>2. r # active
  BY <1>1, ActiveShape, NullIsNoFlow
<1>3. reqs' = [reqs EXCEPT ![r] = new]
  BY <1>1 DEF Polkit!DeleteFlow
<1>4. new \in AnyRequest /\ AnsweredTwice(new)
  BY <1>1 DEF AnyRequest, AnsweredTwice
<1> HIDE DEF new
<1> QED BY <1>1, <1>2, <1>3, <1>4, OneRequest

LEMMA CancelFromAgentShape ==
  ASSUME PolkitShape, NEW r \in AuthRequests, Polkit!CancelFromAgent(r) PROVE PolkitShape'
<1>1. CASE active = r
  <2>1. Polkit!CancelFlow(active) /\ UNCHANGED <<agent, usual>>
    BY <1>1 DEF Polkit!CancelFromAgent
  <2> QED BY <1>1, <2>1, NullIsNoFlow, CancelShape
<1>2. CASE active # r
  <2>1. reqs[r].st # "queued"
    BY DEF PolkitShape, AnsweredTwice
  <2>2. UNCHANGED <<reqs, queue, active, agent, usual>>
    BY <1>2, <2>1 DEF Polkit!CancelFromAgent
  <2> QED BY <2>2 DEF PolkitShape, Polkit!InSession, Polkit!Flow
<1> QED BY <1>1, <1>2

LEMMA AgentEndsShape == ASSUME PolkitShape, Polkit!AgentEnds PROVE PolkitShape'
<1>1. queue = <<>> /\ queue' = <<>> /\ active' = NoFlow /\ reqs \in [AuthRequests -> AnyRequest]
      /\ agent' \in BOOLEAN /\ usual' \in BOOLEAN
  BY DEF PolkitShape, Polkit!AgentEnds
<1>2. [r \in AuthRequests |-> IF \E i \in DOMAIN queue : queue[i] = r
                              THEN [reqs[r] EXCEPT !.answers = @ + 1, !.st = "freed"] ELSE reqs[r]] = reqs
  <2>1. ~ \E i \in DOMAIN queue : TRUE
    BY <1>1
  <2> QED BY <1>1, <2>1
<1>3. CASE active = NoFlow
  <2>1. reqs' = reqs
    BY <1>2, <1>3 DEF Polkit!AgentEnds
  <2> QED BY <1>1, <1>3, <2>1 DEF PolkitShape
<1>4. CASE active # NoFlow
  <2> DEFINE q   == reqs[active]
             k   == q.answers + 1
             new == [q EXCEPT !.answers = k, !.cancelled = TRUE, !.doomed = TRUE,
                              !.completed = q.completed \/ Polkit!InSession(active), !.session = "ended"]
  <2>1. q \in AnyRequest /\ AnsweredTwice(q) /\ active \in AuthRequests /\ Polkit!InSession(active) \in BOOLEAN
        /\ q.st = "flow" /\ q.session \in {"running", "asking"}
    BY <1>4, ActiveShape DEF Polkit!InSession, Polkit!Flow
  <2>2. reqs' = [[reqs EXCEPT ![active].answers = @ + 1] EXCEPT
                   ![active].cancelled = TRUE, ![active].doomed = TRUE,
                   ![active].completed = @ \/ Polkit!InSession(active), ![active].session = "ended"]
    BY <1>2, <1>4, Zenon DEF Polkit!AgentEnds, Polkit!Answer
  <2>3. reqs' = [reqs EXCEPT ![active] = new]
    <3>1. reqs' = [reqs EXCEPT ![active] =
                     [q EXCEPT !.answers = q.answers + 1, !.cancelled = TRUE, !.doomed = TRUE,
                               !.completed = q.completed \/ Polkit!InSession(active), !.session = "ended"]]
      <4>1. active \in AuthRequests /\ reqs \in [AuthRequests -> AnyRequest]
        BY <1>1, <2>1
      <4> QED BY <2>2, <4>1
    <3> QED BY <3>1
  <2>4. new \in AnyRequest /\ AnsweredTwice(new)
    <3>1. k \in Nat /\ k <= 2
      BY <2>1, OneAnswerMore
    <3> HIDE DEF q, k
    <3> QED BY <2>1, <3>1 DEF AnyRequest, AnsweredTwice
  <2> HIDE DEF new
  <2> QED BY <1>1, <2>1, <2>3, <2>4 DEF PolkitShape
<1> QED BY <1>3, <1>4

LEMMA PolkitIsTyped == Polkit!Spec => []Polkit!TypeOK
<1>1. Polkit!Init => PolkitShape
  <2> SUFFICES ASSUME Polkit!Init PROVE PolkitShape
    OBVIOUS
  <2>1. Polkit!NewRequest \in AnyRequest /\ AnsweredTwice(Polkit!NewRequest)
    BY DEF Polkit!NewRequest, AnyRequest, AnsweredTwice
  <2> QED BY <2>1 DEF Polkit!Init, PolkitShape
<1>2. ASSUME PolkitShape, [Polkit!Next]_(Polkit!polkitVars) PROVE PolkitShape'
  <2>1. CASE Polkit!CancelByUser
    BY <1>2, <2>1, CancelShape DEF Polkit!CancelByUser
  <2>2. CASE UNCHANGED Polkit!polkitVars
    BY <1>2, <2>2 DEF Polkit!polkitVars, PolkitShape, Polkit!InSession, Polkit!Flow
  <2> QED
    BY <1>2, <2>1, <2>2, InitiateShape, CancelFromAgentShape, DeleteFlowShape, SessionShape, ShellShape, AgentEndsShape
       DEF Polkit!Next
<1> QED BY <1>1, <1>2, ShapeIsTyped, PTL DEF Polkit!Spec

\* The flags of greetd's client and what its daemon says of the session.
GreetdFlags == /\ target \in BOOLEAN /\ required \in BOOLEAN /\ connected \in BOOLEAN /\ hurried \in BOOLEAN
               /\ session \in {"none", "asking", "ready", "failed", "started"}

LEMMA GreetdFlagsStay == Greetd!Spec => []GreetdFlags
<1>1. Greetd!Init => GreetdFlags
  BY DEF Greetd!Init, GreetdFlags
<1>2. ASSUME GreetdInv, GreetdFlags, [Greetd!Next]_(Greetd!greetdVars) PROVE GreetdFlags'
  <2>1. Greetd!Begin => hurried' \in BOOLEAN
    BY <1>2 DEF Greetd!Begin, Greetd!Awaiting, GreetdFlags
  <2>2. CASE \/ Greetd!CreateSession \/ Greetd!Connect \/ Greetd!CancelSession \/ Greetd!Respond \/ Greetd!Launch
    BY <1>2, <2>1, <2>2 DEF Greetd!CreateSession, Greetd!Connect, Greetd!CancelSession, Greetd!Respond, Greetd!Launch,
                            Greetd!Inactive, GreetdFlags
  <2>3. CASE Greetd!OnSuccess
    <3>1. UNCHANGED <<connected, session, hurried>>
      BY <2>3 DEF Greetd!OnSuccess
    <3>2. CASE state = "Authenticating"
      BY <1>2, <2>3, <3>1, <3>2 DEF Greetd!OnSuccess, GreetdFlags
    <3>3. CASE state = "Launching"
      BY <1>2, <2>3, <3>1, <3>3 DEF Greetd!OnSuccess, GreetdFlags
    <3>4. CASE state = "Inactive"
      BY <1>2, <2>3, <3>1, <3>4 DEF Greetd!OnSuccess, GreetdFlags
    <3>5. CASE state \in {"ReadyToLaunch", "Launched"}
      <4>1. target' = FALSE /\ required' = FALSE
        BY <2>3, <3>5 DEF Greetd!OnSuccess, Greetd!Inactive
      <4> QED BY <1>2, <3>1, <4>1 DEF GreetdFlags
    <3> QED BY <1>2, <3>2, <3>3, <3>4, <3>5 DEF GreetdInv, GreetdType
  <2>4. CASE Greetd!OnAlready \/ Greetd!OnAuthError \/ Greetd!OnError \/ Greetd!OnQuestion \/ Greetd!OnInfo
    BY <1>2, <2>4 DEF Greetd!OnAlready, Greetd!OnAuthError, Greetd!OnError, Greetd!OnQuestion, Greetd!OnInfo,
                      Greetd!Inactive, GreetdFlags
  <2>5. CASE Greetd!DaemonCreates \/ Greetd!DaemonGoesOn \/ Greetd!DaemonStarts \/ Greetd!DaemonCancels
    BY <1>2, <2>5 DEF Greetd!DaemonCreates, Greetd!DaemonGoesOn, Greetd!DaemonStarts, Greetd!DaemonCancels,
                      Greetd!Authenticate, Greetd!Reply, Greetd!client, GreetdFlags
  <2>6. CASE UNCHANGED Greetd!greetdVars
    BY <1>2, <2>6 DEF Greetd!greetdVars, GreetdFlags
  <2> QED BY <1>2, <2>2, <2>3, <2>4, <2>5, <2>6 DEF Greetd!Next
<1> QED BY <1>1, <1>2, InitGreetdInv, NextGreetdInv, PTL DEF Greetd!Spec

LEMMA GreetdIsTyped == Greetd!Spec => []Greetd!TypeOK
<1>1. GreetdInv /\ GreetdFlags => Greetd!TypeOK
  BY DEF GreetdInv, GreetdType, GreetdFlags, Greetd!TypeOK
<1> QED BY <1>1, InitGreetdInv, NextGreetdInv, GreetdFlagsStay, PTL DEF Greetd!Spec

\* Whether a handler of closed() closed a notification again is known.
Reclosing == reclosed \in BOOLEAN

LEMMA ReclosingStays == Notes!Spec => []Reclosing
<1>1. Notes!Init => Reclosing
  BY DEF Notes!Init, Reclosing
<1>2. ASSUME Reclosing, [Notes!Next]_(Notes!noteVars) PROVE Reclosing'
  <2>1. ASSUME NEW n \in Notes!Notes, NEW reason, Notes!Close(n, reason) PROVE Reclosing'
    BY <1>2, <2>1 DEF Notes!Close, Notes!Emitting, Reclosing
  <2>2. CASE UNCHANGED reclosed
    BY <1>2, <2>2 DEF Reclosing
  <2> QED
    BY <1>2, <2>1, <2>2
       DEF Notes!Next, Notes!Notify, Notes!CloseNotification, Notes!Notified, Notes!NotifiedAgain, Notes!SwitchGeneration,
           Notes!Closed, Notes!RetainedDestroy, Notes!DeleteLater, Notes!SetTracked, Notes!Lock, Notes!Unlock, Notes!noteVars
<1> QED BY <1>1, <1>2, PTL DEF Notes!Spec

LEMMA NotesAreTyped == Notes!Spec => []Notes!TypeOK
<1>1. NoteInv /\ Reclosing => Notes!TypeOK
  <2> SUFFICES ASSUME NoteInv, Reclosing PROVE Notes!TypeOK
    OBVIOUS
  <2>1. AnyNote = Notes!Note
    BY DEF AnyNote, Notes!Note, Notes!Reasons
  <2>2. \A i \in DOMAIN calls : calls[i] \in AnyCall
    BY DEF NoteInv, NoteType
  <2> QED BY <2>1, <2>2 DEF NoteInv, NoteType, OpenIsListed, Reclosing, Notes!TypeOK, AnyCall
<1> QED BY <1>1, InitNoteInv, NextNoteInv, ReclosingStays, PTL DEF Notes!Spec

\* Whatever handlers call back and in whichever order: no child process outlives its PAM conversation,
\* an active context has a child whose end it hears of (PamContext::startConversation(),
\* PamConversation::abort() and the ends of a child), and every variable of the four clients keeps its type.
THEOREM ServicesKeep == Spec => []ServicesHold
<1>1. /\ Pam!TypeOK /\ Pam!ChildrenAreOwned /\ Pam!ActiveHasChild
      /\ Greetd!TypeOK /\ Polkit!TypeOK /\ Notes!TypeOK
      => ServicesHold
  BY DEF ServicesHold
<1> QED BY <1>1, PamIsTyped, GreetdIsTyped, PolkitIsTyped, NotesAreTyped, PamSteps, GreetdSteps, PolkitSteps, NoteSteps, PTL
=============================================================================
