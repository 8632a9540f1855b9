-------------------------- MODULE FileViewProofs --------------------------
(***************************************************************************)
(* Theorems about FileView, for any sets of paths, contents, operation     *)
(* objects and options, with or without handlers, faults and other         *)
(* programs, and with any nesting of handlers.                             *)
(***************************************************************************)
EXTENDS FileView, SequenceTheorems, TLAPS

\* The innermost frame of a well formed stack is a frame, and leaves one.
LEMMA TopFrame ==
  ASSUME stack \in Seq(Frame), NEW l, At(l)
  PROVE  Top \in Frame /\ Top.at = l /\ Tail(stack) \in Seq(Frame)
BY DEF At, Top

LEMMA PushFrames ==
  ASSUME NEW s \in Seq(Frame), NEW f \in Frame, NEW g \in Frame
  PROVE  <<f>> \o s \in Seq(Frame) /\ <<f, g>> \o s \in Seq(Frame)
<1>1. <<f>> \in Seq(Frame) /\ <<f, g>> \in Seq(Frame)
  OBVIOUS
<1> QED BY <1>1

LEMMA PlainFrames ==
  ASSUME NEW l \in {"cancelAsync", "waitForJob", "loadAsync", "startLoad", "saveSync", "emittedSync"}
  PROVE  F(l) \in Frame
BY DEF F, Frame

LEMMA NewOpType ==
  ASSUME opt \in OptionRecord, NEW k \in Kinds, NEW p \in Paths \cup {NoPath}, NEW d \in Content
  PROVE  NewOp(k, p, d) \in Operation
BY DEF NewOp, Operation, OptionRecord, State, BlankState, Errors, Kinds

\* Every result a pool thread posts, and every step it takes, keeps the
\* operation table typed.
LEMMA PostType ==
  ASSUME ops \in [Ops -> Operation], NEW o \in Ops, NEW s \in State, Post(o, s)
  PROVE  ops' \in [Ops -> Operation]
<1>1. [ops[o] EXCEPT !.pc = "posted", !.state = s] \in Operation
  BY DEF Operation
<1> QED BY <1>1 DEF Post

LEMMA StepType ==
  ASSUME ops \in [Ops -> Operation], NEW o \in Ops,
         NEW pc \in {"open", "write", "commit", "posted"}, Step(o, pc)
  PROVE  ops' \in [Ops -> Operation]
<1>1. [ops[o] EXCEPT !.pc = pc] \in Operation
  BY DEF Operation
<1> QED BY <1>1 DEF Step

LEMMA FailedType ==
  ASSUME ops \in [Ops -> Operation], NEW o \in Ops, NEW s \in State, NEW e \in Errors
  PROVE  [s EXCEPT !.error = e] \in State
BY DEF State

LEMMA LandType ==
  ASSUME ops \in [Ops -> Operation], NEW o \in Ops, Land(o)
  PROVE  ops' \in [Ops -> Operation]
<1>1. [ops[o] EXCEPT !.pc = "posted"] \in Operation
  BY DEF Operation
<1> QED BY <1>1 DEF Land

LEMMA BlankType == BlankState \in State
BY DEF BlankState, State, Errors, Content

LEMMA GoneType == Gone \in Operation
BY BlankType DEF Gone, Operation, Kinds

LEMMA SignalType ==
  ASSUME ops \in [Ops -> Operation], NEW o \in Ops
  PROVE  CompletionSignal(ops[o].kind, ops[o].state.error) \in Signals
<1>1. ops[o].kind = "reader" \/ ops[o].kind = "writer"
  BY DEF Operation, Kinds
<1> QED BY <1>1 DEF CompletionSignal, Signals

LEMMA ReadResultsType ==
  ASSUME disk \in [Paths -> Content \cup {NoFile}], NEW p \in Paths, NEW r \in ReadResults(p)
  PROVE  r \in State
BY DEF ReadResults, State, BlankState, Errors, Content

\* Applying the outcome of an operation keeps the types of what it changes.
LEMMA ApplyType ==
  ASSUME TypeOK, NEW o \in Ops, NEW c \in BOOLEAN, Apply(o, c)
  PROVE  ops' \in [Ops -> Operation] /\ st' \in State /\ prepared' \in BOOLEAN /\ writeData' \in Content
<1>1. ops[o] \in Operation /\ ops[o].state \in State
  BY DEF TypeOK, Operation
<1>2. ops' \in [Ops -> Operation]
  BY <1>1 DEF Apply, TypeOK, Operation, State
<1> QED BY <1>1, <1>2 DEF Apply, UpdateState, Content

LEMMA UpdatePathType ==
  ASSUME TypeOK, NEW p \in Paths \cup {NoPath}, NEW fs \in Seq(Frame), UpdatePath(p, fs)
  PROVE  TypeOK'
<1>1. stack' \in Seq(Frame)
  BY PlainFrames, PushFrames DEF UpdatePath
<1>2. st' \in State /\ prepared' \in BOOLEAN
  BY BlankType DEF UpdatePath, UpdateState, TypeOK
<1>3. notify' \in BOOLEAN /\ wanted' \in Content \cup {NoFile}
  BY DEF UpdatePath, UpdateWatchedFiles, TypeOK
<1> QED BY <1>1, <1>2, <1>3 DEF UpdatePath, TypeOK

\* Every variable keeps its type.
THEOREM TypeCorrect == Spec => []TypeOK
<1>1. Init => TypeOK
  <2> SUFFICES ASSUME Init PROVE TypeOK
    OBVIOUS
  <2>1. BlankState \in State
    BY DEF BlankState, State, Errors, Content
  <2>2. Gone \in Operation
    BY <2>1 DEF Gone, Operation, Kinds
  <2>3. opt \in OptionRecord
    BY ParameterTypes DEF Init, ParameterTypes
  <2>4. stack \in Seq(Frame)
    BY DEF Init
  <2> QED BY <2>1, <2>2, <2>3, <2>4 DEF Init, TypeOK, Content
<1>2. TypeOK /\ [Next]_vars => TypeOK'
  <2> SUFFICES ASSUME TypeOK, [Next]_vars PROVE TypeOK'
    OBVIOUS
  <2>1. ASSUME NEW p \in Paths \cup {NoPath}, SetPath(p) PROVE TypeOK'
    <3>1. [at |-> "setPath", path |-> p] \in Frame BY DEF Frame
    <3>2. stack' \in Seq(Frame)
      BY <2>1, <3>1, PlainFrames, PushFrames DEF SetPath, Call, TypeOK
    <3> QED BY <2>1, <3>2 DEF SetPath, TypeOK, view
  <2>2. ASSUME SetPathContinue PROVE TypeOK'
    <3>1. Top \in Frame /\ Top.at = "setPath" /\ Tail(stack) \in Seq(Frame)
      BY <2>2, TopFrame DEF SetPathContinue, TypeOK
    <3>2. Top.path \in Paths \cup {NoPath}
      BY <3>1 DEF Frame
    <3> QED BY <2>2, <3>1, <3>2, UpdatePathType DEF SetPathContinue
  <2>3. ASSUME Reload PROVE TypeOK'
    <3> QED BY <2>3, UpdatePathType DEF Reload, TypeOK
  <2>4. ASSUME WaitForJobCall PROVE TypeOK'
    <3>1. stack' \in Seq(Frame)
      BY <2>4, PlainFrames, PushFrames DEF WaitForJobCall, Call, TypeOK
    <3> QED BY <2>4, <3>1 DEF WaitForJobCall, TypeOK, view
  <2>5. ASSUME ReadAsync PROVE TypeOK'
    <3>1. stack' \in Seq(Frame)
      BY <2>5, PlainFrames, PushFrames DEF ReadAsync, Call, TypeOK
    <3> QED BY <2>5, <3>1 DEF ReadAsync, TypeOK, view
  <2>6. ASSUME ReadWaiting PROVE TypeOK'
    <3>1. stack' \in Seq(Frame)
      BY <2>6, PlainFrames, PushFrames DEF ReadWaiting, Call, TypeOK
    <3> QED BY <2>6, <3>1 DEF ReadWaiting, TypeOK, view
  <2>7. ASSUME ReadSync PROVE TypeOK'
    <3>1. stack' \in Seq(Frame)
      BY <2>7, PlainFrames, PushFrames DEF ReadSync, Call, TypeOK
    <3>2. st' \in State /\ prepared' = TRUE
      BY <2>7, ReadResultsType, BlankType DEF ReadSync, UpdateState, TypeOK
    <3> QED BY <2>7, <3>1, <3>2 DEF ReadSync, TypeOK
  <2>8. ASSUME NEW d \in Writes, SetData(d) PROVE TypeOK'
    <3>1. d \in Content
      BY ParameterTypes DEF ParameterTypes
    <3>2. [at |-> "saveAsync", data |-> d] \in Frame
      BY <3>1 DEF Frame
    <3>3. stack' \in Seq(Frame)
      <4>1. CASE d = WriteCmpData
        BY <2>8, <4>1 DEF SetData, TypeOK
      <4>2. CASE d # WriteCmpData /\ ~opt.blockWrites
        BY <2>8, <3>2, <4>2, PlainFrames, PushFrames DEF SetData, Call, TypeOK
      <4>3. CASE d # WriteCmpData /\ opt.blockWrites /\ live # NoOp
        BY <2>8, <4>3, PlainFrames, PushFrames DEF SetData, Call, TypeOK
      <4>4. CASE d # WriteCmpData /\ opt.blockWrites /\ live = NoOp
        BY <2>8, <4>4, PlainFrames, PushFrames DEF SetData, Call, TypeOK
      <4>5. opt.blockWrites \in BOOLEAN
        BY DEF TypeOK, OptionRecord
      <4> QED BY <4>1, <4>2, <4>3, <4>4, <4>5
    <3>4. writeData' \in Content
      BY <2>8, <3>1 DEF SetData, TypeOK
    <3> QED BY <2>8, <3>1, <3>3, <3>4 DEF SetData, TypeOK
  <2>9. ASSUME NEW d \in Writes, SetDataNoPath(d) PROVE TypeOK'
    <3> QED BY <2>9 DEF SetDataNoPath, TypeOK, Content
  <2>10. ASSUME NEW o \in Options, SetOption(o) PROVE TypeOK'
    <3>1. stack' \in Seq(Frame)
      BY <2>10, PlainFrames, PushFrames DEF SetOption, Call, TypeOK
    <3>2. opt' \in OptionRecord
      BY <2>10, ParameterTypes DEF SetOption, ParameterTypes
    <3>3. notify' \in BOOLEAN
      BY <2>10 DEF SetOption, UpdateWatchedFiles, TypeOK
    <3> QED BY <2>10, <3>1, <3>2, <3>3 DEF SetOption, TypeOK, view
  <2>11. ASSUME CancelAsync PROVE TypeOK'
    <3>1. Tail(stack) \in Seq(Frame)
      BY <2>11, TopFrame DEF CancelAsync, TypeOK
    <3>2. CASE live = NoOp
      BY <2>11, <3>1, <3>2 DEF CancelAsync, Return, TypeOK, LiveReader, LiveWriter
    <3>3. CASE LiveReader
      <4>0. [ops[live] EXCEPT !.cancel = TRUE, !.conn = FALSE] \in Operation
        BY <3>3 DEF LiveReader, TypeOK, Operation
      <4>1. ops' \in [Ops -> Operation]
        BY <2>11, <3>3, <4>0 DEF CancelAsync, TypeOK, LiveReader, LiveWriter
      <4> QED BY <2>11, <3>1, <3>3, <4>1 DEF CancelAsync, Return, TypeOK, LiveReader, LiveWriter
    <3>4. CASE LiveWriter
      <4>0. [ops[live] EXCEPT !.cancel = TRUE] \in Operation
        BY <3>4 DEF LiveWriter, TypeOK, Operation
      <4>1. ops' \in [Ops -> Operation]
        BY <2>11, <3>4, <4>0 DEF CancelAsync, TypeOK, LiveReader, LiveWriter
      <4>2. stack' \in Seq(Frame)
        BY <2>11, <3>1, <3>4, PlainFrames, PushFrames DEF CancelAsync, Goto, LiveReader, LiveWriter
      <4> QED BY <2>11, <3>4, <4>1, <4>2 DEF CancelAsync, TypeOK, LiveReader, LiveWriter
    <3>5. live = NoOp \/ LiveReader \/ LiveWriter
      BY DEF TypeOK, LiveReader, LiveWriter, Operation, Kinds
    <3> QED BY <3>2, <3>3, <3>4, <3>5
  <2>12. ASSUME WaitForJob PROVE TypeOK'
    <3>1. live \in Ops
      BY <2>12 DEF WaitForJob, TypeOK
    <3>2. CompletionSignal(ops[live].kind, ops[live].state.error) \in Signals
      BY <3>1, SignalType DEF TypeOK
    <3>3. Tail(stack) \in Seq(Frame)
      BY <2>12, TopFrame DEF WaitForJob, TypeOK
    <3>4. stack' \in Seq(Frame)
      <4>1. [at |-> "emitted", sig |-> CompletionSignal(ops[live].kind, ops[live].state.error), op |-> live] \in Frame
        BY <3>1, <3>2 DEF Frame
      <4> QED BY <2>12, <3>3, <4>1, PushFrames DEF WaitForJob, Goto
    <3> QED BY <2>12, <3>1, <3>4, ApplyType DEF WaitForJob, TypeOK
  <2>13. ASSUME WaitForJobDone PROVE TypeOK'
    <3>1. Tail(stack) \in Seq(Frame)
      BY <2>13, TopFrame DEF WaitForJobDone, TypeOK
    <3> QED BY <2>13, <3>1 DEF WaitForJobDone, Return, TypeOK, view
  <2>14. ASSUME SyncDone PROVE TypeOK'
    <3>1. Tail(stack) \in Seq(Frame)
      BY <2>14, TopFrame DEF SyncDone, TypeOK
    <3> QED BY <2>14, <3>1 DEF SyncDone, Return, TypeOK, view
  <2>15. ASSUME LoadAsync PROVE TypeOK'
    <3>1. Tail(stack) \in Seq(Frame)
      BY <2>15, TopFrame DEF LoadAsync, TypeOK
    <3>2. stack' \in Seq(Frame)
      BY <2>15, <3>1, PlainFrames, PushFrames DEF LoadAsync, Goto, Return
    <3> QED BY <2>15, <3>2 DEF LoadAsync, TypeOK, view
  <2>16. ASSUME StartLoad PROVE TypeOK'
    <3>1. Tail(stack) \in Seq(Frame)
      BY <2>16, TopFrame DEF StartLoad, TypeOK
    <3>2. CASE target = NoPath
      BY <2>16, <3>1, <3>2, BlankType DEF StartLoad, Return, UpdateState, TypeOK
    <3>3. CASE target # NoPath
      <4>1. NewOp("reader", target, Empty) \in Operation
        BY NewOpType DEF TypeOK, Kinds, Content
      <4>2. PICK o \in Ops : ops' = [ops EXCEPT ![o] = NewOp("reader", target, Empty)] /\ live' = o
        BY <2>16, <3>3 DEF StartLoad
      <4>3. ops' \in [Ops -> Operation] /\ live' \in Ops
        BY <4>1, <4>2 DEF TypeOK
      <4> QED BY <2>16, <3>1, <3>3, <4>3 DEF StartLoad, Return, TypeOK
    <3> QED BY <3>2, <3>3
  <2>17. ASSUME SaveAsync PROVE TypeOK'
    <3>1. Top \in Frame /\ Top.at = "saveAsync" /\ Tail(stack) \in Seq(Frame)
      BY <2>17, TopFrame DEF SaveAsync, TypeOK
    <3>2. Top.data \in Content
      BY <3>1 DEF Frame
    <3>3. NewOp("writer", target, Top.data) \in Operation
      BY <3>2, NewOpType DEF TypeOK, Kinds
    <3>4. PICK o \in Ops : ops' = [ops EXCEPT ![o] = NewOp("writer", target, Top.data)] /\ live' = o
      BY <2>17 DEF SaveAsync
    <3>5. ops' \in [Ops -> Operation] /\ live' \in Ops
      BY <3>3, <3>4 DEF TypeOK
    <3> QED BY <2>17, <3>1, <3>5 DEF SaveAsync, Return, TypeOK
  <2>18. ASSUME SaveSync PROVE TypeOK'
    <3>1. stack' \in Seq(Frame)
      BY <2>18, TopFrame, PlainFrames, PushFrames DEF SaveSync, Goto, TypeOK
    <3> DEFINE r == [path |-> target, data |-> writeData, exists |-> FileAt(target) # NoFile,
                     error |-> "Success"]
    <3>2. r \in State /\ \A e \in Errors : [r EXCEPT !.error = e] \in State
      BY DEF State, TypeOK, Errors
    <3>3. st' \in State /\ prepared' = TRUE
      <4> HIDE DEF r
      <4> QED BY <2>18, <3>2 DEF SaveSync, UpdateState, Errors, r
    <3>4. disk' \in [Paths -> Content \cup {NoFile}] /\ notify' \in BOOLEAN
      BY <2>18 DEF SaveSync, Touch, TypeOK
    <3> HIDE DEF r
    <3> QED BY <2>18, <3>1, <3>3, <3>4 DEF SaveSync, TypeOK, Content
  <2>19. ASSUME NEW o \in Ops, OperationFinished(o) PROVE TypeOK'
    <3>1. CompletionSignal(ops[o].kind, ops[o].state.error) \in Signals
      BY SignalType DEF TypeOK
    <3>2. [at |-> "finished", sig |-> CompletionSignal(ops[o].kind, ops[o].state.error), op |-> o] \in Frame
      BY <3>1 DEF Frame
    <3>3. stack' \in Seq(Frame)
      BY <2>19, <3>2, PushFrames DEF OperationFinished, Call, TypeOK
    <3> QED BY <2>19, <3>3, ApplyType DEF OperationFinished, TypeOK
  <2>20. ASSUME OperationFinishedDone PROVE TypeOK'
    <3>1. Tail(stack) \in Seq(Frame)
      BY <2>20, TopFrame DEF OperationFinishedDone, TypeOK
    <3>2. ops' \in [Ops -> Operation]
      BY <2>20, GoneType DEF OperationFinishedDone, TypeOK
    <3> QED BY <2>20, <3>1, <3>2 DEF OperationFinishedDone, Return, TypeOK
  <2>21. ASSUME NEW o \in Ops, DroppedFinished(o) PROVE TypeOK'
    <3>1. ops' \in [Ops -> Operation]
      BY <2>21, GoneType DEF DroppedFinished, TypeOK
    <3> QED BY <2>21, <3>1 DEF DroppedFinished, TypeOK, view
  <2>22. ASSUME FileChanged PROVE TypeOK'
    <3>1. stack' \in Seq(Frame)
      <4>1. <<>> \in Seq(Frame) /\ F("loadAsync") \in Frame
        BY PlainFrames
      <4>2. <<F("loadAsync")>> \in Seq(Frame)
        BY <4>1
      <4> QED BY <2>22, <4>1, <4>2 DEF FileChanged, TypeOK
    <3> QED BY <2>22, <3>1 DEF FileChanged, TypeOK
  <2>23. ASSUME NEW p \in Paths, NEW c \in Data \cup {NoFile}, ExternalWrite(p, c) PROVE TypeOK'
    <3>1. disk' \in [Paths -> Content \cup {NoFile}] /\ notify' \in BOOLEAN
      BY <2>23 DEF ExternalWrite, Touch, TypeOK, Content
    <3> QED BY <2>23, <3>1 DEF ExternalWrite, TypeOK, view
  <2>24. ASSUME NEW o \in Ops, Canceled(o) PROVE TypeOK'
    <3>1. ops[o] \in Operation /\ ops[o].state \in State
      BY DEF TypeOK, Operation
    <3>o. ops \in [Ops -> Operation]
      BY DEF TypeOK
    <3>2. ops' \in [Ops -> Operation]
      BY <2>24, <3>1, <3>o, PostType DEF Canceled
    <3> QED BY <2>24, <3>2 DEF Canceled, TypeOK, view
  <2>25. ASSUME NEW o \in Ops, ReaderCheck(o) PROVE TypeOK'
    <3>1. ops[o] \in Operation /\ ops[o].state \in State
      BY DEF TypeOK, Operation
    <3>o. ops \in [Ops -> Operation]
      BY DEF TypeOK
    <3>2. [ops[o].state EXCEPT !.exists = FileAt(ops[o].state.path) # NoFile] \in State
      BY <3>1 DEF State
    <3> DEFINE s == [ops[o].state EXCEPT !.exists = FileAt(ops[o].state.path) # NoFile]
    <3>3. s \in State
      BY <3>2
    <3>4. ASSUME ops' = [ops EXCEPT ![o].pc = "open", ![o].state = s] PROVE ops' \in [Ops -> Operation]
      <4>1. [ops[o] EXCEPT !.pc = "open", !.state = s] \in Operation
        BY <3>1, <3>3 DEF Operation
      <4> QED BY <3>o, <3>4, <4>1
    <3>5. ASSUME \E e \in {"FileNotFound", "NotAFile", "PermissionDenied"} : Post(o, [s EXCEPT !.error = e]) PROVE ops' \in [Ops -> Operation]
      <4>1. PICK e \in Errors : Post(o, [s EXCEPT !.error = e])
        BY <3>5 DEF Errors
      <4>2. [s EXCEPT !.error = e] \in State
        BY <3>o, <3>3, FailedType
      <4> HIDE DEF s
      <4> QED BY <3>o, <4>1, <4>2, PostType
    <3>6. ops' \in [Ops -> Operation]
      BY <2>25, <3>4, <3>5 DEF ReaderCheck
    <3> QED BY <2>25, <3>6 DEF ReaderCheck, TypeOK, view
  <2>26. ASSUME NEW o \in Ops, ReaderRead(o) PROVE TypeOK'
    <3>1. ops[o] \in Operation /\ ops[o].state \in State
      BY DEF TypeOK, Operation
    <3>o. ops \in [Ops -> Operation]
      BY DEF TypeOK
    <3>2. ASSUME Failed(o, {"Unknown"}) PROVE ops' \in [Ops -> Operation]
      <4>1. [ops[o].state EXCEPT !.error = "Unknown"] \in State
        BY <3>1, <3>o, FailedType DEF Errors
      <4>2. Post(o, [ops[o].state EXCEPT !.error = "Unknown"])
        BY <3>2 DEF Failed
      <4> QED BY <3>o, <4>1, <4>2, PostType
    <3> DEFINE c == FileAt(ops[o].state.path)
    <3>3. ASSUME c # NoFile /\ Post(o, [ops[o].state EXCEPT !.data = c]) PROVE ops' \in [Ops -> Operation]
      <4>1. c \in Content
        BY <3>1, <3>3 DEF FileAt, TypeOK, State
      <4>2. [ops[o].state EXCEPT !.data = c] \in State
        BY <3>1, <4>1 DEF State
      <4> HIDE DEF c
      <4> QED BY <3>o, <3>3, <4>2, PostType
    <3>4. ops' \in [Ops -> Operation]
      BY <2>26, <3>2, <3>3 DEF ReaderRead
    <3> QED BY <2>26, <3>4 DEF ReaderRead, TypeOK, view
  <2>27. ASSUME NEW o \in Ops, WriterCheck(o) PROVE TypeOK'
    <3>1. ops[o] \in Operation /\ ops[o].state \in State
      BY DEF TypeOK, Operation
    <3>o. ops \in [Ops -> Operation]
      BY DEF TypeOK
    <3>2. [ops[o].state EXCEPT !.exists = FileAt(ops[o].state.path) # NoFile] \in State
      BY <3>1 DEF State
    <3> DEFINE s == [ops[o].state EXCEPT !.exists = FileAt(ops[o].state.path) # NoFile]
    <3>3. s \in State
      BY <3>2
    <3>4. ASSUME ops' = [ops EXCEPT ![o].pc = "open", ![o].state = s] PROVE ops' \in [Ops -> Operation]
      <4>1. [ops[o] EXCEPT !.pc = "open", !.state = s] \in Operation
        BY <3>1, <3>3 DEF Operation
      <4> QED BY <3>o, <3>4, <4>1
    <3>5. ASSUME Post(o, [s EXCEPT !.error = "PermissionDenied"]) PROVE ops' \in [Ops -> Operation]
      <4>1. [s EXCEPT !.error = "PermissionDenied"] \in State
        BY <3>o, <3>3, FailedType DEF Errors
      <4> HIDE DEF s
      <4> QED BY <3>o, <3>5, <4>1, PostType
    <3>6. ops' \in [Ops -> Operation]
      BY <2>27, <3>4, <3>5 DEF WriterCheck
    <3> QED BY <2>27, <3>6 DEF WriterCheck, TypeOK, view
  <2>28. ASSUME NEW o \in Ops, WriterOpen(o) PROVE TypeOK'
    <3>1. ops[o] \in Operation /\ ops[o].state \in State
      BY DEF TypeOK, Operation
    <3>o. ops \in [Ops -> Operation]
      BY DEF TypeOK
    <3>2. ASSUME Failed(o, {"Unknown"}) PROVE ops' \in [Ops -> Operation]
      <4>1. [ops[o].state EXCEPT !.error = "Unknown"] \in State
        BY <3>1, <3>o, FailedType DEF Errors
      <4>2. Post(o, [ops[o].state EXCEPT !.error = "Unknown"])
        BY <3>2 DEF Failed
      <4> QED BY <3>o, <4>1, <4>2, PostType
    <3>3. ops' \in [Ops -> Operation]
      BY <2>28, <3>2, <3>o, StepType, LandType DEF WriterOpen
    <3>4. disk' \in [Paths -> Content \cup {NoFile}] /\ notify' \in BOOLEAN
      BY <2>28, <3>1 DEF WriterOpen, Land, Touch, TypeOK, State, Content
    <3> QED BY <2>28, <3>3, <3>4 DEF WriterOpen, TypeOK, view
  <2>29. ASSUME NEW o \in Ops, WriterWrite(o) PROVE TypeOK'
    <3>1. ops[o] \in Operation /\ ops[o].state \in State
      BY DEF TypeOK, Operation
    <3>o. ops \in [Ops -> Operation]
      BY DEF TypeOK
    <3>2. ASSUME Failed(o, {"Unknown"}) PROVE ops' \in [Ops -> Operation]
      <4>1. [ops[o].state EXCEPT !.error = "Unknown"] \in State
        BY <3>1, <3>o, FailedType DEF Errors
      <4>2. Post(o, [ops[o].state EXCEPT !.error = "Unknown"])
        BY <3>2 DEF Failed
      <4> QED BY <3>o, <4>1, <4>2, PostType
    <3>3. ops' \in [Ops -> Operation]
      BY <2>29, <3>2, <3>o, StepType, LandType DEF WriterWrite
    <3>4. disk' \in [Paths -> Content \cup {NoFile}] /\ notify' \in BOOLEAN
      BY <2>29, <3>1 DEF WriterWrite, Land, Touch, TypeOK, State, Content
    <3> QED BY <2>29, <3>3, <3>4 DEF WriterWrite, TypeOK, view
  <2>30. ASSUME NEW o \in Ops, WriterCommit(o) PROVE TypeOK'
    <3>1. ops[o] \in Operation /\ ops[o].state \in State
      BY DEF TypeOK, Operation
    <3>o. ops \in [Ops -> Operation]
      BY DEF TypeOK
    <3>2. ASSUME Failed(o, {"Unknown"}) PROVE ops' \in [Ops -> Operation]
      <4>1. [ops[o].state EXCEPT !.error = "Unknown"] \in State
        BY <3>1, <3>o, FailedType DEF Errors
      <4>2. Post(o, [ops[o].state EXCEPT !.error = "Unknown"])
        BY <3>2 DEF Failed
      <4> QED BY <3>o, <4>1, <4>2, PostType
    <3>3. ops' \in [Ops -> Operation]
      BY <2>30, <3>2, <3>o, StepType, LandType DEF WriterCommit
    <3>4. disk' \in [Paths -> Content \cup {NoFile}] /\ notify' \in BOOLEAN
      BY <2>30, <3>1 DEF WriterCommit, Land, Touch, TypeOK, State, Content
    <3> QED BY <2>30, <3>3, <3>4 DEF WriterCommit, TypeOK, view
  <2>31. CASE UNCHANGED vars
    BY <2>31 DEF TypeOK, vars, view
  <2> QED
    BY <2>1, <2>2, <2>3, <2>4, <2>5, <2>6, <2>7, <2>8, <2>9, <2>10, <2>11, <2>12, <2>13, <2>14, <2>15, <2>16, <2>17, <2>18, <2>19, <2>20, <2>21, <2>22, <2>23, <2>24, <2>25, <2>26, <2>27, <2>28, <2>29, <2>30, <2>31
    DEF Next, ShellCall, MainStep, PoolThread
<1> QED BY <1>1, <1>2, PTL DEF Spec

-----------------------------------------------------------------------------
(* Without handlers that call back into the view, operations are serial.   *)

\* The stacks that occur: a function, under it at most the one that will go on
\* when cancelAsync() or waitForJob() returns.
Shape ==
  \/ stack = <<>>
  \/ Len(stack) = 1 /\ stack[1].at # "cancelAsync"
  \/ /\ Len(stack) = 2
     /\ stack[1].at \in {"cancelAsync", "waitForJob", "emitted"}
     /\ stack[2].at \in {"setPath", "startLoad", "saveAsync", "saveSync"}

Announcing == At("emitted") \/ At("finished")

\* What goes on after cancelAsync() finds no live operation.
FramesIdle == At("setPath") \/ At("startLoad") \/ At("saveAsync") \/ At("saveSync") => live = NoOp

\* While an outcome is announced its operation is over and still the live one.
AnnouncingLive ==
  /\ Announcing => live # NoOp /\ ops[live].pc = "posted"
  /\ At("finished") => Top.op = live
  /\ At("emitted") => ~ops[live].conn

\* Until it is applied the live operation exists, reports to the view, and is
\* for the target path.
LiveIsCurrent ==
  live # NoOp /\ ~Announcing =>
    ops[live].pc # "gone" /\ ops[live].conn /\ ops[live].state.path = target

\* Only abandoned reads are active without being live.
OthersAbandoned ==
  \A o \in Ops : Active(o) /\ o # live => ops[o].kind = "reader" /\ ops[o].cancel

IInv == /\ Shape /\ FramesIdle /\ AnnouncingLive /\ LiveIsCurrent
        /\ ConnectedIsLive /\ OthersAbandoned /\ PreparedIsCurrent

LEMMA TailOfOne ==
  ASSUME stack \in Seq(Frame), Len(stack) = 1
  PROVE  Tail(stack) = <<>>
<1>1. stack # <<>>
  BY EmptySeq
<1>2. Tail(stack) \in Seq(Frame) /\ Len(Tail(stack)) = 0
  BY <1>1, HeadTailProperties
<1>3. Tail(stack) # <<>> => Len(Tail(stack)) \in Nat \ {0}
  BY <1>2, EmptySeq
<1> QED BY <1>2, <1>3

LEMMA TailOfTwo ==
  ASSUME stack \in Seq(Frame), Len(stack) = 2
  PROVE  /\ Tail(stack) \in Seq(Frame) /\ Len(Tail(stack)) = 1
         /\ Tail(stack)[1] = stack[2] /\ Tail(stack) # <<>>
<1>1. stack # <<>>
  BY EmptySeq
<1>2. Tail(stack) \in Seq(Frame) /\ Len(Tail(stack)) = 1 /\ Tail(stack)[1] = stack[2]
  BY <1>1, HeadTailProperties
<1>3. Tail(stack) # <<>>
  <2> SUFFICES ASSUME Tail(stack) = <<>> PROVE FALSE
    OBVIOUS
  <2>1. Len(Tail(stack)) = 0
    BY EmptySeq, Zenon
  <2> QED BY <1>2, <2>1
<1> QED BY <1>2, <1>3

LEMMA Pushed ==
  ASSUME NEW s \in Seq(Frame), NEW f \in Frame, NEW g \in Frame
  PROVE  /\ <<f>> \o s # <<>> /\ Head(<<f>> \o s) = f
         /\ Len(<<f>> \o s) = Len(s) + 1
         /\ (<<f>> \o s)[1] = f /\ (Len(s) = 1 => (<<f>> \o s)[2] = s[1])
         /\ <<f, g>> \o s # <<>> /\ Head(<<f, g>> \o s) = f
         /\ Len(<<f, g>> \o s) = Len(s) + 2
         /\ (<<f, g>> \o s)[1] = f /\ (<<f, g>> \o s)[2] = g
OBVIOUS

\* Returning leaves nothing, or a function that was waiting for cancelAsync().
LEMMA ReturnShape ==
  ASSUME stack \in Seq(Frame), Shape, stack # <<>>, Return
  PROVE  \/ stack' = <<>>
         \/ /\ stack' \in Seq(Frame) /\ Len(stack') = 1 /\ stack' # <<>>
            /\ Head(stack').at \in {"setPath", "startLoad", "saveAsync", "saveSync"}
            /\ Head(stack).at \in {"cancelAsync", "waitForJob", "emitted"}
            /\ stack'[1] = Head(stack')
<1>1. CASE Len(stack) = 1
  BY <1>1, TailOfOne DEF Return
<1>2. CASE Len(stack) = 2
  BY <1>2, TailOfTwo DEF Return, Shape
<1> QED BY <1>1, <1>2 DEF Shape

\* A step of the main thread that only calls, returns or invalidates.
LEMMA FrameStep ==
  ASSUME IInv, UNCHANGED <<ops, live, target, st>>, prepared' \in {prepared, FALSE},
         ~Announcing, ~Announcing', Shape', FramesIdle'
  PROVE  IInv'
<1>1. AnnouncingLive'
  BY DEF AnnouncingLive, Announcing
<1>2. LiveIsCurrent'
  BY DEF IInv, LiveIsCurrent
<1>3. ConnectedIsLive'
  BY DEF IInv, ConnectedIsLive
<1>4. OthersAbandoned'
  BY DEF IInv, OthersAbandoned, Active
<1>5. PreparedIsCurrent'
  BY DEF IInv, PreparedIsCurrent
<1> QED BY <1>1, <1>2, <1>3, <1>4, <1>5 DEF IInv

\* A step of a pool thread: it touches its own operation only, and neither the
\* path nor the connection of it.
LEMMA PoolStep ==
  ASSUME TypeOK, IInv, NEW o \in Ops, NEW op,
         ops' = [ops EXCEPT ![o] = op], Active(o),
         op.pc # "gone", op.kind = ops[o].kind, op.cancel = ops[o].cancel,
         op.conn = ops[o].conn, op.state.path = ops[o].state.path,
         UNCHANGED <<live, target, st, prepared, stack>>
  PROVE  IInv'
<1>1. /\ \A x \in Ops : x # o => ops'[x] = ops[x]
      /\ ops'[o] = op
  BY DEF TypeOK
<1>2. live' = live /\ target' = target /\ stack' = stack /\ st' = st /\ prepared' = prepared
  OBVIOUS
<1>3. live \in Ops \cup {NoOp} /\ NoOp \notin Ops
  BY DistinctValues DEF TypeOK, DistinctValues
<1>4. Shape' /\ FramesIdle' /\ PreparedIsCurrent' /\ (Announcing' <=> Announcing)
  BY <1>2 DEF IInv, Shape, FramesIdle, PreparedIsCurrent, Announcing, At, Top
<1>5. AnnouncingLive'
  BY <1>1, <1>2, <1>3, <1>4 DEF IInv, AnnouncingLive, Announcing, At, Top, Active
<1>6. LiveIsCurrent'
  BY <1>1, <1>2, <1>3, <1>4 DEF IInv, LiveIsCurrent
<1>7. ConnectedIsLive'
  BY <1>1, <1>2, <1>3 DEF IInv, ConnectedIsLive, Active
<1>8. OthersAbandoned'
  BY <1>1, <1>2, <1>3 DEF IInv, OthersAbandoned, Active
<1> QED BY <1>4, <1>5, <1>6, <1>7, <1>8 DEF IInv

\* What a pool thread posts or steps to is such a step.
LEMMA PoolThreadKeepsIInv ==
  ASSUME TypeOK, IInv, NEW o \in Ops, PoolThread(o)
  PROVE  IInv'
<1>1. Active(o)
  BY DEF PoolThread, Canceled, ReaderCheck, ReaderRead, WriterCheck, WriterOpen, WriterWrite,
         WriterCommit, At1, Active
<1>2. ops[o] \in Operation /\ ops[o].state \in State
  BY DEF TypeOK, Operation
<1>3. UNCHANGED <<live, target, st, prepared, stack>>
  BY DEF PoolThread, Canceled, ReaderCheck, ReaderRead, WriterCheck, WriterOpen, WriterWrite,
         WriterCommit, view
<1>4. ASSUME NEW s \in State, s.path = ops[o].state.path, Post(o, s) PROVE IInv'
  <2> DEFINE op == [ops[o] EXCEPT !.pc = "posted", !.state = s]
  <2>1. ops' = [ops EXCEPT ![o] = op]
    BY <1>4 DEF Post
  <2>2. op.pc # "gone" /\ op.kind = ops[o].kind /\ op.cancel = ops[o].cancel
        /\ op.conn = ops[o].conn /\ op.state.path = ops[o].state.path
    BY <1>2, <1>4 DEF Operation
  <2> HIDE DEF op
  <2> QED BY <1>1, <1>3, <2>1, <2>2, PoolStep
<1>5. ASSUME NEW pc \in {"open", "write", "commit", "posted"}, Step(o, pc) PROVE IInv'
  <2> DEFINE op == [ops[o] EXCEPT !.pc = pc]
  <2>1. ops' = [ops EXCEPT ![o] = op]
    BY <1>5 DEF Step
  <2>2. op.pc # "gone" /\ op.kind = ops[o].kind /\ op.cancel = ops[o].cancel
        /\ op.conn = ops[o].conn /\ op.state.path = ops[o].state.path
    BY <1>2 DEF Operation
  <2> HIDE DEF op
  <2> QED BY <1>1, <1>3, <2>1, <2>2, PoolStep
<1>6. ASSUME Land(o) PROVE IInv'
  <2> DEFINE op == [ops[o] EXCEPT !.pc = "posted"]
  <2>1. ops' = [ops EXCEPT ![o] = op]
    BY <1>6 DEF Land
  <2>2. op.pc # "gone" /\ op.kind = ops[o].kind /\ op.cancel = ops[o].cancel
        /\ op.conn = ops[o].conn /\ op.state.path = ops[o].state.path
    BY <1>2 DEF Operation
  <2> HIDE DEF op
  <2> QED BY <1>1, <1>3, <2>1, <2>2, PoolStep
<1>7. ASSUME NEW s \in State, s.path = ops[o].state.path, NEW e \in Errors,
             Post(o, [s EXCEPT !.error = e])
      PROVE  IInv'
  <2>1. [s EXCEPT !.error = e] \in State /\ [s EXCEPT !.error = e].path = ops[o].state.path
    BY <1>7 DEF State
  <2> QED BY <1>4, <1>7, <2>1
<1>8. ASSUME Failed(o, {"Unknown"}) PROVE IInv'
  BY <1>2, <1>7, <1>8 DEF Failed, Errors
<1> DEFINE s == [ops[o].state EXCEPT !.exists = FileAt(ops[o].state.path) # NoFile]
<1>9. s \in State /\ s.path = ops[o].state.path
  BY <1>2 DEF State
<1>10. ASSUME ops' = [ops EXCEPT ![o].pc = "open", ![o].state = s] PROVE IInv'
  <2> DEFINE op == [ops[o] EXCEPT !.pc = "open", !.state = s]
  <2>1. ops' = [ops EXCEPT ![o] = op]
    BY <1>10
  <2>2. op.pc # "gone" /\ op.kind = ops[o].kind /\ op.cancel = ops[o].cancel
        /\ op.conn = ops[o].conn /\ op.state.path = ops[o].state.path
    BY <1>2, <1>9 DEF Operation
  <2> HIDE DEF op
  <2> QED BY <1>1, <1>3, <2>1, <2>2, PoolStep
<1>11. CASE Canceled(o)
  BY <1>2, <1>4, <1>11 DEF Canceled
<1>12. CASE ReaderCheck(o) \/ WriterCheck(o)
  <2>1. \/ ops' = [ops EXCEPT ![o].pc = "open", ![o].state = s]
        \/ \E e \in Errors : Post(o, [s EXCEPT !.error = e])
    BY <1>12 DEF ReaderCheck, WriterCheck, Errors
  <2> HIDE DEF s
  <2> QED BY <1>7, <1>9, <1>10, <2>1
<1>13. CASE ReaderRead(o)
  <2> DEFINE c == FileAt(ops[o].state.path)
  <2>1. CASE c # NoFile /\ Post(o, [ops[o].state EXCEPT !.data = c])
    <3>1. c \in Content
      BY <1>2, <2>1 DEF FileAt, TypeOK, State
    <3>2. [ops[o].state EXCEPT !.data = c] \in State
          /\ [ops[o].state EXCEPT !.data = c].path = ops[o].state.path
      BY <1>2, <3>1 DEF State
    <3> QED BY <1>4, <2>1, <3>2
  <2> QED BY <1>8, <1>13, <2>1 DEF ReaderRead
<1>14. CASE WriterOpen(o) \/ WriterWrite(o) \/ WriterCommit(o)
  BY <1>5, <1>6, <1>8, <1>14 DEF WriterOpen, WriterWrite, WriterCommit
<1> QED BY <1>11, <1>12, <1>13, <1>14 DEF PoolThread

\* Calls from the event loop and their stacks.
LEMMA CalledWhenIdle ==
  ASSUME Handlers = FALSE, NEW f, CanCall(f)
  PROVE  stack = <<>>
BY DEF CanCall

LEMMA CallOne ==
  ASSUME stack = <<>>, NEW f \in Frame, f.at # "cancelAsync", Call(<<f>>)
  PROVE  Shape' /\ stack' # <<>> /\ Head(stack') = f
<1>1. <<>> \in Seq(Frame) /\ Len(<<>>) = 0
  BY EmptySeq
<1>2. stack' # <<>> /\ Head(stack') = f /\ Len(stack') = 1 /\ stack'[1] = f
  BY <1>1, Pushed DEF Call
<1> QED BY <1>2 DEF Shape

LEMMA CallTwo ==
  ASSUME NEW s, s = <<>>, NEW f \in Frame, f.at \in {"cancelAsync", "waitForJob"}, NEW g \in Frame,
         g.at \in {"setPath", "startLoad", "saveAsync", "saveSync"}, stack' = <<f, g>> \o s
  PROVE  Shape' /\ stack' # <<>> /\ Head(stack') = f
<1>1. <<>> \in Seq(Frame) /\ Len(<<>>) = 0
  BY EmptySeq
<1>2. stack' # <<>> /\ Head(stack') = f /\ Len(stack') = 2 /\ stack'[1] = f /\ stack'[2] = g
  BY <1>1, Pushed
<1> QED BY <1>2 DEF Shape

\* Replacing the innermost function by another keeps the shape.
LEMMA GotoOne ==
  ASSUME stack \in Seq(Frame), Shape, stack # <<>>, NEW f \in Frame, Goto(<<f>>),
         \/ f.at \in {"waitForJob", "emitted"}
         \/ f.at = "emittedSync" /\ Head(stack).at \notin {"cancelAsync", "waitForJob", "emitted"}
  PROVE  Shape' /\ stack' # <<>> /\ Head(stack') = f
<1>0. <<>> \in Seq(Frame) /\ Len(<<>>) = 0
  BY EmptySeq
<1>1. CASE Len(stack) = 1
  <2>1. stack' = <<f>> \o <<>>
    BY <1>1, TailOfOne DEF Goto
  <2>2. stack' # <<>> /\ Head(stack') = f /\ Len(stack') = 1 /\ stack'[1] = f
    BY <1>0, <2>1, Pushed
  <2> QED BY <2>2 DEF Shape
<1>2. CASE Len(stack) = 2
  <2>1. stack' = <<f>> \o Tail(stack) /\ Tail(stack) \in Seq(Frame) /\ Len(Tail(stack)) = 1
        /\ Tail(stack)[1] = stack[2]
    BY <1>2, TailOfTwo DEF Goto
  <2>2. stack' # <<>> /\ Head(stack') = f /\ Len(stack') = 2 /\ stack'[1] = f /\ stack'[2] = stack[2]
    BY <2>1, Pushed
  <2>3. Head(stack) = stack[1]
    BY <1>2
  <2> QED BY <1>2, <2>2, <2>3 DEF Shape
<1> QED BY <1>1, <1>2 DEF Shape

\* A function that cancelAsync() returns to is alone on the stack.
LEMMA Alone ==
  ASSUME stack \in Seq(Frame), Shape, stack # <<>>,
         Head(stack).at \notin {"cancelAsync", "waitForJob", "emitted"}
  PROVE  Tail(stack) = <<>>
<1>1. Head(stack) = stack[1]
  BY EmptySeq
<1> QED BY <1>1, TailOfOne DEF Shape

\* A step without a live operation, whose result is for the target path.
LEMMA IdleStep ==
  ASSUME TypeOK, IInv, live = NoOp, live' = NoOp, ops' = ops,
         prepared' => st'.path = target', ~Announcing', Shape'
  PROVE  IInv'
<1>1. FramesIdle' /\ AnnouncingLive' /\ LiveIsCurrent'
  BY DEF FramesIdle, AnnouncingLive, LiveIsCurrent, Announcing
<1>2. ConnectedIsLive'
  BY DEF IInv, ConnectedIsLive
<1>3. OthersAbandoned'
  BY DEF IInv, OthersAbandoned, Active
<1>4. PreparedIsCurrent'
  BY DEF PreparedIsCurrent
<1> QED BY <1>1, <1>2, <1>3, <1>4 DEF IInv

LEMMA NewOpFields ==
  ASSUME NEW k, NEW p, NEW d
  PROVE  NewOp(k, p, d).pc = "queued" /\ NewOp(k, p, d).conn /\ NewOp(k, p, d).state.path = p
<1>1. NewOp(k, p, d).pc = "queued" /\ NewOp(k, p, d).conn
  BY DEF NewOp
<1>2. NewOp(k, p, d).state.path = p
  BY DEF NewOp, BlankState
<1> QED BY <1>1, <1>2

\* Starting an operation on the target path.
LEMMA StartStep ==
  ASSUME TypeOK, IInv, live = NoOp, NEW o \in Ops, NEW k, NEW d,
         ops' = [ops EXCEPT ![o] = NewOp(k, target, d)], live' = o,
         stack' = <<>>, UNCHANGED <<target, prepared, st>>
  PROVE  IInv'
<1>1. /\ \A x \in Ops : x # o => ops'[x] = ops[x]
      /\ ops'[o] = NewOp(k, target, d)
  BY DEF TypeOK
<1>2. ops'[o].pc = "queued" /\ ops'[o].conn /\ ops'[o].state.path = target
  BY <1>1, NewOpFields
<1>3. ~Announcing' /\ Shape' /\ FramesIdle'
  BY DEF Announcing, At, Shape, FramesIdle
<1>4. AnnouncingLive' /\ LiveIsCurrent' /\ PreparedIsCurrent'
  BY <1>2, <1>3 DEF IInv, AnnouncingLive, LiveIsCurrent, PreparedIsCurrent, Announcing
<1>5. live \notin Ops
  BY DistinctValues DEF DistinctValues
<1>6. ConnectedIsLive'
  BY <1>1, <1>5 DEF IInv, ConnectedIsLive
<1>7. OthersAbandoned'
  BY <1>1, <1>5 DEF IInv, OthersAbandoned, Active
<1> QED BY <1>3, <1>4, <1>6, <1>7 DEF IInv

\* updatePath() without a live operation, or with the path as it was.
LEMMA UpdatePathStep ==
  ASSUME TypeOK, IInv, ~Announcing, NEW p \in Paths \cup {NoPath}, UpdatePath(p, <<>>),
         live = NoOp \/ p = target
  PROVE  IInv'
<1>0. <<>> \in Seq(Frame) /\ Len(<<>>) = 0
  BY EmptySeq
<1>1. ~Announcing' /\ Shape' /\ FramesIdle'
  <2>1. CASE stack' = <<>>
    BY <2>1 DEF Announcing, At, Shape, FramesIdle
  <2>2. CASE stack' = <<F("loadAsync")>> \o <<>>
    <3>1. F("loadAsync") \in Frame /\ F("loadAsync").at = "loadAsync"
      BY PlainFrames DEF F
    <3>2. stack' # <<>> /\ Head(stack') = F("loadAsync") /\ Len(stack') = 1 /\ stack'[1] = F("loadAsync")
      BY <1>0, <2>2, <3>1, Pushed
    <3> QED BY <3>1, <3>2 DEF Announcing, At, Top, Shape, FramesIdle
  <2> QED BY <2>1, <2>2 DEF UpdatePath
<1>2. ops' = ops /\ live' = live /\ target' = p
  BY DEF UpdatePath
<1>3. PreparedIsCurrent'
  BY <1>2 DEF UpdatePath, UpdateState, BlankState, PreparedIsCurrent
<1>4. AnnouncingLive' /\ LiveIsCurrent'
  BY <1>1, <1>2 DEF IInv, AnnouncingLive, LiveIsCurrent, Announcing
<1>5. ConnectedIsLive'
  BY <1>2 DEF IInv, ConnectedIsLive
<1>6. OthersAbandoned'
  BY <1>2 DEF IInv, OthersAbandoned, Active
<1> QED BY <1>1, <1>3, <1>4, <1>5, <1>6 DEF IInv

\* A step that changes neither the operations nor the view.
LEMMA EnterStep ==
  ASSUME IInv, stack = <<>>, UNCHANGED <<ops, live, target, st>>, prepared' \in {prepared, FALSE},
         Shape', stack' # <<>>,
         Head(stack').at \in {"cancelAsync", "waitForJob", "loadAsync", "emittedSync"}
  PROVE  IInv'
<1>1. ~Announcing /\ ~Announcing' /\ FramesIdle'
  BY DEF Announcing, At, Top, FramesIdle
<1> QED BY <1>1, FrameStep

LEMMA SameStack ==
  ASSUME IInv, stack' = stack, live' = live
  PROVE  Shape' /\ FramesIdle' /\ (Announcing' <=> Announcing)
BY DEF IInv, Shape, FramesIdle, Announcing, At, Top

LEMMA ShellCallKeepsIInv ==
  ASSUME Handlers = FALSE, TypeOK, IInv, ShellCall
  PROVE  IInv'
<1>1. ASSUME NEW p \in Paths \cup {NoPath}, SetPath(p) PROVE IInv'
  <2>1. stack = <<>>
    BY <1>1, CalledWhenIdle DEF SetPath
  <2>2. [at |-> "setPath", path |-> p] \in Frame
    BY DEF Frame
  <2>3. CASE LiveWriter
    <3>1. F("waitForJob") \in Frame /\ F("waitForJob").at = "waitForJob"
      BY PlainFrames DEF F
    <3>2. stack' = <<F("waitForJob"), [at |-> "setPath", path |-> p]>> \o <<>>
      BY <1>1, <2>1, <2>3 DEF SetPath, Call
    <3>3. Shape' /\ stack' # <<>> /\ Head(stack') = F("waitForJob")
      BY <2>2, <3>1, <3>2, CallTwo
    <3> QED BY <1>1, <2>1, <3>1, <3>3, EnterStep DEF SetPath, view
  <2>4. CASE ~LiveWriter
    <3>1. F("cancelAsync") \in Frame /\ F("cancelAsync").at = "cancelAsync"
      BY PlainFrames DEF F
    <3>2. stack' = <<F("cancelAsync"), [at |-> "setPath", path |-> p]>> \o <<>>
      BY <1>1, <2>1, <2>4 DEF SetPath, Call
    <3>3. Shape' /\ stack' # <<>> /\ Head(stack') = F("cancelAsync")
      BY <2>2, <3>1, <3>2, CallTwo
    <3> QED BY <1>1, <2>1, <3>1, <3>3, EnterStep DEF SetPath, view
  <2> QED BY <2>3, <2>4
<1>2. ASSUME NEW d \in Writes, SetData(d) PROVE IInv'
  <2>1. stack = <<>> /\ UNCHANGED <<ops, live, target, st, prepared>>
    BY <1>2, CalledWhenIdle DEF SetData
  <2>2. d \in Content
    BY ParameterTypes DEF ParameterTypes
  <2>3. [at |-> "saveAsync", data |-> d] \in Frame /\ F("saveSync") \in Frame /\ F("cancelAsync") \in Frame
    BY <2>2, PlainFrames DEF Frame
  <2>4. F("saveSync").at = "saveSync" /\ F("cancelAsync").at = "cancelAsync"
    BY DEF F
  <2>5. CASE stack' = stack
    BY <2>1, <2>5, SameStack, FrameStep DEF Announcing, At
  <2>6. CASE stack' = <<F("cancelAsync"), [at |-> "saveAsync", data |-> d]>> \o <<>>
    <3>1. Shape' /\ stack' # <<>> /\ Head(stack') = F("cancelAsync")
      BY <2>3, <2>4, <2>6, CallTwo
    <3> QED BY <2>1, <2>4, <3>1, EnterStep
  <2>7. CASE stack' = <<F("cancelAsync"), F("saveSync")>> \o <<>>
    <3>1. Shape' /\ stack' # <<>> /\ Head(stack') = F("cancelAsync")
      BY <2>3, <2>4, <2>7, CallTwo
    <3> QED BY <2>1, <2>4, <3>1, EnterStep
  <2>8. CASE live = NoOp /\ Call(<<F("saveSync")>>)
    <3>1. Shape' /\ stack' # <<>> /\ Head(stack') = F("saveSync")
      BY <2>1, <2>3, <2>4, <2>8, CallOne
    <3>2. ~Announcing /\ ~Announcing' /\ FramesIdle'
      BY <2>1, <2>4, <2>8, <3>1 DEF Announcing, At, Top, FramesIdle
    <3> QED BY <2>1, <3>1, <3>2, FrameStep
  <2>9. \/ stack' = stack
        \/ Call(<<F("cancelAsync"), [at |-> "saveAsync", data |-> d]>>)
        \/ Call(<<F("cancelAsync"), F("saveSync")>>)
        \/ live = NoOp /\ Call(<<F("saveSync")>>)
    <3>1. opt.blockWrites \in BOOLEAN
      BY DEF TypeOK, OptionRecord
    <3> QED BY <1>2, <3>1 DEF SetData
  <2> QED BY <2>1, <2>5, <2>6, <2>7, <2>8, <2>9 DEF Call
<1>3. ASSUME NEW d \in Writes, SetDataNoPath(d) PROVE IInv'
  <2>1. stack = <<>> /\ UNCHANGED <<ops, live, target, st, prepared, stack>>
    BY <1>3, CalledWhenIdle DEF SetDataNoPath
  <2> QED BY <2>1, SameStack, FrameStep DEF Announcing, At
<1>4. ASSUME NEW o \in Options, SetOption(o) PROVE IInv'
  <2>1. stack = <<>> /\ UNCHANGED <<ops, live, target, st, prepared>>
    BY <1>4, CalledWhenIdle DEF SetOption, view
  <2>2. CASE stack' = stack
    BY <2>1, <2>2, SameStack, FrameStep DEF Announcing, At
  <2>3. CASE Call(<<F("loadAsync")>>)
    <3>1. F("loadAsync") \in Frame /\ F("loadAsync").at = "loadAsync"
      BY PlainFrames DEF F
    <3> QED BY <2>1, <2>3, <3>1, CallOne, EnterStep
  <2> QED BY <1>4, <2>2, <2>3 DEF SetOption
<1>5. CASE Reload
  <2>1. stack = <<>> /\ UpdatePath(target, <<>>)
    BY <1>5, CalledWhenIdle DEF Reload
  <2> QED BY <2>1, UpdatePathStep DEF Announcing, At, TypeOK
<1>6. CASE WaitForJobCall \/ ReadWaiting
  <2>1. stack = <<>> /\ UNCHANGED <<ops, live, target, st, prepared>> /\ Call(<<F("waitForJob")>>)
    BY <1>6, CalledWhenIdle DEF WaitForJobCall, ReadWaiting, view
  <2>2. F("waitForJob") \in Frame /\ F("waitForJob").at = "waitForJob"
    BY PlainFrames DEF F
  <2> QED BY <2>1, <2>2, CallOne, EnterStep
<1>7. CASE ReadAsync
  <2>1. stack = <<>> /\ UNCHANGED <<ops, live, target, st, prepared>> /\ Call(<<F("loadAsync")>>)
    BY <1>7, CalledWhenIdle DEF ReadAsync, view
  <2>2. F("loadAsync") \in Frame /\ F("loadAsync").at = "loadAsync"
    BY PlainFrames DEF F
  <2> QED BY <2>1, <2>2, CallOne, EnterStep
<1>8. CASE ReadSync
  <2>1. stack = <<>> /\ live = NoOp /\ UNCHANGED <<ops, live, target>>
    BY <1>8, CalledWhenIdle DEF ReadSync
  <2>2. CASE target = NoPath
    <3>1. st'.path = target' /\ stack' = stack
      BY <1>8, <2>1, <2>2 DEF ReadSync, UpdateState, BlankState
    <3> QED BY <2>1, <3>1, SameStack, IdleStep DEF Announcing, At
  <2>3. CASE target # NoPath
    <3>1. Call(<<F("emittedSync")>>) /\ \E r \in ReadResults(target) : st' = r
      BY <1>8, <2>3 DEF ReadSync, UpdateState
    <3>2. st'.path = target'
      BY <2>1, <3>1 DEF ReadResults, BlankState
    <3>3. F("emittedSync") \in Frame /\ F("emittedSync").at = "emittedSync"
      BY PlainFrames DEF F
    <3>4. Shape' /\ stack' # <<>> /\ Head(stack') = F("emittedSync")
      BY <2>1, <3>1, <3>3, CallOne
    <3>5. ~Announcing'
      BY <3>3, <3>4 DEF Announcing, At, Top
    <3> QED BY <2>1, <3>2, <3>4, <3>5, IdleStep
  <2> QED BY <2>2, <2>3
<1> QED BY <1>1, <1>2, <1>3, <1>4, <1>5, <1>6, <1>7, <1>8 DEF ShellCall

\* Finishing: the result of the live operation is applied and announced.
LEMMA ApplyFacts ==
  ASSUME TypeOK, NEW o \in Ops, NEW c \in BOOLEAN, Apply(o, c)
  PROVE  /\ \A x \in Ops : x # o => ops'[x] = ops[x]
         /\ ops'[o].pc = ops[o].pc /\ ops'[o].kind = ops[o].kind
         /\ ops'[o].cancel = ops[o].cancel /\ ops'[o].conn = c
         /\ st'.path = ops[o].state.path
<1>1. ops[o] \in Operation /\ ops[o].state \in State
  BY DEF TypeOK, Operation
<1>2. DOMAIN ops = Ops
  BY DEF TypeOK
<1>3. \A x \in Ops : x # o => ops'[x] = ops[x]
  BY <1>2 DEF Apply
<1>4. ops'[o] = [[ops[o] EXCEPT !.state = [@ EXCEPT !.path = st.path]] EXCEPT !.told = TRUE, !.conn = c]
  BY <1>2 DEF Apply
<1>5. /\ ops'[o].pc = ops[o].pc /\ ops'[o].kind = ops[o].kind
      /\ ops'[o].cancel = ops[o].cancel /\ ops'[o].conn = c
  BY <1>1, <1>4 DEF Operation
<1> QED BY <1>3, <1>5 DEF Apply, UpdateState

LEMMA FinishKeepsIInv ==
  ASSUME TypeOK, IInv, WaitForJob \/ \E o \in Ops : OperationFinished(o)
  PROVE  IInv'
<1>1. /\ live \in Ops /\ ops[live].pc = "posted" /\ ~Announcing
      /\ \E c \in BOOLEAN : Apply(live, c)
      /\ UNCHANGED <<live, target>>
  BY DEF WaitForJob, OperationFinished, Announcing, At, TypeOK
<1>2. PICK c \in BOOLEAN : Apply(live, c)
  BY <1>1
<1>3. /\ \A x \in Ops : x # live => ops'[x] = ops[x]
      /\ ops'[live].pc = "posted" /\ ops'[live].conn = c
      /\ st'.path = ops[live].state.path
  BY <1>1, <1>2, ApplyFacts
<1>4. st'.path = target'
  BY <1>1, <1>3, DistinctValues DEF IInv, LiveIsCurrent, DistinctValues
<1>5. PreparedIsCurrent'
  BY <1>4 DEF PreparedIsCurrent
<1>6. ConnectedIsLive' /\ OthersAbandoned'
  <2>1. ConnectedIsLive'
    BY <1>1, <1>3 DEF IInv, ConnectedIsLive
  <2>2. OthersAbandoned'
    BY <1>1, <1>3 DEF IInv, OthersAbandoned, Active
  <2> QED BY <2>1, <2>2
<1>7. live # NoOp
  BY <1>1, DistinctValues DEF DistinctValues
<1> DEFINE sig == CompletionSignal(ops[live].kind, ops[live].state.error)
<1>8. sig \in Signals
  BY <1>1, SignalType DEF TypeOK
<1>9. CASE WaitForJob
  <2> DEFINE f == [at |-> "emitted", sig |-> sig, op |-> live]
  <2>1. f \in Frame /\ f.at = "emitted"
    BY <1>1, <1>8 DEF Frame
  <2>2. Goto(<<f>>) /\ stack # <<>> /\ stack \in Seq(Frame) /\ Shape
    BY <1>9 DEF WaitForJob, At, TypeOK, IInv
  <2> HIDE DEF f
  <2>3. Shape' /\ stack' # <<>> /\ Head(stack') = f
    BY <2>1, <2>2, GotoOne
  <2>4. ~ops'[live].conn
    <3>1. ops'[live].conn = FALSE
      BY <1>1, <1>9, ApplyFacts DEF WaitForJob
    <3> QED BY <3>1
  <2>5. AnnouncingLive' /\ LiveIsCurrent' /\ FramesIdle'
    BY <1>1, <1>3, <1>7, <2>1, <2>3, <2>4
    DEF AnnouncingLive, LiveIsCurrent, FramesIdle, Announcing, At, Top
  <2> QED BY <1>5, <1>6, <2>3, <2>5 DEF IInv
<1>10. ASSUME NEW o \in Ops, OperationFinished(o) PROVE IInv'
  <2> DEFINE f == [at |-> "finished", sig |-> sig, op |-> live]
  <2>1. f \in Frame /\ f.at = "finished" /\ f.op = live
    BY <1>1, <1>8 DEF Frame
  <2>2. Call(<<f>>) /\ stack = <<>>
    BY <1>10 DEF OperationFinished
  <2> HIDE DEF f
  <2>3. Shape' /\ stack' # <<>> /\ Head(stack') = f
    BY <2>1, <2>2, CallOne
  <2>5. AnnouncingLive' /\ LiveIsCurrent' /\ FramesIdle'
    BY <1>1, <1>3, <1>7, <2>1, <2>3
    DEF AnnouncingLive, LiveIsCurrent, FramesIdle, Announcing, At, Top
  <2> QED BY <1>5, <1>6, <2>3, <2>5 DEF IInv
<1> QED BY <1>9, <1>10

LEMMA MainStepKeepsIInv ==
  ASSUME TypeOK, IInv, MainStep
  PROVE  IInv'
<1>0. stack \in Seq(Frame) /\ Shape /\ NoOp \notin Ops
  BY DistinctValues DEF TypeOK, IInv, DistinctValues
<1>1. CASE SetPathContinue
  <2>1. At("setPath") /\ stack # <<>> /\ live = NoOp /\ ~Announcing
    BY <1>1 DEF SetPathContinue, At, IInv, FramesIdle, Announcing
  <2>2. Tail(stack) = <<>>
    BY <1>0, <2>1, Alone DEF At, Top
  <2>3. Top.path \in Paths \cup {NoPath}
    BY <2>1, TopFrame DEF TypeOK, Frame
  <2> QED BY <1>1, <2>1, <2>2, <2>3, UpdatePathStep DEF SetPathContinue
<1>2. CASE CancelAsync
  <2>1. At("cancelAsync") /\ stack # <<>> /\ ~Announcing /\ UNCHANGED <<target, st, prepared>>
    BY <1>2 DEF CancelAsync, At, Announcing
  <2>2. CASE live = NoOp
    <3>1. Return /\ live' = NoOp /\ ops' = ops
      BY <1>2, <2>2 DEF CancelAsync, LiveReader, LiveWriter
    <3>2. ~Announcing' /\ Shape'
      BY <1>0, <2>1, <3>1, ReturnShape DEF Announcing, At, Top, Shape
    <3> QED BY <2>1, <2>2, <3>1, <3>2, IdleStep DEF IInv, PreparedIsCurrent
  <2>3. CASE LiveReader
    <3>1. /\ live \in Ops /\ live' = NoOp /\ Return
          /\ ops' = [ops EXCEPT ![live].cancel = TRUE, ![live].conn = FALSE]
      BY <1>2, <2>3 DEF CancelAsync, LiveReader, LiveWriter, TypeOK
    <3>2. ops[live] \in Operation /\ DOMAIN ops = Ops
      BY <3>1 DEF TypeOK
    <3>3. /\ \A x \in Ops : x # live => ops'[x] = ops[x]
          /\ ops'[live] = [ops[live] EXCEPT !.cancel = TRUE, !.conn = FALSE]
      BY <3>1, <3>2
    <3>4. ops'[live].kind = "reader" /\ ops'[live].cancel /\ ~ops'[live].conn
      BY <2>3, <3>2, <3>3 DEF Operation, LiveReader
    <3>5. ~Announcing' /\ Shape'
      BY <1>0, <2>1, <3>1, ReturnShape DEF Announcing, At, Top, Shape
    <3>6. FramesIdle' /\ AnnouncingLive' /\ LiveIsCurrent'
      BY <3>1, <3>5 DEF FramesIdle, AnnouncingLive, LiveIsCurrent, Announcing
    <3>7. ConnectedIsLive'
      BY <3>1, <3>3, <3>4 DEF IInv, ConnectedIsLive
    <3>8. OthersAbandoned'
      BY <3>1, <3>3, <3>4 DEF IInv, OthersAbandoned, Active
    <3>9. PreparedIsCurrent'
      BY <2>1 DEF IInv, PreparedIsCurrent
    <3> QED BY <3>5, <3>6, <3>7, <3>8, <3>9 DEF IInv
  <2>4. CASE LiveWriter
    <3>1. /\ live \in Ops /\ live' = live /\ Goto(<<F("waitForJob")>>)
          /\ ops' = [ops EXCEPT ![live].cancel = TRUE]
      BY <1>2, <2>4 DEF CancelAsync, LiveReader, LiveWriter, TypeOK
    <3>2. ops[live] \in Operation /\ DOMAIN ops = Ops
      BY <3>1 DEF TypeOK
    <3>3. /\ \A x \in Ops : x # live => ops'[x] = ops[x]
          /\ ops'[live] = [ops[live] EXCEPT !.cancel = TRUE]
      BY <3>1, <3>2
    <3>4. /\ ops'[live].pc = ops[live].pc /\ ops'[live].conn = ops[live].conn
          /\ ops'[live].state = ops[live].state
      BY <3>2, <3>3 DEF Operation
    <3>5. F("waitForJob") \in Frame /\ F("waitForJob").at = "waitForJob"
      BY PlainFrames DEF F
    <3>6. Shape' /\ stack' # <<>> /\ Head(stack') = F("waitForJob")
      BY <1>0, <2>1, <3>1, <3>5, GotoOne
    <3>7. ~Announcing' /\ FramesIdle'
      BY <3>5, <3>6 DEF Announcing, At, Top, FramesIdle
    <3>8. AnnouncingLive'
      BY <3>7 DEF AnnouncingLive, Announcing
    <3>9. LiveIsCurrent'
      BY <2>1, <3>1, <3>4 DEF IInv, LiveIsCurrent
    <3>10. ConnectedIsLive'
      BY <3>1, <3>3, <3>4 DEF IInv, ConnectedIsLive
    <3>11. OthersAbandoned'
      BY <3>1, <3>3 DEF IInv, OthersAbandoned, Active
    <3>12. PreparedIsCurrent'
      BY <2>1 DEF IInv, PreparedIsCurrent
    <3> QED BY <3>6, <3>7, <3>8, <3>9, <3>10, <3>11, <3>12 DEF IInv
  <2>5. live = NoOp \/ LiveReader \/ LiveWriter
    BY DEF TypeOK, LiveReader, LiveWriter, Operation, Kinds
  <2> QED BY <2>2, <2>3, <2>4, <2>5
<1>3. CASE WaitForJobDone
  <2>1. /\ At("emitted") /\ stack # <<>> /\ live' = NoOp /\ Return
        /\ UNCHANGED <<ops, target, st, prepared>>
    BY <1>3 DEF WaitForJobDone, At
  <2>2. live # NoOp /\ ops[live].pc = "posted" /\ ~ops[live].conn
    BY <2>1 DEF IInv, AnnouncingLive, Announcing
  <2>3. ~Announcing' /\ Shape'
    BY <1>0, <2>1, ReturnShape DEF Announcing, At, Top, Shape
  <2>4. FramesIdle' /\ AnnouncingLive' /\ LiveIsCurrent'
    BY <2>1, <2>3 DEF FramesIdle, AnnouncingLive, LiveIsCurrent, Announcing
  <2>5. ConnectedIsLive'
    BY <2>1, <2>2 DEF IInv, ConnectedIsLive
  <2>6. OthersAbandoned'
    BY <2>1, <2>2 DEF IInv, OthersAbandoned, Active
  <2>7. PreparedIsCurrent'
    BY <2>1 DEF IInv, PreparedIsCurrent
  <2> QED BY <2>3, <2>4, <2>5, <2>6, <2>7 DEF IInv
<1>4. CASE SyncDone
  <2>1. At("emittedSync") /\ stack # <<>> /\ Return /\ UNCHANGED <<ops, live, target, st, prepared>>
    BY <1>4 DEF SyncDone, At, view
  <2>2. stack' = <<>>
    BY <1>0, <2>1, ReturnShape DEF At, Top
  <2>3. ~Announcing /\ ~Announcing' /\ Shape' /\ FramesIdle'
    BY <2>1, <2>2 DEF Announcing, At, Shape, FramesIdle
  <2> QED BY <2>1, <2>3, FrameStep
<1>5. CASE LoadAsync
  <2>1. At("loadAsync") /\ stack # <<>> /\ UNCHANGED <<ops, live, target, st, prepared>>
    BY <1>5 DEF LoadAsync, At, view
  <2>2. Tail(stack) = <<>>
    BY <1>0, <2>1, Alone DEF At, Top
  <2>3. CASE stack' = Tail(stack)
    <3>1. ~Announcing /\ ~Announcing' /\ Shape' /\ FramesIdle'
      BY <2>1, <2>2, <2>3 DEF Announcing, At, Shape, FramesIdle
    <3> QED BY <2>1, <3>1, FrameStep
  <2>4. CASE stack' = <<F("cancelAsync"), F("startLoad")>> \o <<>>
    <3>1. /\ F("cancelAsync") \in Frame /\ F("cancelAsync").at = "cancelAsync"
          /\ F("startLoad") \in Frame /\ F("startLoad").at = "startLoad"
      BY PlainFrames DEF F
    <3>2. Shape' /\ stack' # <<>> /\ Head(stack') = F("cancelAsync")
      BY <2>4, <3>1, CallTwo
    <3>3. ~Announcing /\ ~Announcing' /\ FramesIdle'
      BY <2>1, <3>1, <3>2 DEF Announcing, At, Top, FramesIdle
    <3> QED BY <2>1, <3>2, <3>3, FrameStep
  <2> QED BY <1>5, <2>2, <2>3, <2>4 DEF LoadAsync, Goto, Return
<1>6. CASE StartLoad \/ SaveAsync
  <2>1. /\ stack # <<>> /\ Return /\ live = NoOp /\ target' = target
        /\ Head(stack).at \in {"startLoad", "saveAsync"}
    BY <1>6 DEF StartLoad, SaveAsync, At, Top, IInv, FramesIdle
  <2>2. stack' = <<>>
    BY <1>0, <2>1, Alone DEF Return
  <2>3. CASE StartLoad /\ target = NoPath
    <3>1. ops' = ops /\ live' = NoOp /\ st'.path = target'
      BY <2>1, <2>3 DEF StartLoad, UpdateState, BlankState
    <3>2. ~Announcing' /\ Shape'
      BY <2>2 DEF Announcing, At, Shape
    <3> QED BY <2>1, <3>1, <3>2, IdleStep
  <2>4. CASE \E o \in Ops : \E k, d : /\ ops' = [ops EXCEPT ![o] = NewOp(k, target, d)] /\ live' = o
                                /\ UNCHANGED <<prepared, st>>
    BY <2>1, <2>2, <2>4, StartStep
  <2>5. StartLoad /\ target # NoPath =>
          \E o \in Ops : /\ ops' = [ops EXCEPT ![o] = NewOp("reader", target, Empty)] /\ live' = o
                        /\ UNCHANGED <<prepared, st>>
    BY DEF StartLoad
  <2>6. SaveAsync =>
          \E o \in Ops : /\ ops' = [ops EXCEPT ![o] = NewOp("writer", target, Top.data)] /\ live' = o
                        /\ UNCHANGED <<prepared, st>>
    BY DEF SaveAsync
  <2> QED BY <1>6, <2>3, <2>4, <2>5, <2>6
<1>7. CASE SaveSync
  <2>1. At("saveSync") /\ stack # <<>> /\ live = NoOp /\ UNCHANGED <<ops, live, target>>
    BY <1>7 DEF SaveSync, At, IInv, FramesIdle
  <2>2. st'.path = target'
    <3> DEFINE r == [path |-> target, data |-> writeData, exists |-> FileAt(target) # NoFile,
                     error |-> "Success"]
    <3>1. r.path = target /\ \A e : [r EXCEPT !.error = e].path = target
      OBVIOUS
    <3>2. st' = r \/ \E e : st' = [r EXCEPT !.error = e]
      <4> HIDE DEF r
      <4> QED BY <1>7 DEF SaveSync, UpdateState, r
    <3> HIDE DEF r
    <3> QED BY <2>1, <3>1, <3>2
  <2>3. F("emittedSync") \in Frame /\ F("emittedSync").at = "emittedSync"
    BY PlainFrames DEF F
  <2>4. Shape' /\ stack' # <<>> /\ Head(stack') = F("emittedSync")
    BY <1>0, <1>7, <2>1, <2>3, GotoOne DEF SaveSync, At, Top
  <2>5. ~Announcing'
    BY <2>3, <2>4 DEF Announcing, At, Top
  <2> QED BY <2>1, <2>2, <2>4, <2>5, IdleStep
<1>8. CASE OperationFinishedDone
  <2>1. /\ At("finished") /\ stack # <<>> /\ live' = NoOp /\ Return
        /\ ops' = [ops EXCEPT ![Top.op] = Gone]
        /\ UNCHANGED <<target, st, prepared>>
    BY <1>8 DEF OperationFinishedDone, At
  <2>2. live \in Ops /\ Top.op = live
    BY <2>1 DEF IInv, AnnouncingLive, Announcing, TypeOK
  <2>3. /\ \A x \in Ops : x # live => ops'[x] = ops[x]
        /\ ops'[live].pc = "gone"
    BY <2>1, <2>2 DEF TypeOK, Gone
  <2>4. ~Announcing' /\ Shape'
    BY <1>0, <2>1, ReturnShape DEF Announcing, At, Top, Shape
  <2>5. FramesIdle' /\ AnnouncingLive' /\ LiveIsCurrent'
    BY <2>1, <2>4 DEF FramesIdle, AnnouncingLive, LiveIsCurrent, Announcing
  <2>6. ConnectedIsLive'
    BY <2>1, <2>2, <2>3 DEF IInv, ConnectedIsLive
  <2>7. OthersAbandoned'
    BY <2>1, <2>2, <2>3 DEF IInv, OthersAbandoned, Active
  <2>8. PreparedIsCurrent'
    BY <2>1 DEF IInv, PreparedIsCurrent
  <2> QED BY <2>4, <2>5, <2>6, <2>7, <2>8 DEF IInv
<1>9. ASSUME NEW o \in Ops, DroppedFinished(o) PROVE IInv'
  <2>1. /\ stack = <<>> /\ ~(ops[o].conn /\ o = live)
        /\ ops' = [ops EXCEPT ![o] = Gone] /\ UNCHANGED <<live, target, st, prepared, stack>>
    BY <1>9 DEF DroppedFinished, view
  <2>2. /\ \A x \in Ops : x # o => ops'[x] = ops[x]
        /\ ops'[o].pc = "gone"
    BY <2>1 DEF TypeOK, Gone
  <2>3. ~Announcing /\ ~Announcing' /\ Shape' /\ FramesIdle'
    BY <2>1 DEF Announcing, At, Shape, FramesIdle
  <2>4. o # live
    BY <1>0, <2>1, <2>3 DEF IInv, LiveIsCurrent
  <2>5. AnnouncingLive'
    BY <2>3 DEF AnnouncingLive, Announcing
  <2>6. LiveIsCurrent'
    BY <1>0, <2>1, <2>2, <2>3, <2>4 DEF IInv, LiveIsCurrent, TypeOK
  <2>7. ConnectedIsLive'
    BY <2>1, <2>2 DEF IInv, ConnectedIsLive
  <2>8. OthersAbandoned'
    BY <2>1, <2>2 DEF IInv, OthersAbandoned, Active
  <2>9. PreparedIsCurrent'
    BY <2>1 DEF IInv, PreparedIsCurrent
  <2> QED BY <2>3, <2>5, <2>6, <2>7, <2>8, <2>9 DEF IInv
<1>10. CASE FileChanged
  <2>1. stack = <<>> /\ UNCHANGED <<ops, live, target, st>> /\ prepared' \in {prepared, FALSE}
    BY <1>10 DEF FileChanged
  <2>2. CASE stack' = <<>>
    <3>1. ~Announcing /\ ~Announcing' /\ Shape' /\ FramesIdle'
      BY <2>1, <2>2 DEF Announcing, At, Shape, FramesIdle
    <3> QED BY <2>1, <3>1, FrameStep
  <2>3. CASE stack' = <<F("loadAsync")>>
    <3>1. F("loadAsync").at = "loadAsync"
      BY DEF F
    <3>2. Shape' /\ stack' # <<>> /\ Head(stack') = F("loadAsync")
      BY <2>3, <3>1 DEF Shape
    <3> QED BY <2>1, <3>1, <3>2, EnterStep
  <2> QED BY <1>10, <2>1, <2>2, <2>3 DEF FileChanged
<1>11. CASE WaitForJob \/ \E o \in Ops : OperationFinished(o)
  BY <1>11, FinishKeepsIInv
<1> QED BY <1>1, <1>2, <1>3, <1>4, <1>5, <1>6, <1>7, <1>8, <1>9, <1>10, <1>11 DEF MainStep

\* With handlers that do not call back into the view, IInv is inductive.
LEMMA SerialInvariant ==
  ASSUME Handlers = FALSE
  PROVE  Spec => []IInv
<1>1. Init => IInv
  <2> SUFFICES ASSUME Init PROVE IInv
    OBVIOUS
  <2>1. stack = <<>> /\ live = NoOp /\ ~prepared /\ \A o \in Ops : ops[o].pc = "gone"
    BY DEF Init, Gone
  <2> QED
    BY <2>1 DEF IInv, Shape, FramesIdle, AnnouncingLive, LiveIsCurrent, ConnectedIsLive,
                OthersAbandoned, PreparedIsCurrent, Announcing, At, Active
<1>2. TypeOK /\ IInv /\ [Next]_vars => IInv'
  <2> SUFFICES ASSUME TypeOK, IInv, [Next]_vars PROVE IInv'
    OBVIOUS
  <2>1. CASE ShellCall
    BY <2>1, ShellCallKeepsIInv, Zenon
  <2>2. CASE MainStep
    BY <2>2, MainStepKeepsIInv
  <2>3. ASSUME NEW o \in Ops, PoolThread(o) PROVE IInv'
    BY <2>3, PoolThreadKeepsIInv
  <2>4. CASE UNCHANGED <<ops, live, target, st, prepared, stack>>
    <3>1. Shape' /\ FramesIdle' /\ (Announcing' <=> Announcing)
      BY <2>4, SameStack
    <3>2. AnnouncingLive'
      BY <2>4, <3>1 DEF IInv, AnnouncingLive, Announcing, At, Top
    <3>3. LiveIsCurrent'
      BY <2>4, <3>1 DEF IInv, LiveIsCurrent
    <3>4. ConnectedIsLive' /\ PreparedIsCurrent'
      BY <2>4 DEF IInv, ConnectedIsLive, PreparedIsCurrent
    <3>5. OthersAbandoned'
      BY <2>4 DEF IInv, OthersAbandoned, Active
    <3> QED BY <3>1, <3>2, <3>3, <3>4, <3>5 DEF IInv
  <2>5. ASSUME NEW p \in Paths, NEW c \in Data \cup {NoFile}, ExternalWrite(p, c) PROVE IInv'
    BY <2>4, <2>5 DEF ExternalWrite, view
  <2>6. CASE UNCHANGED vars
    BY <2>4, <2>6 DEF vars, view
  <2> QED BY <2>1, <2>2, <2>3, <2>5, <2>6 DEF Next
<1> QED BY <1>1, <1>2, TypeCorrect, PTL DEF Spec

\* The view never receives the result of an operation it has dropped.
THEOREM OnlyTheLiveOperationReports ==
  ASSUME Handlers = FALSE
  PROVE  Spec => []ConnectedIsLive
<1>1. IInv => ConnectedIsLive
  BY DEF IInv
<1> QED BY <1>1, SerialInvariant, PTL

\* A running write is alone with the reads it has made pointless.
THEOREM WritesAreAlone ==
  ASSUME Handlers = FALSE
  PROVE  Spec => []WriterAlone
<1>1. TypeOK /\ IInv => WriterAlone
  <2> SUFFICES ASSUME TypeOK, IInv, NEW w \in Ops, NEW o \in Ops,
                      ops[w].kind = "writer", Running(w), Active(o), o # w
               PROVE  ops[o].kind = "reader" /\ ops[o].cancel
    BY DEF WriterAlone
  <2>1. Active(w)
    BY DEF Running, Active
  <2>2. w = live
    BY <2>1 DEF IInv, OthersAbandoned
  <2> QED BY <2>2 DEF IInv, OthersAbandoned
<1> QED BY <1>1, SerialInvariant, TypeCorrect, PTL

\* A prepared view holds the outcome for its current path.
THEOREM PreparedViewIsCurrent ==
  ASSUME Handlers = FALSE
  PROVE  Spec => []PreparedIsCurrent
<1>1. IInv => PreparedIsCurrent
  BY DEF IInv
<1> QED BY <1>1, SerialInvariant, PTL

-----------------------------------------------------------------------------
(* With no other writer on the files and no failing call, and without such  *)
(* handlers, a view at rest shows its file.                                  *)

Held(p) == IF disk[p] = NoFile THEN Empty ELSE disk[p]

\* A function under way will put another result in the place of the last one.
Refreshing == {"setPath", "startLoad", "saveAsync", "saveSync"}
Coming     == \E i \in DOMAIN stack : stack[i].at \in Refreshing

\* What has been told to stop is followed by something else.
CancelledIsFollowed == live # NoOp /\ ops[live].cancel => Coming

\* The live operation, until its outcome is applied and unless it was told to
\* stop: a read found what the file holds, a write left there what it has.
LiveIsRight ==
  live # NoOp /\ ~Announcing /\ ~ops[live].cancel /\ ops[live].state.path # NoPath =>
    LET s == ops[live].state
    IN  /\ ops[live].pc = "posted" => s.data = Held(s.path)
        /\ ops[live].kind = "reader" /\ ops[live].pc = "open" => disk[s.path] # NoFile
        /\ ops[live].kind = "reader" /\ ops[live].pc # "posted" => s.data = Empty

\* What was applied last is what the file holds, unless more is under way.
AppliedIsRight ==
  prepared /\ target # NoPath /\ ~Coming /\ (live = NoOp \/ Announcing) => st.data = Held(target)

FInv == CancelledIsFollowed /\ LiveIsRight /\ AppliedIsRight

\* What the two lists of frames that occur say of Coming.
LEMMA ComingEmpty ==
  ASSUME stack = <<>> PROVE ~Coming
BY DEF Coming

LEMMA ComingBelow ==
  ASSUME stack \in Seq(Frame), Shape, stack # <<>>, Return,
         Head(stack).at \in {"cancelAsync", "waitForJob", "emitted"}
  PROVE  Coming <=> Coming'
<1>1. Head(stack) = stack[1] /\ stack[1].at \notin Refreshing
  BY DEF Refreshing
<1>2. CASE Len(stack) = 1
  <2>1. stack' = <<>> /\ DOMAIN stack = {1}
    BY <1>2, TailOfOne DEF Return
  <2> QED BY <1>1, <2>1 DEF Coming
<1>3. CASE Len(stack) = 2
  <2>1. /\ stack' \in Seq(Frame) /\ Len(stack') = 1 /\ stack'[1] = stack[2]
    BY <1>3, TailOfTwo DEF Return
  <2>2. DOMAIN stack = {1, 2} /\ DOMAIN stack' = {1}
    BY <1>3, <2>1
  <2> QED BY <1>1, <2>1, <2>2 DEF Coming
<1> QED BY <1>2, <1>3 DEF Shape

\* Below cancelAsync() something waits to refresh the view.
LEMMA ComingAfterCancel ==
  ASSUME stack \in Seq(Frame), Shape, At("cancelAsync")
  PROVE  Coming
<1>1. Head(stack) = stack[1] /\ stack # <<>>
  BY DEF At
<1>2. Len(stack) = 2 /\ stack[2].at \in Refreshing
  BY <1>1 DEF Shape, At, Top, Refreshing
<1>3. 2 \in DOMAIN stack
  BY <1>2
<1> QED BY <1>2, <1>3 DEF Coming

LEMMA ComingGoto ==
  ASSUME stack \in Seq(Frame), Shape, stack # <<>>, NEW f \in Frame, Goto(<<f>>),
         Head(stack).at \in {"cancelAsync", "waitForJob"}, f.at \notin Refreshing
  PROVE  Coming' <=> Coming
<1>0. <<>> \in Seq(Frame) /\ Len(<<>>) = 0
  BY EmptySeq
<1>1. Head(stack) = stack[1] /\ stack[1].at \notin Refreshing
  BY DEF Refreshing
<1>2. CASE Len(stack) = 1
  <2>1. stack' = <<f>> \o <<>>
    BY <1>2, TailOfOne DEF Goto
  <2>2. stack'[1] = f /\ DOMAIN stack' = {1} /\ DOMAIN stack = {1}
    BY <1>0, <1>2, <2>1
  <2> QED BY <1>1, <2>2 DEF Coming
<1>3. CASE Len(stack) = 2
  <2>1. stack' = <<f>> \o Tail(stack) /\ Tail(stack) \in Seq(Frame) /\ Len(Tail(stack)) = 1
        /\ Tail(stack)[1] = stack[2]
    BY <1>3, TailOfTwo DEF Goto
  <2>2. stack'[1] = f /\ stack'[2] = stack[2] /\ Len(stack') = 2 /\ stack' \in Seq(Frame)
    BY <2>1, Pushed
  <2>3. DOMAIN stack' = {1, 2} /\ DOMAIN stack = {1, 2}
    BY <1>3, <2>2
  <2> QED BY <1>1, <2>2, <2>3 DEF Coming
<1> QED BY <1>2, <1>3 DEF Shape

\* A function with nothing below it that is none of those.
LEMMA ComingAlone ==
  ASSUME stack \in Seq(Frame), Shape, stack # <<>>,
         Head(stack).at \in {"loadAsync", "emittedSync", "finished"}
  PROVE  ~Coming
<1>1. Head(stack) = stack[1]
  OBVIOUS
<1>2. Len(stack) = 1
  BY <1>1 DEF Shape
<1>3. DOMAIN stack = {1}
  BY <1>2
<1> QED BY <1>1, <1>3 DEF Coming, Refreshing

\* A step that changes neither files nor the live operation, and the view at
\* most so that it has to be refreshed.
LEMMA KeptStep ==
  ASSUME FInv, UNCHANGED <<disk, live>>, live # NoOp => ops'[live] = ops[live],
         prepared' /\ target' # NoPath => prepared /\ st' = st /\ target' = target,
         Announcing' <=> Announcing, Coming => Coming'
  PROVE  FInv'
<1>1. CancelledIsFollowed'
  BY DEF FInv, CancelledIsFollowed
<1>2. LiveIsRight'
  BY DEF FInv, LiveIsRight, Held
<1>3. AppliedIsRight'
  BY DEF FInv, AppliedIsRight, Held
<1> QED BY <1>1, <1>2, <1>3 DEF FInv

\* A step that leaves no live operation.
LEMMA NoneLiveStep ==
  ASSUME live' = NoOp, prepared' /\ target' # NoPath /\ ~Coming' => st'.data = Held(target)'
  PROVE  FInv'
BY DEF FInv, CancelledIsFollowed, LiveIsRight, AppliedIsRight

\* A call from the event loop that only enters a function.
LEMMA EnteredStep ==
  ASSUME FInv, stack = <<>>, UNCHANGED <<disk, ops, live, target, st>>, prepared' \in {prepared, FALSE},
         stack' = <<>> \/ Head(stack').at \notin {"emitted", "finished"}
  PROVE  FInv'
<1>1. ~Announcing /\ ~Announcing' /\ ~Coming
  BY ComingEmpty DEF Announcing, At, Top
<1>2. prepared' => prepared
  OBVIOUS
<1>3. UNCHANGED <<disk, live>> /\ ops' = ops /\ st' = st /\ target' = target
  OBVIOUS
<1> QED BY <1>1, <1>2, <1>3, KeptStep

LEMMA ShellCallKeepsFInv ==
  ASSUME Handlers = FALSE, Faults = FALSE, TypeOK, IInv, FInv, ShellCall
  PROVE  FInv'
<1>0. <<>> \in Seq(Frame)
  OBVIOUS
<1>1. ASSUME NEW p \in Paths \cup {NoPath}, SetPath(p) PROVE FInv'
  <2>1. stack = <<>> /\ UNCHANGED <<disk, ops, live, target, st, prepared>>
    BY <1>1, CalledWhenIdle DEF SetPath, view
  <2>2. [at |-> "setPath", path |-> p] \in Frame
    BY DEF Frame
  <2>3. PICK l \in {"waitForJob", "cancelAsync"} : stack' = <<F(l), [at |-> "setPath", path |-> p]>> \o <<>>
    BY <1>1, <2>1 DEF SetPath, Call
  <2>4. F(l) \in Frame /\ F(l).at = l
    BY PlainFrames DEF F
  <2>5. Head(stack') = F(l)
    BY <1>0, <2>2, <2>3, <2>4, Pushed
  <2> QED BY <2>1, <2>4, <2>5, EnteredStep
<1>2. ASSUME NEW d \in Writes, SetData(d) PROVE FInv'
  <2>1. stack = <<>> /\ UNCHANGED <<disk, ops, live, target, st, prepared>>
    BY <1>2, CalledWhenIdle DEF SetData
  <2>2. d \in Content
    BY ParameterTypes DEF ParameterTypes
  <2>3. [at |-> "saveAsync", data |-> d] \in Frame /\ F("saveSync") \in Frame /\ F("cancelAsync") \in Frame
    BY <2>2, PlainFrames DEF Frame
  <2>4. F("saveSync").at = "saveSync" /\ F("cancelAsync").at = "cancelAsync"
    BY DEF F
  <2>5. \/ stack' = <<>>
        \/ stack' = <<F("cancelAsync"), [at |-> "saveAsync", data |-> d]>> \o <<>>
        \/ stack' = <<F("cancelAsync"), F("saveSync")>> \o <<>>
        \/ stack' = <<F("saveSync")>> \o <<>>
    <3>1. opt.blockWrites \in BOOLEAN
      BY DEF TypeOK, OptionRecord
    <3> QED BY <1>2, <2>1, <3>1 DEF SetData, Call
  <2>6. stack' = <<>> \/ Head(stack') \in {F("cancelAsync"), F("saveSync")}
    BY <1>0, <2>3, <2>5, Pushed
  <2> QED BY <2>1, <2>4, <2>6, EnteredStep
<1>3. ASSUME NEW d \in Writes, SetDataNoPath(d) PROVE FInv'
  BY <1>3, CalledWhenIdle, EnteredStep DEF SetDataNoPath
<1>4. CASE (\E o \in Options : SetOption(o)) \/ WaitForJobCall \/ ReadWaiting \/ ReadAsync
  <2>1. stack = <<>> /\ UNCHANGED <<disk, ops, live, target, st, prepared>>
    BY <1>4, CalledWhenIdle DEF SetOption, WaitForJobCall, ReadWaiting, ReadAsync, view
  <2>2. stack' = <<>> \/ \E l \in {"loadAsync", "waitForJob"} : stack' = <<F(l)>> \o <<>>
    BY <1>4, <2>1 DEF SetOption, WaitForJobCall, ReadWaiting, ReadAsync, Call
  <2>3. \A l \in {"loadAsync", "waitForJob"} : F(l) \in Frame /\ F(l).at = l
    BY PlainFrames DEF F
  <2>4. stack' = <<>> \/ Head(stack').at \in {"loadAsync", "waitForJob"}
    BY <1>0, <2>2, <2>3, Pushed
  <2> QED BY <2>1, <2>4, EnteredStep
<1>5. CASE Reload
  <2>1. stack = <<>> /\ UpdatePath(target, <<>>)
    BY <1>5, CalledWhenIdle DEF Reload
  <2>2. F("loadAsync") \in Frame /\ F("loadAsync").at = "loadAsync"
    BY PlainFrames DEF F
  <2>3. stack' = <<>> \/ stack' = <<F("loadAsync")>> \o <<>>
    BY <2>1 DEF UpdatePath
  <2>4. stack' = <<>> \/ Head(stack').at = "loadAsync"
    BY <1>0, <2>2, <2>3, Pushed
  <2>5. ~Announcing /\ ~Announcing' /\ ~Coming
    BY <2>1, <2>4, ComingEmpty DEF Announcing, At, Top
  <2>6. UNCHANGED <<disk, ops, live>> /\ (prepared' => target' = NoPath)
    BY <2>1 DEF UpdatePath
  <2> QED BY <2>5, <2>6, KeptStep
<1>6. CASE ReadSync
  <2>1. live' = NoOp /\ disk' = disk /\ target' = target
    BY <1>6 DEF ReadSync
  <2>2. ASSUME target # NoPath PROVE st'.data = Held(target)
    <3>1. PICK r \in ReadResults(target) : st' = r
      BY <1>6, <2>2 DEF ReadSync, UpdateState
    <3>2. \/ disk[target] = NoFile /\ r.data = Empty
          \/ disk[target] # NoFile /\ r.data = disk[target]
      BY <3>1 DEF ReadResults, BlankState
    <3> QED BY <3>1, <3>2 DEF Held
  <2> QED BY <2>1, <2>2, NoneLiveStep DEF Held
<1> QED BY <1>1, <1>2, <1>3, <1>4, <1>5, <1>6 DEF ShellCall

\* The result of the live operation is applied.
LEMMA FinishKeepsFInv ==
  ASSUME TypeOK, IInv, FInv, WaitForJob \/ \E o \in Ops : OperationFinished(o)
  PROVE  FInv'
<1>1. /\ live \in Ops /\ live # NoOp /\ ops[live].pc = "posted" /\ ~Announcing
      /\ \E c \in BOOLEAN : Apply(live, c)
      /\ UNCHANGED <<live, target, disk>>
  BY DistinctValues DEF WaitForJob, OperationFinished, Announcing, At, TypeOK, DistinctValues
<1>2. ops'[live].cancel = ops[live].cancel /\ st' = ops[live].state
  BY <1>1, ApplyFacts DEF Apply, UpdateState
<1>3. ops[live].state.path = target
  BY <1>1 DEF IInv, LiveIsCurrent
<1> DEFINE sig == CompletionSignal(ops[live].kind, ops[live].state.error)
<1>4. sig \in Signals
  BY <1>1, SignalType DEF TypeOK
<1>5. Announcing' /\ (Coming' <=> Coming)
  <2>1. CASE WaitForJob
    <3> DEFINE f == [at |-> "emitted", sig |-> sig, op |-> live]
    <3>1. f \in Frame /\ f.at = "emitted"
      BY <1>1, <1>4 DEF Frame
    <3>2. Goto(<<f>>) /\ stack # <<>> /\ stack \in Seq(Frame) /\ Shape /\ Head(stack).at = "waitForJob"
      BY <2>1 DEF WaitForJob, At, TypeOK, IInv, Top
    <3> HIDE DEF f
    <3>3. stack' # <<>> /\ Head(stack') = f
      BY <3>1, <3>2, GotoOne
    <3>4. f.at \notin Refreshing
      BY <3>1 DEF Refreshing
    <3> QED BY <3>1, <3>2, <3>3, <3>4, ComingGoto DEF Announcing, At, Top
  <2>2. ASSUME NEW o \in Ops, OperationFinished(o) PROVE Announcing' /\ (Coming' <=> Coming)
    <3> DEFINE f == [at |-> "finished", sig |-> sig, op |-> live]
    <3>1. f \in Frame /\ f.at = "finished"
      BY <1>1, <1>4 DEF Frame
    <3>2. stack' = <<f>> \o <<>> /\ stack = <<>>
      BY <2>2 DEF OperationFinished, Call
    <3> HIDE DEF f
    <3>3. stack' = <<f>>
      BY <3>1, <3>2
    <3>4. stack' # <<>> /\ Head(stack') = f /\ DOMAIN stack' = {1} /\ stack'[1] = f
      BY <3>3
    <3> QED BY <3>1, <3>2, <3>4, ComingEmpty DEF Announcing, At, Top, Coming, Refreshing
  <2> QED BY <2>1, <2>2
<1>6. CancelledIsFollowed'
  BY <1>1, <1>2, <1>5 DEF FInv, CancelledIsFollowed
<1>7. LiveIsRight'
  BY <1>5 DEF LiveIsRight
<1>8. AppliedIsRight'
  <2> SUFFICES ASSUME target # NoPath, ~Coming PROVE ops[live].state.data = Held(target)
    BY <1>1, <1>2, <1>5 DEF AppliedIsRight, Held
  <2>1. ~ops[live].cancel
    BY <1>1 DEF FInv, CancelledIsFollowed
  <2> QED BY <1>1, <1>3, <2>1 DEF FInv, LiveIsRight
<1> QED BY <1>6, <1>7, <1>8 DEF FInv

\* A new operation has done nothing yet.
LEMMA StartedStep ==
  ASSUME TypeOK, live' \in Ops, ~ops'[live'].cancel, ops'[live'].pc = "queued", stack' = <<>>,
         ops'[live'].kind = "reader" => ops'[live'].state.data = Empty
  PROVE  FInv'
<1>1. ~Announcing' /\ live' # NoOp
  BY DistinctValues DEF Announcing, At, DistinctValues
<1> QED BY <1>1 DEF FInv, CancelledIsFollowed, LiveIsRight, AppliedIsRight

LEMMA NewOpData ==
  ASSUME NEW k, NEW p, NEW d
  PROVE  /\ NewOp(k, p, d).kind = k /\ ~NewOp(k, p, d).cancel
         /\ NewOp(k, p, d).pc = "queued" /\ NewOp(k, p, d).state.data = d
<1>1. NewOp(k, p, d).kind = k /\ ~NewOp(k, p, d).cancel /\ NewOp(k, p, d).pc = "queued"
  BY DEF NewOp
<1>2. NewOp(k, p, d).state.data = d
  BY DEF NewOp, BlankState
<1> QED BY <1>1, <1>2

LEMMA MainStepKeepsFInv ==
  ASSUME Faults = FALSE, TypeOK, IInv, FInv, MainStep
  PROVE  FInv'
<1>0. stack \in Seq(Frame) /\ Shape /\ NoOp \notin Ops
  BY DistinctValues DEF TypeOK, IInv, DistinctValues
<1>1. CASE SetPathContinue
  <2>1. live' = NoOp
    BY <1>1 DEF SetPathContinue, IInv, FramesIdle, UpdatePath
  <2>2. prepared' => target' = NoPath
    BY <1>1 DEF SetPathContinue, UpdatePath
  <2> QED BY <2>1, <2>2, NoneLiveStep
<1>2. CASE CancelAsync
  <2>1. /\ At("cancelAsync") /\ stack # <<>> /\ ~Announcing /\ UNCHANGED <<disk, target, st, prepared>>
        /\ Head(stack).at = "cancelAsync" /\ Coming
    BY <1>0, <1>2, ComingAfterCancel DEF CancelAsync, At, Announcing, Top
  <2>2. CASE live = NoOp \/ LiveReader
    <3>1. Return /\ live' = NoOp
      BY <1>2, <2>2 DEF CancelAsync, LiveReader, LiveWriter
    <3>2. Coming'
      BY <1>0, <2>1, <3>1, ComingBelow
    <3> QED BY <3>1, <3>2, NoneLiveStep
  <2>3. CASE LiveWriter
    <3>1. /\ live \in Ops /\ live' = live /\ Goto(<<F("waitForJob")>>)
          /\ ops' = [ops EXCEPT ![live].cancel = TRUE]
      BY <1>2, <2>3 DEF CancelAsync, LiveReader, LiveWriter, TypeOK
    <3>2. ops[live] \in Operation /\ DOMAIN ops = Ops
      BY <3>1 DEF TypeOK
    <3>3. ops'[live].cancel
      BY <3>1, <3>2 DEF Operation
    <3>4. F("waitForJob") \in Frame /\ F("waitForJob").at = "waitForJob" /\ "waitForJob" \notin Refreshing
      BY PlainFrames DEF F, Refreshing
    <3>5. Coming'
      BY <1>0, <2>1, <3>1, <3>4, ComingGoto
    <3> QED BY <3>3, <3>1, <3>5 DEF FInv, CancelledIsFollowed, LiveIsRight, AppliedIsRight
  <2>4. live = NoOp \/ LiveReader \/ LiveWriter
    BY DEF TypeOK, LiveReader, LiveWriter, Operation, Kinds
  <2> QED BY <2>2, <2>3, <2>4
<1>3. CASE WaitForJobDone \/ OperationFinishedDone
  <2>1. /\ live' = NoOp /\ Return /\ stack # <<>> /\ Announcing
        /\ Head(stack).at \in {"emitted", "finished"} /\ UNCHANGED <<disk, target, st, prepared>>
    BY <1>3 DEF WaitForJobDone, OperationFinishedDone, At, Announcing, Top
  <2>2. ~Coming' => ~Coming
    BY <1>0, <2>1, ComingBelow, ComingAlone
  <2>3. prepared' /\ target' # NoPath /\ ~Coming' => st'.data = Held(target)'
    BY <2>1, <2>2 DEF FInv, AppliedIsRight, Held
  <2> QED BY <2>1, <2>3, NoneLiveStep
<1>4. CASE SyncDone \/ LoadAsync
  <2>1. /\ stack # <<>> /\ Head(stack).at \in {"emittedSync", "loadAsync"}
        /\ UNCHANGED <<disk, ops, live, target, st, prepared>>
    BY <1>4 DEF SyncDone, LoadAsync, At, Top, view
  <2>2. Tail(stack) = <<>> /\ ~Coming /\ ~Announcing
    BY <1>0, <2>1, Alone, ComingAlone DEF Announcing, At, Top
  <2>3. stack' = <<>> \/ stack' = <<F("cancelAsync"), F("startLoad")>> \o <<>>
    BY <1>4, <2>2 DEF SyncDone, LoadAsync, Return, Goto
  <2>4. stack' = <<>> \/ (stack' # <<>> /\ Head(stack').at = "cancelAsync")
    <3>1. /\ F("cancelAsync") \in Frame /\ F("cancelAsync").at = "cancelAsync"
          /\ F("startLoad") \in Frame /\ <<>> \in Seq(Frame)
      BY PlainFrames DEF F
    <3> QED BY <2>3, <3>1, Pushed
  <2>5. ~Announcing'
    BY <2>4 DEF Announcing, At, Top
  <2> QED BY <2>1, <2>2, <2>5, KeptStep
<1>5. CASE StartLoad \/ SaveAsync
  <2>1. stack # <<>> /\ Return /\ live = NoOp /\ Head(stack).at \in {"startLoad", "saveAsync"}
    BY <1>5 DEF StartLoad, SaveAsync, At, Top, IInv, FramesIdle
  <2>2. stack' = <<>>
    BY <1>0, <2>1, Alone DEF Return
  <2>3. CASE StartLoad /\ target = NoPath
    <3>1. live' = NoOp /\ target' = NoPath
      BY <2>1, <2>3 DEF StartLoad
    <3> QED BY <3>1, NoneLiveStep
  <2>4. ASSUME NEW o \in Ops, NEW k, NEW d, ops' = [ops EXCEPT ![o] = NewOp(k, target, d)], live' = o,
               k = "reader" => d = Empty
        PROVE  FInv'
    <3>1. ops'[o] = NewOp(k, target, d)
      BY <2>4 DEF TypeOK
    <3> QED BY <2>2, <2>4, <3>1, NewOpData, StartedStep
  <2>5. StartLoad /\ target # NoPath =>
          \E o \in Ops : ops' = [ops EXCEPT ![o] = NewOp("reader", target, Empty)] /\ live' = o
    BY DEF StartLoad
  <2>6. SaveAsync =>
          \E o \in Ops : ops' = [ops EXCEPT ![o] = NewOp("writer", target, Top.data)] /\ live' = o
    BY DEF SaveAsync
  <2> QED BY <1>5, <2>3, <2>4, <2>5, <2>6
<1>6. CASE SaveSync
  <2>1. live' = NoOp /\ target' = target
    BY <1>6 DEF SaveSync, IInv, FramesIdle
  <2>2. ASSUME target # NoPath PROVE st'.data = Held(target)'
    <3>1. Touch(target, writeData) /\ st'.data = writeData
      BY <1>6, <2>2 DEF SaveSync, UpdateState
    <3>2. target \in Paths /\ DOMAIN disk = Paths
      BY <2>2 DEF TypeOK
    <3>3. disk'[target'] = writeData
      BY <2>1, <3>1, <3>2 DEF Touch
    <3>4. writeData # NoFile
      BY DistinctValues DEF TypeOK, DistinctValues
    <3> QED BY <2>1, <3>1, <3>3, <3>4 DEF Held
  <2> QED BY <2>1, <2>2, NoneLiveStep
<1>7. ASSUME NEW o \in Ops, DroppedFinished(o) PROVE FInv'
  <2>1. /\ stack = <<>> /\ ~(ops[o].conn /\ o = live)
        /\ ops' = [ops EXCEPT ![o] = Gone] /\ UNCHANGED <<disk, live, target, st, prepared, stack>>
    BY <1>7 DEF DroppedFinished, view
  <2>2. ~Announcing /\ ~Announcing' /\ ~Coming
    BY <2>1, ComingEmpty DEF Announcing, At
  <2>3. live # NoOp => ops'[live] = ops[live]
    BY <1>0, <2>1, <2>2 DEF IInv, LiveIsCurrent, TypeOK
  <2> QED BY <2>1, <2>2, <2>3, KeptStep
<1>8. CASE FileChanged
  <2>1. stack = <<>> /\ UNCHANGED <<disk, ops, live, target, st>> /\ prepared' \in {prepared, FALSE}
    BY <1>8 DEF FileChanged
  <2>2. stack' = <<>> \/ Head(stack').at = "loadAsync"
    BY <1>8, <2>1 DEF FileChanged, F
  <2> QED BY <2>1, <2>2, EnteredStep
<1>9. CASE WaitForJob \/ \E o \in Ops : OperationFinished(o)
  BY <1>9, FinishKeepsFInv
<1> QED BY <1>1, <1>2, <1>3, <1>4, <1>5, <1>6, <1>7, <1>8, <1>9 DEF MainStep

\* What a pool thread makes of the live operation.
LiveOpRight(op, d) ==
  ~op.cancel /\ op.state.path # NoPath =>
    /\ op.pc = "posted" => op.state.data = IF d[op.state.path] = NoFile THEN Empty ELSE d[op.state.path]
    /\ op.kind = "reader" /\ op.pc = "open" => d[op.state.path] # NoFile
    /\ op.kind = "reader" /\ op.pc # "posted" => op.state.data = Empty

LEMMA LiveOpStep ==
  ASSUME TypeOK, IInv, FInv, NEW o \in Ops, o = live, Active(o), NEW op,
         ops' = [ops EXCEPT ![o] = op], op.cancel = ops[o].cancel, LiveOpRight(op, disk'),
         UNCHANGED <<live, stack>>
  PROVE  FInv'
<1>1. live # NoOp /\ ops'[live] = op /\ live' = live /\ stack' = stack
  BY DistinctValues DEF TypeOK, DistinctValues
<1>2. ~Announcing /\ ~Announcing' /\ (Coming' <=> Coming)
  <2>1. ~Announcing
    BY DEF IInv, AnnouncingLive, Active
  <2> QED BY <1>1, <2>1 DEF Announcing, At, Top, Coming
<1>3. CancelledIsFollowed'
  BY <1>1, <1>2 DEF FInv, CancelledIsFollowed
<1>4. LiveIsRight'
  <2> SUFFICES ASSUME ~op.cancel, op.state.path # NoPath
               PROVE  LET s == op.state
                      IN  /\ op.pc = "posted" => s.data = IF disk'[s.path] = NoFile THEN Empty ELSE disk'[s.path]
                          /\ op.kind = "reader" /\ op.pc = "open" => disk'[s.path] # NoFile
                          /\ op.kind = "reader" /\ op.pc # "posted" => s.data = Empty
    BY <1>1 DEF LiveIsRight, Held
  <2> QED BY DEF LiveOpRight
<1>5. AppliedIsRight'
  BY <1>1, <1>2 DEF AppliedIsRight
<1> QED BY <1>3, <1>4, <1>5 DEF FInv

LEMMA PoolThreadKeepsFInv ==
  ASSUME Faults = FALSE, TypeOK, IInv, FInv, NEW o \in Ops, PoolThread(o)
  PROVE  FInv'
<1>1. Active(o) /\ UNCHANGED <<live, target, st, prepared, stack>>
  BY DEF PoolThread, Canceled, ReaderCheck, ReaderRead, WriterCheck, WriterOpen, WriterWrite,
         WriterCommit, At1, Active, view
<1>2. ops[o] \in Operation /\ ops[o].state \in State /\ DOMAIN ops = Ops
  BY DEF TypeOK, Operation
<1>3. CASE o # live
  <2>1. ops[o].cancel
    BY <1>1, <1>3 DEF IInv, OthersAbandoned
  <2>2. Canceled(o)
    BY <2>1 DEF PoolThread, ReaderCheck, ReaderRead, WriterCheck, WriterOpen, WriterWrite,
                WriterCommit, At1
  <2>3. /\ disk' = disk /\ live' = live /\ stack' = stack /\ st' = st /\ target' = target
        /\ prepared' = prepared /\ (live # NoOp => ops'[live] = ops[live])
    BY <1>1, <1>3, <2>2 DEF Canceled, Post, TypeOK
  <2>4. (Announcing' <=> Announcing) /\ (Coming' <=> Coming)
    BY <2>3 DEF Announcing, At, Top, Coming
  <2> QED BY <2>3, <2>4, KeptStep
<1>4. CASE o = live
  <2> DEFINE old == ops[o]
             c   == FileAt(old.state.path)
             s   == [old.state EXCEPT !.exists = c # NoFile]
  <2>1. live # NoOp /\ ~Announcing
    <3>1. live # NoOp
      BY <1>4, DistinctValues DEF DistinctValues
    <3> QED BY <1>1, <1>4, <3>1 DEF IInv, AnnouncingLive, Active
  <2>2. LiveOpRight(old, disk)
    BY <1>4, <2>1 DEF FInv, LiveIsRight, LiveOpRight, Held
  <2>3. old.state.path # NoPath => c = disk[old.state.path] /\ old.state.path \in Paths
    BY <1>2 DEF FileAt, State
  <2>4. ASSUME NEW op, ops' = [ops EXCEPT ![o] = op], op.cancel = old.cancel, LiveOpRight(op, disk')
        PROVE  FInv'
    BY <1>1, <1>4, <2>4, LiveOpStep
  <2> HIDE DEF c
  <2>5. CASE Canceled(o)
    <3> DEFINE op == [old EXCEPT !.pc = "posted", !.state = old.state]
    <3>1. ops' = [ops EXCEPT ![o] = op] /\ old.cancel
      BY <2>5 DEF Canceled, Post
    <3>2. op.cancel = old.cancel
      BY <1>2 DEF Operation
    <3> HIDE DEF op
    <3> QED BY <2>4, <3>1, <3>2 DEF LiveOpRight
  <2>6. CASE ReaderCheck(o)
    <3>1. old.kind = "reader" /\ old.pc = "queued" /\ disk' = disk
      BY <2>6 DEF ReaderCheck, At1
    <3>2. CASE c # NoFile /\ ops' = [ops EXCEPT ![o].pc = "open", ![o].state = s]
      <4> DEFINE op == [old EXCEPT !.pc = "open", !.state = s]
      <4>1. ops' = [ops EXCEPT ![o] = op]
        BY <3>2
      <4>2. /\ op.cancel = old.cancel /\ op.state.path = old.state.path /\ op.pc = "open"
            /\ op.state.data = old.state.data
        BY <1>2 DEF Operation, State
      <4>3. LiveOpRight(op, disk')
        <5> HIDE DEF op, s
        <5> QED BY <2>2, <2>3, <3>1, <3>2, <4>2 DEF LiveOpRight
      <4> HIDE DEF op
      <4> QED BY <2>4, <4>1, <4>2, <4>3
    <3>3. CASE c = NoFile /\ Post(o, [s EXCEPT !.error = "FileNotFound"])
      <4> DEFINE op == [old EXCEPT !.pc = "posted", !.state = [s EXCEPT !.error = "FileNotFound"]]
      <4>1. ops' = [ops EXCEPT ![o] = op]
        BY <3>3 DEF Post
      <4>2. /\ op.cancel = old.cancel /\ op.state.path = old.state.path /\ op.pc = "posted"
            /\ op.state.data = old.state.data
        BY <1>2 DEF Operation, State
      <4>3. LiveOpRight(op, disk')
        <5> HIDE DEF op, s
        <5> QED BY <2>2, <2>3, <3>1, <3>3, <4>2 DEF LiveOpRight
      <4> HIDE DEF op
      <4> QED BY <2>4, <4>1, <4>2, <4>3
    <3>4. s.exists <=> c # NoFile
      BY <1>2 DEF State
    <3>5. \/ s.exists /\ ops' = [ops EXCEPT ![o].pc = "open", ![o].state = s]
          \/ ~s.exists /\ Post(o, [s EXCEPT !.error = "FileNotFound"])
      BY <2>6 DEF ReaderCheck, c
    <3> HIDE DEF s
    <3> QED BY <3>2, <3>3, <3>4, <3>5
  <2>7. CASE ReaderRead(o)
    <3>1. old.kind = "reader" /\ old.pc = "open" /\ ~old.cancel /\ disk' = disk
      BY <2>7 DEF ReaderRead, At1
    <3>2. CASE c # NoFile /\ Post(o, [old.state EXCEPT !.data = c])
      <4> DEFINE op == [old EXCEPT !.pc = "posted", !.state = [old.state EXCEPT !.data = c]]
      <4>1. ops' = [ops EXCEPT ![o] = op]
        BY <3>2 DEF Post
      <4>2. /\ op.cancel = old.cancel /\ op.state.path = old.state.path /\ op.pc = "posted"
            /\ op.state.data = c
        BY <1>2 DEF Operation, State
      <4>3. LiveOpRight(op, disk')
        <5> HIDE DEF op
        <5> QED BY <2>3, <3>1, <3>2, <4>2 DEF LiveOpRight
      <4> HIDE DEF op
      <4> QED BY <2>4, <4>1, <4>2, <4>3
    <3>3. CASE c = NoFile /\ Failed(o, {"Unknown"})
      <4> DEFINE op == [old EXCEPT !.pc = "posted", !.state = [old.state EXCEPT !.error = "Unknown"]]
      <4>1. ops' = [ops EXCEPT ![o] = op]
        BY <3>3 DEF Failed, Post
      <4>2. op.cancel = old.cancel /\ op.state.path = old.state.path
        BY <1>2 DEF Operation, State
      <4>3. LiveOpRight(op, disk')
        <5> HIDE DEF op
        <5> QED BY <2>2, <2>3, <3>1, <3>3, <4>2 DEF LiveOpRight
      <4> HIDE DEF op
      <4> QED BY <2>4, <4>1, <4>2, <4>3
    <3> QED BY <2>7, <3>2, <3>3 DEF ReaderRead, c
  <2>8. CASE WriterCheck(o)
    <3> DEFINE op == [old EXCEPT !.pc = "open", !.state = s]
    <3>1. ops' = [ops EXCEPT ![o] = op] /\ old.kind = "writer"
      BY <2>8 DEF WriterCheck, At1, c
    <3>2. op.cancel = old.cancel /\ op.pc = "open" /\ op.kind = "writer"
      BY <1>2, <3>1 DEF Operation
    <3> HIDE DEF op
    <3> QED BY <2>4, <3>1, <3>2 DEF LiveOpRight
  <2>9. ASSUME NEW pc \in {"write", "commit"}, old.kind = "writer", Step(o, pc) PROVE FInv'
    <3> DEFINE op == [old EXCEPT !.pc = pc]
    <3>1. ops' = [ops EXCEPT ![o] = op]
      BY <2>9 DEF Step
    <3>2. op.cancel = old.cancel /\ op.pc = pc /\ op.kind = "writer"
      BY <1>2, <2>9 DEF Operation
    <3> HIDE DEF op
    <3> QED BY <2>4, <2>9, <3>1, <3>2 DEF LiveOpRight
  <2>10. ASSUME old.state.path = NoPath, Failed(o, {"Unknown"}) PROVE FInv'
    <3> DEFINE op == [old EXCEPT !.pc = "posted", !.state = [old.state EXCEPT !.error = "Unknown"]]
    <3>1. ops' = [ops EXCEPT ![o] = op]
      BY <2>10 DEF Failed, Post
    <3>2. op.cancel = old.cancel /\ op.state.path = old.state.path
      BY <1>2 DEF Operation, State
    <3> HIDE DEF op
    <3> QED BY <2>4, <2>10, <3>1, <3>2 DEF LiveOpRight
  <2>11. ASSUME Land(o) PROVE FInv'
    <3> DEFINE op == [old EXCEPT !.pc = "posted"]
    <3>1. ops' = [ops EXCEPT ![o] = op] /\ disk' = [disk EXCEPT ![old.state.path] = old.state.data]
      BY <2>11 DEF Land, Touch
    <3>2. op.cancel = old.cancel /\ op.pc = "posted" /\ op.state = old.state
      BY <1>2 DEF Operation
    <3>3. ASSUME old.state.path # NoPath
          PROVE  disk'[old.state.path] = old.state.data /\ old.state.data # NoFile
      BY <1>2, <2>3, <3>1, <3>3, DistinctValues DEF TypeOK, DistinctValues, State
    <3> HIDE DEF op
    <3> QED BY <2>4, <3>1, <3>2, <3>3 DEF LiveOpRight
  <2>12. CASE WriterOpen(o) \/ WriterWrite(o) \/ WriterCommit(o)
    <3>1. old.kind = "writer"
      BY <2>12 DEF WriterOpen, WriterWrite, WriterCommit, At1
    <3>2. \/ \E pc \in {"write", "commit"} : Step(o, pc)
          \/ old.state.path = NoPath /\ Failed(o, {"Unknown"})
          \/ Land(o)
      BY <2>12 DEF WriterOpen, WriterWrite, WriterCommit
    <3> QED BY <2>9, <2>10, <2>11, <3>1, <3>2
  <2> QED BY <2>5, <2>6, <2>7, <2>8, <2>12 DEF PoolThread
<1> QED BY <1>3, <1>4

\* With nothing else on the files and no failing call, FInv is inductive.
LEMMA RightInvariant ==
  ASSUME Handlers = FALSE, Faults = FALSE, External = FALSE
  PROVE  Spec => []FInv
<1>1. Init => FInv
  <2> SUFFICES ASSUME Init PROVE FInv
    OBVIOUS
  <2>1. stack = <<>> /\ live = NoOp /\ ~prepared
    BY DEF Init
  <2> QED BY <2>1 DEF FInv, CancelledIsFollowed, LiveIsRight, AppliedIsRight
<1>2. TypeOK /\ IInv /\ FInv /\ [Next]_vars => FInv'
  <2> SUFFICES ASSUME TypeOK, IInv, FInv, [Next]_vars PROVE FInv'
    OBVIOUS
  <2>1. CASE ShellCall
    BY <2>1, ShellCallKeepsFInv
  <2>2. CASE MainStep
    BY <2>2, MainStepKeepsFInv
  <2>3. ASSUME NEW o \in Ops, PoolThread(o) PROVE FInv'
    BY <2>3, PoolThreadKeepsFInv
  <2>4. CASE UNCHANGED vars
    <3>1. disk' = disk /\ ops' = ops /\ live' = live /\ stack' = stack /\ st' = st
          /\ target' = target /\ prepared' = prepared
      BY <2>4 DEF vars, view
    <3>2. (Announcing' <=> Announcing) /\ (Coming' <=> Coming)
      BY <3>1 DEF Announcing, At, Top, Coming
    <3> QED BY <3>1, <3>2, KeptStep
  <2> QED BY <2>1, <2>2, <2>3, <2>4 DEF Next, ExternalWrite
<1> QED BY <1>1, <1>2, TypeCorrect, SerialInvariant, PTL DEF Spec

\* A prepared view at rest holds the content of its file, whatever was called,
\* cancelled and waited for on the way.
THEOREM ViewShowsItsFile ==
  ASSUME Handlers = FALSE, Faults = FALSE, External = FALSE
  PROVE  Spec => []ViewMatchesDisk
<1>1. FInv => ViewMatchesDisk
  BY ComingEmpty DEF FInv, AppliedIsRight, ViewMatchesDisk, Quiet, Held
<1> QED BY <1>1, RightInvariant, PTL

-----------------------------------------------------------------------------
(* Writing atomically, with handlers, faults and other programs.             *)

SomeBlock == \E o \in Options : o.blockWrites

\* The frames that occur: a write carries what the shell passed, and a blocking
\* one needs the option.
SafeFrame == {f \in Frame : /\ f.at = "saveAsync" => f.data \in Writes
                            /\ f.at = "saveSync" => SomeBlock}

\* Every writer is atomic and has what the shell passed.
SafeWriters ==
  \A o \in Ops : ops[o].kind = "writer" => ops[o].atomic /\ ops[o].state.data \in Writes

AInv == /\ opt \in Options /\ writeData \in Writes \cup {Empty}
        /\ stack \in Seq(SafeFrame) /\ SafeWriters

\* Pushing and replacing such frames leaves such frames.
LEMMA SafePush ==
  ASSUME NEW s \in Seq(SafeFrame), NEW f \in SafeFrame, NEW g \in SafeFrame
  PROVE  <<f>> \o s \in Seq(SafeFrame) /\ <<f, g>> \o s \in Seq(SafeFrame)
<1>1. <<f>> \in Seq(SafeFrame) /\ <<f, g>> \in Seq(SafeFrame)
  OBVIOUS
<1> QED BY <1>1

LEMMA SafeTop ==
  ASSUME stack \in Seq(SafeFrame), NEW l, At(l)
  PROVE  Top \in SafeFrame /\ Top.at = l /\ Tail(stack) \in Seq(SafeFrame)
BY DEF At, Top

LEMMA SafePlain ==
  ASSUME NEW l \in {"cancelAsync", "waitForJob", "loadAsync", "startLoad", "emittedSync"}
  PROVE  F(l) \in SafeFrame
<1>1. F(l) \in Frame /\ F(l).at = l
  BY PlainFrames DEF F
<1> QED BY <1>1 DEF SafeFrame

\* A step that leaves the data of every writer alone.
LEMMA SameWriters ==
  ASSUME SafeWriters,
         \A o \in Ops : /\ ops'[o].kind = "writer" => ops[o].kind = "writer"
                        /\ ops'[o].kind = "writer" => /\ ops'[o].atomic = ops[o].atomic
                                                      /\ ops'[o].state.data = ops[o].state.data
  PROVE  SafeWriters'
BY DEF SafeWriters

\* A step of a pool thread: the operation keeps its kind, and a writer its data.
LEMMA OneWriter ==
  ASSUME TypeOK, AInv, NEW o \in Ops, NEW op, ops' = [ops EXCEPT ![o] = op],
         op.kind = ops[o].kind, op.atomic = ops[o].atomic,
         op.kind = "writer" => op.state.data = ops[o].state.data,
         UNCHANGED <<opt, writeData, stack>>
  PROVE  AInv'
<1>1. \A x \in Ops : ops'[x] = IF x = o THEN op ELSE ops[x]
  BY DEF TypeOK
<1>2. SafeWriters'
  BY <1>1, SameWriters DEF AInv
<1> QED BY <1>2 DEF AInv

LEMMA PoolThreadKeepsAInv ==
  ASSUME TypeOK, AInv, NEW o \in Ops, PoolThread(o)
  PROVE  AInv'
<1>1. UNCHANGED <<opt, writeData, stack>>
  BY DEF PoolThread, Canceled, ReaderCheck, ReaderRead, WriterCheck, WriterOpen, WriterWrite,
         WriterCommit, view
<1>2. ops[o] \in Operation /\ ops[o].state \in State
  BY DEF TypeOK, Operation
<1>3. ASSUME NEW pc, NEW s \in State, ops' = [ops EXCEPT ![o].pc = pc, ![o].state = s],
             ops[o].kind = "writer" => s.data = ops[o].state.data
      PROVE  AInv'
  <2> DEFINE op == [ops[o] EXCEPT !.pc = pc, !.state = s]
  <2>1. ops' = [ops EXCEPT ![o] = op]
    BY <1>3
  <2>2. op.kind = ops[o].kind /\ op.atomic = ops[o].atomic /\ op.state = s
    BY <1>2 DEF Operation
  <2> HIDE DEF op
  <2> QED BY <1>1, <1>3, <2>1, <2>2, OneWriter
<1>4. ASSUME NEW pc, ops' = [ops EXCEPT ![o].pc = pc] PROVE AInv'
  <2> DEFINE op == [ops[o] EXCEPT !.pc = pc]
  <2>1. ops' = [ops EXCEPT ![o] = op]
    BY <1>4
  <2>2. op.kind = ops[o].kind /\ op.atomic = ops[o].atomic /\ op.state = ops[o].state
    BY <1>2 DEF Operation
  <2> HIDE DEF op
  <2> QED BY <1>1, <2>1, <2>2, OneWriter
<1>5. ASSUME NEW s \in State, s.data = ops[o].state.data, NEW e \in Errors,
             Post(o, [s EXCEPT !.error = e])
      PROVE  AInv'
  <2>1. [s EXCEPT !.error = e] \in State /\ [s EXCEPT !.error = e].data = ops[o].state.data
    BY <1>5 DEF State
  <2> QED BY <1>3, <1>5, <2>1 DEF Post
<1>6. ASSUME Failed(o, {"Unknown"}) PROVE AInv'
  BY <1>2, <1>5, <1>6 DEF Failed, Errors
<1>7. CASE Canceled(o)
  BY <1>2, <1>3, <1>7 DEF Canceled, Post
<1>8. CASE ReaderCheck(o) \/ WriterCheck(o)
  <2> DEFINE s == [ops[o].state EXCEPT !.exists = FileAt(ops[o].state.path) # NoFile]
  <2>1. s \in State /\ s.data = ops[o].state.data
    BY <1>2 DEF State
  <2>2. \/ ops' = [ops EXCEPT ![o].pc = "open", ![o].state = s]
        \/ \E e \in Errors : Post(o, [s EXCEPT !.error = e])
    BY <1>8 DEF ReaderCheck, WriterCheck, Errors
  <2> HIDE DEF s
  <2> QED BY <1>3, <1>5, <2>1, <2>2
<1>9. CASE ReaderRead(o)
  <2> DEFINE c == FileAt(ops[o].state.path)
  <2>1. CASE c # NoFile /\ Post(o, [ops[o].state EXCEPT !.data = c])
    <3>1. c \in Content
      BY <1>2, <2>1 DEF FileAt, TypeOK, State
    <3>2. [ops[o].state EXCEPT !.data = c] \in State
      BY <1>2, <3>1 DEF State
    <3>3. ops[o].kind # "writer"
      BY <1>9 DEF ReaderRead, At1
    <3> QED BY <1>3, <2>1, <3>2, <3>3 DEF Post
  <2> QED BY <1>6, <1>9, <2>1 DEF ReaderRead
<1>10. CASE WriterOpen(o) \/ WriterWrite(o) \/ WriterCommit(o)
  BY <1>4, <1>6, <1>10 DEF WriterOpen, WriterWrite, WriterCommit, Step, Land
<1> QED BY <1>7, <1>8, <1>9, <1>10 DEF PoolThread

LEMMA ShellCallKeepsAInv ==
  ASSUME TypeOK, AInv, ShellCall
  PROVE  AInv'
<1>0. SafeWriters /\ stack \in Seq(SafeFrame)
  BY DEF AInv
<1>1. ops' = ops
  BY DEF ShellCall, SetPath, SetData, SetDataNoPath, SetOption, Reload, UpdatePath, WaitForJobCall,
         ReadAsync, ReadWaiting, ReadSync, view
<1>2. SafeWriters'
  BY <1>0, <1>1, SameWriters
<1>3. ASSUME stack' \in Seq(SafeFrame), opt' = opt, writeData' = writeData PROVE AInv'
  BY <1>2, <1>3 DEF AInv
<1>4. ASSUME NEW p \in Paths \cup {NoPath}, SetPath(p) PROVE AInv'
  <2>1. [at |-> "setPath", path |-> p] \in SafeFrame
    BY DEF Frame, SafeFrame
  <2>2. stack' \in Seq(SafeFrame)
    BY <1>0, <1>4, <2>1, SafePlain, SafePush DEF SetPath, Call
  <2> QED BY <1>3, <1>4, <2>2 DEF SetPath, view
<1>5. ASSUME NEW d \in Writes, SetData(d) PROVE AInv'
  <2>1. d \in Content
    BY ParameterTypes DEF ParameterTypes
  <2>2. [at |-> "saveAsync", data |-> d] \in SafeFrame
    BY <2>1 DEF Frame, SafeFrame
  <2>3. opt.blockWrites => F("saveSync") \in SafeFrame
    BY PlainFrames DEF F, SafeFrame, SomeBlock, AInv
  <2>4. opt.blockWrites \in BOOLEAN
    BY DEF TypeOK, OptionRecord
  <2>5. stack' \in Seq(SafeFrame)
    <3>1. \/ stack' = stack
          \/ stack' = <<F("cancelAsync"), [at |-> "saveAsync", data |-> d]>> \o stack
          \/ opt.blockWrites /\ stack' = <<F("cancelAsync"), F("saveSync")>> \o stack
          \/ opt.blockWrites /\ stack' = <<F("saveSync")>> \o stack
      BY <1>5, <2>4 DEF SetData, Call
    <3> QED BY <1>0, <2>2, <2>3, <3>1, SafePlain, SafePush
  <2>6. writeData' \in Writes \cup {Empty} /\ opt' = opt
    BY <1>5 DEF SetData, AInv
  <2> QED BY <1>2, <2>5, <2>6 DEF AInv
<1>6. ASSUME NEW d \in Writes, SetDataNoPath(d) PROVE AInv'
  BY <1>2, <1>6 DEF AInv, SetDataNoPath
<1>7. ASSUME NEW o \in Options, SetOption(o) PROVE AInv'
  <2>1. stack' \in Seq(SafeFrame)
    BY <1>0, <1>7, SafePlain, SafePush DEF SetOption, Call
  <2> QED BY <1>2, <1>7, <2>1 DEF SetOption, AInv, view
<1>8. CASE Reload
  <2>1. stack' \in Seq(SafeFrame)
    BY <1>0, <1>8, SafePlain, SafePush DEF Reload, UpdatePath
  <2> QED BY <1>3, <1>8, <2>1 DEF Reload, UpdatePath
<1>9. CASE WaitForJobCall \/ ReadAsync \/ ReadWaiting
  <2>1. stack' \in Seq(SafeFrame)
    BY <1>0, <1>9, SafePlain, SafePush DEF WaitForJobCall, ReadAsync, ReadWaiting, Call
  <2> QED BY <1>3, <1>9, <2>1 DEF WaitForJobCall, ReadAsync, ReadWaiting, view
<1>10. CASE ReadSync
  <2>1. stack' \in Seq(SafeFrame)
    BY <1>0, <1>10, SafePlain, SafePush DEF ReadSync, Call
  <2> QED BY <1>3, <1>10, <2>1 DEF ReadSync
<1> QED BY <1>4, <1>5, <1>6, <1>7, <1>8, <1>9, <1>10 DEF ShellCall

LEMMA MainStepKeepsAInv ==
  ASSUME \A o \in Options : o.atomicWrites, TypeOK, AInv, MainStep
  PROVE  AInv'
<1>0. SafeWriters /\ stack \in Seq(SafeFrame) /\ <<>> \in Seq(SafeFrame)
  BY DEF AInv
<1>1. ASSUME SafeWriters', stack' \in Seq(SafeFrame), opt' = opt, writeData' \in {writeData, Empty}
      PROVE  AInv'
  BY <1>1 DEF AInv
<1>2. ASSUME ops' = ops, stack' \in Seq(SafeFrame), opt' = opt, writeData' \in {writeData, Empty}
      PROVE  AInv'
  BY <1>0, <1>1, <1>2, SameWriters
<1>3. CASE SetPathContinue
  <2>1. Tail(stack) \in Seq(SafeFrame)
    BY <1>0, <1>3, SafeTop DEF SetPathContinue
  <2>2. stack' \in Seq(SafeFrame)
    BY <1>3, <2>1, SafePlain, SafePush DEF SetPathContinue, UpdatePath
  <2> QED BY <1>2, <1>3, <2>2 DEF SetPathContinue, UpdatePath
<1>4. CASE CancelAsync
  <2>1. Tail(stack) \in Seq(SafeFrame)
    BY <1>0, <1>4, SafeTop DEF CancelAsync
  <2>0. live = NoOp \/ LiveReader \/ LiveWriter
    BY DEF TypeOK, LiveReader, LiveWriter, Operation, Kinds
  <2>2. stack' = Tail(stack) \/ stack' = <<F("waitForJob")>> \o Tail(stack)
    BY <1>4, <2>0 DEF CancelAsync, Return, Goto
  <2>3. live \in Ops => ops[live] \in Operation /\ DOMAIN ops = Ops
    BY DEF TypeOK
  <2>4. \A o \in Ops : ops'[o].kind = ops[o].kind /\ ops'[o].atomic = ops[o].atomic
                       /\ ops'[o].state = ops[o].state
    <3>1. CASE live = NoOp
      BY <1>4, <3>1 DEF CancelAsync, LiveReader, LiveWriter
    <3>2. CASE live \in Ops
      <4>1. \/ ops' = ops
            \/ ops' = [ops EXCEPT ![live].cancel = TRUE, ![live].conn = FALSE]
            \/ ops' = [ops EXCEPT ![live].cancel = TRUE]
        BY <1>4, <2>0 DEF CancelAsync
      <4> QED BY <2>3, <3>2, <4>1 DEF Operation
    <3> QED BY <3>1, <3>2 DEF TypeOK
  <2>5. SafeWriters'
    BY <1>0, <2>4, SameWriters
  <2>6. stack' \in Seq(SafeFrame)
    BY <2>1, <2>2, SafePlain, SafePush
  <2> QED BY <1>1, <1>4, <2>5, <2>6 DEF CancelAsync
<1>5. CASE SyncDone \/ WaitForJobDone
  <2>1. stack' \in Seq(SafeFrame)
    BY <1>0, <1>5, SafeTop DEF SyncDone, WaitForJobDone, Return
  <2> QED BY <1>2, <1>5, <2>1 DEF SyncDone, WaitForJobDone, view
<1>6. CASE LoadAsync
  <2>1. Tail(stack) \in Seq(SafeFrame)
    BY <1>0, <1>6, SafeTop DEF LoadAsync
  <2>2. stack' \in Seq(SafeFrame)
    BY <1>6, <2>1, SafePlain, SafePush DEF LoadAsync, Return, Goto
  <2> QED BY <1>2, <1>6, <2>2 DEF LoadAsync, view
<1>7. ASSUME NEW o \in Ops, NEW k, NEW d, ops' = [ops EXCEPT ![o] = NewOp(k, target, d)],
             k = "writer" => d \in Writes
      PROVE  SafeWriters'
  <2>1. NewOp(k, target, d).kind = k /\ NewOp(k, target, d).state.data = d
    BY NewOpData
  <2>2. NewOp(k, target, d).atomic = opt.atomicWrites /\ opt.atomicWrites
    BY DEF NewOp, AInv
  <2>3. \A x \in Ops : ops'[x] = IF x = o THEN NewOp(k, target, d) ELSE ops[x]
    BY <1>7 DEF TypeOK
  <2>4. ASSUME NEW x \in Ops, ops'[x].kind = "writer"
        PROVE  ops'[x].atomic /\ ops'[x].state.data \in Writes
    <3>1. CASE x = o
      <4>1. ops'[x] = NewOp(k, target, d)
        BY <2>3, <3>1
      <4> QED BY <1>7, <2>1, <2>2, <2>4, <4>1
    <3>2. CASE x # o
      BY <1>0, <2>3, <2>4, <3>2 DEF SafeWriters
    <3> QED BY <3>1, <3>2
  <2> QED BY <2>4 DEF SafeWriters
<1>8. CASE StartLoad
  <2>1. stack' \in Seq(SafeFrame) /\ opt' = opt /\ writeData' = writeData
    BY <1>0, <1>8, SafeTop DEF StartLoad, Return
  <2>2. \/ ops' = ops
        \/ \E o \in Ops : ops' = [ops EXCEPT ![o] = NewOp("reader", target, Empty)]
    BY <1>8 DEF StartLoad
  <2> QED BY <1>1, <1>2, <1>7, <2>1, <2>2
<1>9. CASE SaveAsync
  <2>1. Top \in SafeFrame /\ Top.at = "saveAsync" /\ stack' \in Seq(SafeFrame)
    BY <1>0, <1>9, SafeTop DEF SaveAsync, Return
  <2>2. Top.data \in Writes
    BY <2>1 DEF SafeFrame
  <2>3. \E o \in Ops : ops' = [ops EXCEPT ![o] = NewOp("writer", target, Top.data)]
    BY <1>9 DEF SaveAsync
  <2> QED BY <1>1, <1>7, <1>9, <2>1, <2>2, <2>3 DEF SaveAsync
<1>10. CASE SaveSync
  <2>1. Tail(stack) \in Seq(SafeFrame)
    BY <1>0, <1>10, SafeTop DEF SaveSync
  <2>2. stack' \in Seq(SafeFrame)
    BY <1>10, <2>1, SafePlain, SafePush DEF SaveSync, Goto
  <2> QED BY <1>2, <1>10, <2>2 DEF SaveSync
<1>11. ASSUME NEW o \in Ops, NEW c \in BOOLEAN, Apply(o, c) PROVE SafeWriters' /\ writeData' = Empty
  <2>1. \A x \in Ops : ops'[x].kind = ops[x].kind /\ ops'[x].atomic = ops[x].atomic
                       /\ ops'[x].state.data = ops[x].state.data
    BY <1>11 DEF Apply, TypeOK, Operation, State
  <2> QED BY <1>0, <1>11, <2>1, SameWriters DEF Apply
<1>12. CASE WaitForJob
  <2> DEFINE f == [at |-> "emitted", sig |-> CompletionSignal(ops[live].kind, ops[live].state.error), op |-> live]
  <2>1. live \in Ops /\ Apply(live, FALSE) /\ stack' = <<f>> \o Tail(stack) /\ opt' = opt
    BY <1>12 DEF WaitForJob, TypeOK, Goto
  <2>2. f \in SafeFrame
    BY <2>1, SignalType DEF Frame, SafeFrame, TypeOK
  <2>3. Tail(stack) \in Seq(SafeFrame)
    BY <1>0, <1>12, SafeTop DEF WaitForJob
  <2> HIDE DEF f
  <2>4. stack' \in Seq(SafeFrame)
    BY <2>1, <2>2, <2>3, SafePush
  <2> QED BY <1>1, <1>11, <2>1, <2>4
<1>13. ASSUME NEW o \in Ops, OperationFinished(o) PROVE AInv'
  <2> DEFINE f == [at |-> "finished", sig |-> CompletionSignal(ops[o].kind, ops[o].state.error), op |-> o]
  <2>1. Apply(o, TRUE) /\ stack' = <<f>> \o stack /\ opt' = opt
    BY <1>13 DEF OperationFinished, Call
  <2>2. f \in SafeFrame
    BY <2>1, SignalType DEF Frame, SafeFrame, TypeOK
  <2> HIDE DEF f
  <2>4. stack' \in Seq(SafeFrame)
    BY <1>0, <2>1, <2>2, SafePush
  <2> QED BY <1>1, <1>11, <2>1, <2>4
<1>14. ASSUME NEW o, ops' = [ops EXCEPT ![o] = Gone] PROVE SafeWriters'
  <2>1. \A x \in Ops : ops'[x] = ops[x] \/ ops'[x] = Gone
    BY <1>14 DEF TypeOK
  <2> QED BY <1>0, <2>1 DEF SafeWriters, Gone
<1>15. CASE OperationFinishedDone
  <2>1. stack' \in Seq(SafeFrame)
    BY <1>0, <1>15, SafeTop DEF OperationFinishedDone, Return
  <2> QED BY <1>1, <1>14, <1>15, <2>1 DEF OperationFinishedDone
<1>16. ASSUME NEW o \in Ops, DroppedFinished(o) PROVE AInv'
  BY <1>0, <1>1, <1>14, <1>16 DEF DroppedFinished, view
<1>17. CASE FileChanged
  <2>1. stack' \in Seq(SafeFrame)
    <3>1. <<F("loadAsync")>> \in Seq(SafeFrame)
      BY SafePlain
    <3> QED BY <1>0, <1>17, <3>1 DEF FileChanged
  <2> QED BY <1>2, <1>17, <2>1 DEF FileChanged
<1> QED BY <1>3, <1>4, <1>5, <1>6, <1>8, <1>9, <1>10, <1>12, <1>13, <1>15, <1>16, <1>17 DEF MainStep

LEMMA SafeInvariant ==
  ASSUME \A o \in Options : o.atomicWrites
  PROVE  Spec => []AInv
<1>1. Init => AInv
  <2> SUFFICES ASSUME Init PROVE AInv
    OBVIOUS
  <2>1. stack \in Seq(SafeFrame)
    BY DEF Init
  <2> QED BY <2>1 DEF Init, AInv, SafeWriters, Gone
<1>2. TypeOK /\ AInv /\ [Next]_vars => AInv'
  <2> SUFFICES ASSUME TypeOK, AInv, [Next]_vars PROVE AInv'
    OBVIOUS
  <2>1. CASE ShellCall
    BY <2>1, ShellCallKeepsAInv
  <2>2. CASE MainStep
    BY <2>2, MainStepKeepsAInv
  <2>3. ASSUME NEW o \in Ops, PoolThread(o) PROVE AInv'
    BY <2>3, PoolThreadKeepsAInv
  <2>4. CASE UNCHANGED <<opt, writeData, stack, ops>>
    BY <2>4, SameWriters DEF AInv
  <2>5. ASSUME NEW p \in Paths, NEW c \in Data \cup {NoFile}, ExternalWrite(p, c) PROVE AInv'
    BY <2>4, <2>5 DEF ExternalWrite, view
  <2>6. CASE UNCHANGED vars
    BY <2>4, <2>6 DEF vars, view
  <2> QED BY <2>1, <2>2, <2>3, <2>5, <2>6 DEF Next
<1> QED BY <1>1, <1>2, TypeCorrect, PTL DEF Spec

\* Atomic writes: whatever fails, is cancelled, is called back or is written by
\* others, a file changes only to a content the shell or another program gave.
\* A blocking write may find its buffer blanked by the wait before it, so the
\* empty content counts as one the shell gives where blocking writes are used.
THEOREM FilesAreWhole ==
  ASSUME \A o \in Options : o.atomicWrites, SomeBlock => Empty \in Writes
  PROVE  Spec => AtomicOrNothing
<1> DEFINE Given == Writes \cup (IF External THEN Data \cup {NoFile} ELSE {})
<1>1. TypeOK /\ AInv /\ [Next]_vars
        => [\A p \in Paths : disk'[p] # disk[p] => disk'[p] \in Given]_vars
  <2> SUFFICES ASSUME TypeOK, AInv, Next, NEW p \in Paths, disk'[p] # disk[p]
               PROVE  disk'[p] \in Given
    OBVIOUS
  <2>1. ASSUME NEW q, NEW c, Touch(q, c), c \in Given PROVE disk'[p] \in Given
    BY <2>1 DEF Touch, TypeOK
  <2>2. CASE SaveSync
    <3>1. Top \in SafeFrame /\ Top.at = "saveSync"
      BY <2>2, SafeTop DEF SaveSync, AInv
    <3>2. writeData \in Writes
      BY <3>1 DEF AInv, SafeFrame
    <3>3. Touch(target, writeData)
      BY <2>2 DEF SaveSync
    <3> QED BY <2>1, <3>2, <3>3
  <2>3. ASSUME NEW o \in Ops, WriterOpen(o) \/ WriterWrite(o) \/ WriterCommit(o) PROVE disk'[p] \in Given
    <3>1. ops[o].kind = "writer"
      BY <2>3 DEF WriterOpen, WriterWrite, WriterCommit, At1
    <3>2. ops[o].atomic /\ ops[o].state.data \in Writes
      BY <3>1 DEF AInv, SafeWriters
    <3>3. Touch(ops[o].state.path, ops[o].state.data)
      BY <2>3, <3>2 DEF WriterOpen, WriterWrite, WriterCommit, Land
    <3> QED BY <2>1, <3>2, <3>3
  <2>4. ASSUME NEW q \in Paths, NEW c \in Data \cup {NoFile}, ExternalWrite(q, c) PROVE disk'[p] \in Given
    BY <2>1, <2>4 DEF ExternalWrite
  <2>5. ShellCall => disk' = disk
    BY DEF ShellCall, SetPath, SetData, SetDataNoPath, SetOption, Reload, UpdatePath, WaitForJobCall,
           ReadAsync, ReadWaiting, ReadSync
  <2>6. MainStep => SaveSync \/ disk' = disk
    BY DEF MainStep, SetPathContinue, UpdatePath, CancelAsync, WaitForJob, WaitForJobDone, SyncDone,
           LoadAsync, StartLoad, SaveAsync, OperationFinishedDone, OperationFinished,
           DroppedFinished, FileChanged
  <2>7. \A o \in Ops : PoolThread(o) => WriterOpen(o) \/ WriterWrite(o) \/ WriterCommit(o) \/ disk' = disk
    BY DEF PoolThread, Canceled, ReaderCheck, ReaderRead, WriterCheck
  <2> QED BY <2>2, <2>3, <2>4, <2>5, <2>6, <2>7 DEF Next
<1> QED BY <1>1, SafeInvariant, TypeCorrect, PTL DEF Spec, AtomicOrNothing, Given

-----------------------------------------------------------------------------
(* The outcome of a write is announced before the write is forgotten.        *)

\* A write whose outcome has not been announced is the live operation and
\* reports to the view.
UntoldIsLive ==
  \A o \in Ops : ops[o].pc # "gone" /\ ops[o].kind = "writer" /\ ~ops[o].told
                   => ops[o].conn /\ o = live

UInv == UntoldIsLive /\ (Announcing => ops[live].told)

\* A step that neither starts nor forgets an operation nor ends the live one.
LEMMA SameOutcomes ==
  ASSUME TypeOK, UInv, UNCHANGED <<ops, live>>, Announcing' => Announcing
  PROVE  UInv'
BY DEF UInv, UntoldIsLive

\* A step of a pool thread.
LEMMA PoolThreadKeepsUInv ==
  ASSUME TypeOK, IInv, UInv, NEW o \in Ops, PoolThread(o)
  PROVE  UInv'
<1>1. Active(o) /\ UNCHANGED <<live, stack>>
  BY DEF PoolThread, Canceled, ReaderCheck, ReaderRead, WriterCheck, WriterOpen, WriterWrite,
         WriterCommit, At1, Active, view
<1>2. ops[o] \in Operation /\ DOMAIN ops = Ops
  BY DEF TypeOK
<1>3. /\ \A x \in Ops : x # o => ops'[x] = ops[x]
      /\ ops'[o].kind = ops[o].kind /\ ops'[o].told = ops[o].told /\ ops'[o].conn = ops[o].conn
  <2>1. ASSUME NEW pc, NEW s, ops' = [ops EXCEPT ![o].pc = pc, ![o].state = s]
        PROVE  /\ \A x \in Ops : x # o => ops'[x] = ops[x]
               /\ ops'[o].kind = ops[o].kind /\ ops'[o].told = ops[o].told /\ ops'[o].conn = ops[o].conn
    BY <1>2, <2>1 DEF Operation
  <2>2. ASSUME NEW pc, ops' = [ops EXCEPT ![o].pc = pc]
        PROVE  /\ \A x \in Ops : x # o => ops'[x] = ops[x]
               /\ ops'[o].kind = ops[o].kind /\ ops'[o].told = ops[o].told /\ ops'[o].conn = ops[o].conn
    BY <1>2, <2>2 DEF Operation
  <2>3. \/ \E pc, s : ops' = [ops EXCEPT ![o].pc = pc, ![o].state = s]
        \/ \E pc : ops' = [ops EXCEPT ![o].pc = pc]
    <3>1. CASE Canceled(o)
      BY <3>1 DEF Canceled, Post
    <3>2. CASE ReaderCheck(o) \/ WriterCheck(o)
      BY <3>2 DEF ReaderCheck, WriterCheck, Post
    <3>3. CASE ReaderRead(o)
      BY <3>3 DEF ReaderRead, Post, Failed
    <3>4. CASE WriterOpen(o) \/ WriterWrite(o) \/ WriterCommit(o)
      BY <3>4 DEF WriterOpen, WriterWrite, WriterCommit, Step, Land, Post, Failed
    <3> QED BY <3>1, <3>2, <3>3, <3>4 DEF PoolThread
  <2> QED BY <2>1, <2>2, <2>3
<1>4. UntoldIsLive'
  BY <1>1, <1>3 DEF UInv, UntoldIsLive, Active
<1>5. Announcing' => ops'[live'].told
  <2> SUFFICES ASSUME Announcing' PROVE ops'[live].told
    BY <1>1
  <2>1. Announcing /\ stack' = stack
    BY <1>1 DEF Announcing, At, Top
  <2>2. live \in Ops
    BY <2>1 DEF IInv, AnnouncingLive, TypeOK
  <2> QED BY <1>3, <2>1, <2>2 DEF UInv
<1> QED BY <1>4, <1>5 DEF UInv

LEMMA ShellCallKeepsUInv ==
  ASSUME Handlers = FALSE, TypeOK, IInv, UInv, ShellCall
  PROVE  UInv'
<1>0. stack = <<>> /\ ops' = ops /\ live' = live /\ <<>> \in Seq(Frame)
  <2>1. stack = <<>>
    BY CalledWhenIdle DEF ShellCall, SetPath, SetData, SetDataNoPath, SetOption, Reload,
           WaitForJobCall, ReadAsync, ReadWaiting, ReadSync
  <2>2. ops' = ops /\ live' = live
    BY DEF ShellCall, SetPath, SetData, SetDataNoPath, SetOption, Reload, UpdatePath,
           WaitForJobCall, ReadAsync, ReadWaiting, ReadSync, view
  <2>3. <<>> \in Seq(Frame)
    OBVIOUS
  <2> QED BY <2>1, <2>2, <2>3
<1>1. IInv'
  BY ShellCallKeepsIInv
<1>2. ~Announcing'
  <2>1. stack' = <<>> \/ Head(stack').at \notin {"emitted", "finished"}
    <3>1. \A l \in {"waitForJob", "cancelAsync", "loadAsync", "saveSync", "emittedSync"} :
            F(l) \in Frame /\ F(l).at = l
      BY PlainFrames DEF F
    <3>2. ASSUME NEW p \in Paths \cup {NoPath}, SetPath(p) PROVE stack' = <<>> \/ Head(stack').at \notin {"emitted", "finished"}
      <4>1. [at |-> "setPath", path |-> p] \in Frame
        BY DEF Frame
      <4>2. PICK l \in {"waitForJob", "cancelAsync"} : stack' = <<F(l), [at |-> "setPath", path |-> p]>> \o <<>>
        BY <1>0, <3>2 DEF SetPath, Call
      <4> QED BY <1>0, <3>1, <4>1, <4>2, Pushed
    <3>3. ASSUME NEW d \in Writes, SetData(d) PROVE stack' = <<>> \/ Head(stack').at \notin {"emitted", "finished"}
      <4>1. [at |-> "saveAsync", data |-> d] \in Frame
        BY ParameterTypes DEF Frame, ParameterTypes
      <4>2. \/ stack' = <<>>
            \/ stack' = <<F("cancelAsync"), [at |-> "saveAsync", data |-> d]>> \o <<>>
            \/ stack' = <<F("cancelAsync"), F("saveSync")>> \o <<>>
            \/ stack' = <<F("saveSync")>> \o <<>>
        <5>1. opt.blockWrites \in BOOLEAN
          BY DEF TypeOK, OptionRecord
        <5> QED BY <1>0, <3>3, <5>1 DEF SetData, Call
      <4>3. stack' = <<>> \/ Head(stack') \in {F("cancelAsync"), F("saveSync")}
        BY <1>0, <3>1, <4>1, <4>2, Pushed
      <4> QED BY <3>1, <4>3
    <3>4. CASE \/ \E d \in Writes : SetDataNoPath(d)
               \/ \E o \in Options : SetOption(o)
               \/ Reload \/ WaitForJobCall \/ ReadAsync \/ ReadWaiting \/ ReadSync
      <4>1. stack' = <<>> \/ \E l \in {"loadAsync", "waitForJob", "emittedSync"} : stack' = <<F(l)>> \o <<>>
        BY <1>0, <3>4 DEF SetDataNoPath, SetOption, Reload, UpdatePath, WaitForJobCall, ReadAsync,
                          ReadWaiting, ReadSync, Call
      <4> QED BY <1>0, <3>1, <4>1, Pushed
    <3> QED BY <3>2, <3>3, <3>4 DEF ShellCall
  <2> QED BY <2>1 DEF Announcing, At, Top
<1> QED BY <1>0, <1>2, SameOutcomes

\* An operation deletes itself.
LEMMA ForgottenStep ==
  ASSUME TypeOK, UInv, NEW o, ops' = [ops EXCEPT ![o] = Gone], ~Announcing',
         live' = live \/ (live' = NoOp /\ o = live)
  PROVE  UInv'
<1>0. DOMAIN ops = Ops
  BY DEF TypeOK
<1>1. \A x \in Ops : x # o => ops'[x] = ops[x]
  BY <1>0
<1>2. o \in Ops => ops'[o].pc = "gone"
  BY <1>0 DEF Gone
<1>3. UntoldIsLive'
  BY <1>1, <1>2 DEF UInv, UntoldIsLive
<1> QED BY <1>3 DEF UInv

LEMMA MainStepKeepsUInv ==
  ASSUME TypeOK, IInv, UInv, MainStep
  PROVE  UInv'
<1>0. stack \in Seq(Frame) /\ Shape /\ NoOp \notin Ops /\ DOMAIN ops = Ops /\ <<>> \in Seq(Frame)
  BY DistinctValues DEF TypeOK, IInv, DistinctValues
\* Only a completion enters an announcement.
<1>1. CASE ~Announcing' /\ UNCHANGED <<ops, live>>
  BY <1>1, SameOutcomes
<1>2. CASE SetPathContinue
  <2>1. stack # <<>> /\ Head(stack).at = "setPath"
    BY <1>2 DEF SetPathContinue, At, Top
  <2>2. Tail(stack) = <<>>
    BY <1>0, <2>1, Alone
  <2>3. stack' = <<>> \/ stack' = <<F("loadAsync")>> \o <<>>
    BY <1>2, <2>2 DEF SetPathContinue, UpdatePath
  <2>4. stack' = <<>> \/ Head(stack').at = "loadAsync"
    <3>1. F("loadAsync") \in Frame /\ F("loadAsync").at = "loadAsync"
      BY PlainFrames DEF F
    <3> QED BY <1>0, <2>3, <3>1, Pushed
  <2>5. ~Announcing'
    BY <2>4 DEF Announcing, At, Top
  <2> QED BY <1>1, <1>2, <2>5 DEF SetPathContinue, UpdatePath
<1>3. CASE CancelAsync
  <2>1. At("cancelAsync") /\ Top.at = "cancelAsync" /\ ~Announcing
    BY <1>3 DEF CancelAsync, At, Announcing, Top
  <2>2. live = NoOp \/ LiveReader \/ LiveWriter
    BY DEF TypeOK, LiveReader, LiveWriter, Operation, Kinds
  <2>3. ~Announcing'
    <3>1. CASE live = NoOp \/ LiveReader
      <4>1. Return /\ stack # <<>> /\ Head(stack).at = "cancelAsync"
        BY <1>3, <3>1 DEF CancelAsync, LiveReader, LiveWriter, At, Top
      <4>2. stack' = <<>> \/ Head(stack').at \in {"setPath", "startLoad", "saveAsync", "saveSync"}
        BY <1>0, <4>1, ReturnShape
      <4> QED BY <4>2 DEF Announcing, At, Top
    <3>2. CASE LiveWriter
      <4>1. Goto(<<F("waitForJob")>>) /\ stack # <<>>
        BY <1>3, <3>2 DEF CancelAsync, LiveReader, LiveWriter, At
      <4>2. F("waitForJob") \in Frame /\ F("waitForJob").at = "waitForJob"
        BY PlainFrames DEF F
      <4>3. stack' # <<>> /\ Head(stack') = F("waitForJob")
        BY <1>0, <4>1, <4>2, GotoOne
      <4> QED BY <4>2, <4>3 DEF Announcing, At, Top
    <3> QED BY <2>2, <3>1, <3>2
  <2>4. CASE live = NoOp
    BY <1>1, <1>3, <2>3, <2>4 DEF CancelAsync, LiveReader, LiveWriter
  <2>5. CASE LiveReader
    <3>1. ops' = [ops EXCEPT ![live].cancel = TRUE, ![live].conn = FALSE] /\ live \in Ops
          /\ ops[live].kind = "reader"
      BY <1>3, <2>5 DEF CancelAsync, LiveReader, LiveWriter, TypeOK
    <3>2. \A x \in Ops : x # live => ops'[x] = ops[x]
      BY <1>0, <3>1
    <3>3. ops'[live].kind = "reader"
      BY <1>0, <3>1 DEF TypeOK, Operation
    <3>4. UntoldIsLive'
      BY <3>2, <3>3 DEF UInv, UntoldIsLive
    <3> QED BY <2>3, <3>4 DEF UInv
  <2>6. CASE LiveWriter
    <3>1. ops' = [ops EXCEPT ![live].cancel = TRUE] /\ live \in Ops /\ live' = live
      BY <1>3, <2>6 DEF CancelAsync, LiveReader, LiveWriter, TypeOK
    <3>2. \A x \in Ops : /\ ops'[x].pc = ops[x].pc /\ ops'[x].kind = ops[x].kind
                         /\ ops'[x].told = ops[x].told /\ ops'[x].conn = ops[x].conn
      BY <1>0, <3>1 DEF TypeOK, Operation
    <3> QED BY <2>3, <3>1, <3>2 DEF UInv, UntoldIsLive
  <2> QED BY <2>2, <2>4, <2>5, <2>6
<1>4. CASE WaitForJobDone
  <2>1. Announcing /\ Return /\ stack # <<>> /\ Head(stack).at = "emitted"
    BY <1>4 DEF WaitForJobDone, Announcing, At, Top
  <2>2. live' = NoOp /\ ops' = ops
    BY <1>4 DEF WaitForJobDone
  <2>3. UntoldIsLive'
    BY <2>1, <2>2 DEF UInv, UntoldIsLive
  <2>4. stack' = <<>> \/ Head(stack').at \in {"setPath", "startLoad", "saveAsync", "saveSync"}
    BY <1>0, <2>1, ReturnShape
  <2>5. ~Announcing'
    BY <2>4 DEF Announcing, At, Top
  <2> QED BY <2>3, <2>5 DEF UInv
<1>5. CASE SyncDone \/ LoadAsync
  <2>1. /\ stack # <<>> /\ Head(stack).at \in {"emittedSync", "loadAsync"} /\ UNCHANGED <<ops, live>>
    BY <1>5 DEF SyncDone, LoadAsync, At, Top, view
  <2>2. Tail(stack) = <<>>
    BY <1>0, <2>1, Alone
  <2>3. stack' = <<>> \/ stack' = <<F("cancelAsync"), F("startLoad")>> \o <<>>
    BY <1>5, <2>2 DEF SyncDone, LoadAsync, Return, Goto
  <2>4. stack' = <<>> \/ Head(stack').at = "cancelAsync"
    <3>1. /\ F("cancelAsync") \in Frame /\ F("cancelAsync").at = "cancelAsync" /\ F("startLoad") \in Frame
      BY PlainFrames DEF F
    <3> QED BY <1>0, <2>3, <3>1, Pushed
  <2>5. ~Announcing'
    BY <2>4 DEF Announcing, At, Top
  <2> QED BY <1>1, <2>1, <2>5
<1>6. CASE StartLoad \/ SaveAsync
  <2>1. stack # <<>> /\ Return /\ live = NoOp /\ Head(stack).at \in {"startLoad", "saveAsync"}
    BY <1>6 DEF StartLoad, SaveAsync, At, Top, IInv, FramesIdle
  <2>2. stack' = <<>>
    BY <1>0, <2>1, Alone DEF Return
  <2>3. ~Announcing'
    BY <2>2 DEF Announcing, At
  <2>4. ASSUME NEW o \in Ops, NEW k, NEW d, ops' = [ops EXCEPT ![o] = NewOp(k, target, d)], live' = o
        PROVE  UInv'
    <3>1. ops'[o].conn
      BY <1>0, <2>4, NewOpFields
    <3>2. \A x \in Ops : x # o => ops'[x] = ops[x]
      BY <2>4
    <3>3. UntoldIsLive'
      BY <1>0, <2>1, <2>4, <3>1, <3>2 DEF UInv, UntoldIsLive
    <3> QED BY <2>3, <3>3 DEF UInv
  <2>5. \/ UNCHANGED <<ops, live>>
        \/ \E o \in Ops, k \in Kinds, d \in {Empty, Top.data} :
             ops' = [ops EXCEPT ![o] = NewOp(k, target, d)] /\ live' = o
    BY <1>6 DEF StartLoad, SaveAsync, Kinds
  <2> QED BY <1>1, <2>3, <2>4, <2>5
<1>7. CASE SaveSync
  <2>1. stack # <<>> /\ Head(stack).at = "saveSync" /\ Goto(<<F("emittedSync")>>)
    BY <1>7 DEF SaveSync, At, Top
  <2>2. F("emittedSync") \in Frame /\ F("emittedSync").at = "emittedSync"
    BY PlainFrames DEF F
  <2>3. stack' # <<>> /\ Head(stack') = F("emittedSync")
    BY <1>0, <2>1, <2>2, GotoOne
  <2>4. ~Announcing'
    BY <2>2, <2>3 DEF Announcing, At, Top
  <2> QED BY <1>1, <1>7, <2>4 DEF SaveSync
<1>8. CASE WaitForJob \/ \E o \in Ops : OperationFinished(o)
  <2>1. live \in Ops /\ live' = live /\ \E c \in BOOLEAN : Apply(live, c)
    BY <1>0, <1>8 DEF WaitForJob, OperationFinished, TypeOK
  <2>2. \A x \in Ops : x # live => ops'[x] = ops[x]
    BY <1>0, <2>1 DEF Apply
  <2>3. ops'[live].told
    BY <1>0, <2>1 DEF Apply, TypeOK, Operation
  <2> QED BY <2>1, <2>2, <2>3 DEF UInv, UntoldIsLive
<1>9. CASE OperationFinishedDone
  <2>1. stack # <<>> /\ Head(stack).at = "finished" /\ Top.op = live /\ Return
    BY <1>9 DEF OperationFinishedDone, At, Top, IInv, AnnouncingLive
  <2>2. stack' = <<>>
    BY <1>0, <2>1, Alone DEF Return
  <2> QED BY ForgottenStep, <1>9, <2>1, <2>2 DEF OperationFinishedDone, Announcing, At
<1>10. ASSUME NEW o \in Ops, DroppedFinished(o) PROVE UInv'
  <2>1. ~Announcing' /\ live' = live /\ ops' = [ops EXCEPT ![o] = Gone]
    BY <1>10 DEF DroppedFinished, view, Announcing, At
  <2> QED BY <2>1, ForgottenStep
<1>11. CASE FileChanged
  <2>1. stack = <<>> /\ ops' = ops /\ live' = live
    BY <1>11 DEF FileChanged
  <2>2. stack' = <<>> \/ Head(stack').at = "loadAsync"
    BY <1>11, <2>1 DEF FileChanged, F
  <2>3. ~Announcing'
    BY <2>2 DEF Announcing, At, Top
  <2> QED BY <1>1, <2>1, <2>3
<1> QED BY <1>2, <1>3, <1>4, <1>5, <1>6, <1>7, <1>8, <1>9, <1>10, <1>11 DEF MainStep

LEMMA ToldInvariant ==
  ASSUME Handlers = FALSE
  PROVE  Spec => []UInv
<1>1. Init => UInv
  <2> SUFFICES ASSUME Init PROVE UInv
    OBVIOUS
  <2>1. stack = <<>> /\ \A o \in Ops : ops[o].pc = "gone"
    BY DEF Init, Gone
  <2> QED BY <2>1 DEF UInv, UntoldIsLive, Announcing, At
<1>2. TypeOK /\ IInv /\ UInv /\ [Next]_vars => UInv'
  <2> SUFFICES ASSUME TypeOK, IInv, UInv, [Next]_vars PROVE UInv'
    OBVIOUS
  <2>1. CASE ShellCall
    BY <2>1, ShellCallKeepsUInv, Zenon
  <2>2. CASE MainStep
    BY <2>2, MainStepKeepsUInv
  <2>3. ASSUME NEW o \in Ops, PoolThread(o) PROVE UInv'
    BY <2>3, PoolThreadKeepsUInv
  <2>4. CASE UNCHANGED <<stack, ops, live>>
    <3>1. Announcing' => Announcing
      BY <2>4 DEF Announcing, At, Top
    <3> QED BY <2>4, <3>1, SameOutcomes
  <2>5. ASSUME NEW p \in Paths, NEW c \in Data \cup {NoFile}, ExternalWrite(p, c) PROVE UInv'
    BY <2>4, <2>5 DEF ExternalWrite, view
  <2>6. CASE UNCHANGED vars
    BY <2>4, <2>6 DEF vars, view
  <2> QED BY <2>1, <2>2, <2>3, <2>5, <2>6 DEF Next
<1> QED BY <1>1, <1>2, TypeCorrect, SerialInvariant, PTL DEF Spec

\* No write is forgotten before saved() or saveFailed() has told its outcome,
\* whichever of waitForJob() and the queued finished() gets to it first.
THEOREM EveryWriteIsTold ==
  ASSUME Handlers = FALSE
  PROVE  Spec => OutcomeAnnounced
<1>1. TypeOK /\ IInv /\ UInv /\ [Next]_vars
        => [\A o \in Ops : ops[o].kind = "writer" /\ ops[o].pc = "posted" /\ ops'[o].pc = "gone"
                            => ops[o].told]_vars
  <2> SUFFICES ASSUME TypeOK, IInv, UInv, Next, NEW o \in Ops,
                      ops[o].kind = "writer", ops[o].pc = "posted", ops'[o].pc = "gone"
               PROVE  ops[o].told
    OBVIOUS
  <2>1. NoOp \notin Ops /\ DOMAIN ops = Ops
    BY DistinctValues DEF TypeOK, DistinctValues
  <2>2. ops'[o] # ops[o]
    OBVIOUS
  <2>3. CASE ShellCall \/ \E p \in Paths, c \in Data \cup {NoFile} : ExternalWrite(p, c)
    BY <2>2, <2>3 DEF ShellCall, SetPath, SetData, SetDataNoPath, SetOption, Reload, UpdatePath,
         WaitForJobCall, ReadAsync, ReadWaiting, ReadSync, ExternalWrite, view
  <2>4. ASSUME NEW x \in Ops, PoolThread(x) PROVE ops[o].told
    <3>1. x # o
      <4>1. Active(x)
        BY <2>4 DEF PoolThread, Canceled, ReaderCheck, ReaderRead, WriterCheck, WriterOpen,
                    WriterWrite, WriterCommit, At1, Active
      <4> QED BY <4>1 DEF Active
    <3>2. ops'[o] = ops[o]
      <4>1. \/ \E pc, s : ops' = [ops EXCEPT ![x].pc = pc, ![x].state = s]
            \/ \E pc : ops' = [ops EXCEPT ![x].pc = pc]
        <5>1. CASE Canceled(x)
          BY <5>1 DEF Canceled, Post
        <5>2. CASE ReaderCheck(x) \/ WriterCheck(x)
          BY <5>2 DEF ReaderCheck, WriterCheck, Post
        <5>3. CASE ReaderRead(x)
          BY <5>3 DEF ReaderRead, Post, Failed
        <5>4. CASE WriterOpen(x) \/ WriterWrite(x) \/ WriterCommit(x)
          BY <5>4 DEF WriterOpen, WriterWrite, WriterCommit, Step, Land, Post, Failed
        <5> QED BY <2>4, <5>1, <5>2, <5>3, <5>4 DEF PoolThread
      <4> QED BY <2>1, <3>1, <4>1
    <3> QED BY <2>2, <3>2
  <2>5. CASE OperationFinishedDone
    <3>1. Announcing /\ Top.op = live /\ ops' = [ops EXCEPT ![Top.op] = Gone]
      BY <2>5 DEF OperationFinishedDone, Announcing, IInv, AnnouncingLive
    <3>2. o = live
      BY <2>1, <2>2, <3>1
    <3> QED BY <3>1, <3>2 DEF UInv
  <2>6. ASSUME NEW x \in Ops, DroppedFinished(x) PROVE ops[o].told
    <3>1. ops' = [ops EXCEPT ![x] = Gone] /\ ~(ops[x].conn /\ x = live)
      BY <2>6 DEF DroppedFinished
    <3>2. o = x
      BY <2>1, <2>2, <3>1
    <3> QED BY <3>1, <3>2 DEF UInv, UntoldIsLive
  <2>7. CASE WaitForJob \/ \E x \in Ops : OperationFinished(x)
    <3>1. live \in Ops /\ \E c \in BOOLEAN : Apply(live, c)
      BY <2>1, <2>7 DEF WaitForJob, OperationFinished, TypeOK
    <3>2. ops'[o].pc = ops[o].pc
      BY <2>1, <3>1 DEF Apply, TypeOK, Operation
    <3> QED BY <3>2
  <2>8. CASE StartLoad \/ SaveAsync
    <3>1. \/ ops' = ops
          \/ \E x \in Ops, k \in Kinds, d \in {Empty, Top.data} : ops[x].pc = "gone" /\ ops' = [ops EXCEPT ![x] = NewOp(k, target, d)]
      BY <2>8 DEF StartLoad, SaveAsync, Kinds
    <3>2. ops'[o] = ops[o]
      BY <2>1, <3>1
    <3> QED BY <2>2, <3>2
  <2>9. CASE CancelAsync
    <3>1. ops'[o].pc = ops[o].pc
      <4>1. live = NoOp \/ LiveReader \/ LiveWriter
        BY DEF TypeOK, LiveReader, LiveWriter, Operation, Kinds
      <4>2. \/ ops' = ops
            \/ ops' = [ops EXCEPT ![live].cancel = TRUE, ![live].conn = FALSE]
            \/ ops' = [ops EXCEPT ![live].cancel = TRUE]
        BY <2>9, <4>1 DEF CancelAsync
      <4> QED BY <2>1, <4>2 DEF TypeOK, Operation
    <3> QED BY <3>1
  <2>10. CASE SetPathContinue \/ WaitForJobDone \/ SyncDone \/ LoadAsync \/ SaveSync \/ FileChanged
    BY <2>2, <2>10 DEF SetPathContinue, UpdatePath, WaitForJobDone, SyncDone, LoadAsync, SaveSync, FileChanged
  <2> QED BY <2>3, <2>4, <2>5, <2>6, <2>7, <2>8, <2>9, <2>10 DEF Next, MainStep
<1> QED BY <1>1, ToldInvariant, SerialInvariant, TypeCorrect, PTL DEF Spec, OutcomeAnnounced
===========================================================================
