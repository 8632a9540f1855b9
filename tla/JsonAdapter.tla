------------------------------ MODULE JsonAdapter ------------------------------
(* The properties of a JsonAdapter and the file of its FileView, as the       *)
(* documentation composes them: what is changed is saved (writeAdapter() by   *)
(* onAdapterUpdated), and what others write is loaded (reload() by            *)
(* onFileChanged).  src/src/io/jsonadapter.cpp, with as much of fileview.cpp  *)
(* as it meets; the rest of that is in FileView.                              *)
EXTENDS Naturals

CONSTANTS
  Numbers,      \* values of properties
  Documents,    \* what others write to the file: objects, and Broken
  MaxJsonActs   \* bound: what the configuration and others do

VARIABLES
  props,        \* JsonAdapter: property p, sub (an object: "own" of the QML, "made" by a load (one of
                \* createdObjects), or "null"), and own's property v
  text,         \* the file
  fview,        \* FileView: its data, writeData and live operation
  told,         \* the watcher has not told of a change yet
  last,         \* history: what p was set to last, if nobody wrote the file since
  missed,       \* history: why properties and file may differ
  jsonActs

jsonVars == <<props, text, fview, told, last, missed, jsonActs>>

\* Keys that are not there are "none".
Doc(p, sub) == [p |-> p, sub |-> sub]
None        == Doc("none", "none")
Broken      == Doc("broken", "broken")   \* no JSON, or none of an object
NoOp == [kind |-> "none", content |-> None, done |-> FALSE]

-----------------------------------------------------------------------------
(* Conversions.                                                              *)

\* serializeRec().  A "made" object is a JsonObject without properties of its own.
Serialize(a) == Doc(a.p, IF a.sub = "own" THEN a.v ELSE IF a.sub = "made" THEN "bare" ELSE "null")

\* deserializeRec(): p, then sub.  An object is made for one where there was none; objects that were
\* made before are deleted unless they are met again, and a property that had one is null.
WithSub(a, sub) ==
  IF sub = "none" THEN IF a.sub = "made" THEN [a EXCEPT !.sub = "null"] ELSE a
  ELSE IF sub = "null" THEN [a EXCEPT !.sub = "null"]
  ELSE IF a.sub # "own" THEN [a EXCEPT !.sub = "made"]
  ELSE IF sub = "bare" THEN a ELSE [a EXCEPT !.v = sub]

\* deserializeAdapter(): what the adapter may become.  Whoever hears of p may set v, which is not
\* announced (changesBlocked), and may be overwritten in turn.
Deserialize(a, d) ==
  IF d \in {Broken, None} THEN {a}
  ELSE LET b == IF d.p = "none" THEN a ELSE [a EXCEPT !.p = d.p]
       IN {WithSub([b EXCEPT !.v = v], d.sub) : v \in IF b.p = a.p THEN {b.v} ELSE Numbers}

-----------------------------------------------------------------------------
(* FileView.                                                                 *)

\* updateState(): the adapter hears only of other data.
UpdateState(a, data) == IF data = fview.data THEN {a} ELSE Deserialize(a, data)
Ends(done) == fview' = [fview EXCEPT !.data = done, !.writeData = None, !.op = NoOp]

\* writeAdapter(): setData() does nothing if this is what is held, or being written.
WriteCmpData == IF fview.writeData = None THEN fview.data ELSE fview.writeData
Writing(content) == [kind |-> "write", content |-> content, done |-> FALSE]
Starts(data, content) ==
  fview' = [data |-> data, writeData |-> IF fview.op.kind = "write" THEN None ELSE content, op |-> Writing(content)]
\* saveAsync(): a read is cancelled.  A write is waited for, and the adapter is given what was written,
\* which takes back what was just set: if it is saved again before this write ends, it is as before.
\* The thread that writes may see shouldCancel before it wrote (cut).
WriteAdapter(a, setsP) ==
  LET content == Serialize(a)
      waited  == fview.op.kind = "write"
      older   == IF setsP THEN {} ELSE missed \cap {"dropped", "overtaken"}
  IN IF content = WriteCmpData
     THEN /\ props' = a /\ UNCHANGED <<text, fview, told>>
          /\ missed' = (missed \cap {"busy", "reverted"}) \cup older
                       \cup (IF waited /\ fview.op.content # content /\ setsP THEN {"dropped"} ELSE {})
     ELSE /\ props' \in IF waited THEN UpdateState(a, fview.op.content) ELSE {a}
          /\ missed' = older \cup (IF props'.p # a.p THEN {"reverted"} ELSE {})
                             \cup (IF "reverted" \in missed /\ ~setsP THEN {"overtaken"} ELSE {})
          /\ \E cut \in IF waited /\ ~fview.op.done THEN BOOLEAN ELSE {TRUE} :
               text' = (IF cut THEN text ELSE fview.op.content) /\ told' = (told \/ ~cut)
          /\ Starts(IF waited THEN fview.op.content ELSE fview.data, content)

\* The pool's thread reads, or replaces the file.
ThreadRuns ==
  /\ fview.op.kind # "none" /\ ~fview.op.done
  /\ IF fview.op.kind = "read"
     THEN fview' = [fview EXCEPT !.op.content = text, !.op.done = TRUE] /\ UNCHANGED <<text, told>>
     ELSE fview' = [fview EXCEPT !.op.done = TRUE] /\ text' = fview.op.content /\ told' = TRUE
  /\ UNCHANGED <<props, last, missed, jsonActs>>

OperationFinished ==
  /\ fview.op.done
  /\ props' \in UpdateState(props, fview.op.content)
  /\ missed' = missed \ {"reverted"}
  /\ Ends(fview.op.content) /\ UNCHANGED <<text, told, last, jsonActs>>

\* reload() while there is an operation does nothing (loadAsync()).
FileChanged ==
  /\ told /\ told' = FALSE
  /\ fview' = IF fview.op.kind = "none" THEN [fview EXCEPT !.op = [NoOp EXCEPT !.kind = "read"]] ELSE fview
  /\ missed' = IF fview.op.done /\ fview.op.content # text THEN missed \cup {"busy"}
                ELSE IF fview.op.kind = "none" THEN missed \ {"busy"} ELSE missed
  /\ UNCHANGED <<props, text, last, jsonActs>>

-----------------------------------------------------------------------------
Act == jsonActs < MaxJsonActs /\ jsonActs' = jsonActs + 1

\* onPropertyChanged(): of the adapter, and of "own", which stays connected.
SetP(p) == Act /\ p # props.p /\ last' = p /\ WriteAdapter([props EXCEPT !.p = p], TRUE)
SetV(v) == Act /\ v # props.v /\ UNCHANGED last /\ WriteAdapter([props EXCEPT !.v = v], FALSE)
SetSub(sub) == Act /\ sub # props.sub /\ UNCHANGED last /\ WriteAdapter([props EXCEPT !.sub = sub], FALSE)

\* Another program writes the file.
OtherWrites(d) ==
  /\ Act /\ text # d /\ text' = d /\ told' = TRUE /\ last' = "none"
  /\ UNCHANGED <<props, fview, missed>>

\* The file is being read for the first time.
Init ==
  /\ text \in Documents
  /\ props \in [p : Numbers, sub : {"own", "null"}, v : Numbers]
  /\ fview = [data |-> None, writeData |-> None, op |-> [NoOp EXCEPT !.kind = "read"]]
  /\ told = FALSE /\ last = "none" /\ missed = {} /\ jsonActs = 0

Next ==
  \/ ThreadRuns \/ OperationFinished \/ FileChanged
  \/ \E n \in Numbers : SetP(n) \/ SetV(n)
  \/ \E sub \in {"own", "null"} : SetSub(sub)
  \/ \E d \in Documents : OtherWrites(d)

-----------------------------------------------------------------------------
AtRest == fview.op = NoOp /\ ~told

\* At rest each property that the file mentions is as the file says, whatever the configuration and
\* other programs wrote meanwhile, and whoever heard of a load set: unless a reload found an operation
\* at work that had read or written before (fileview.cpp:302).
ShowsFile ==
  AtRest /\ "busy" \notin missed /\ text # Broken =>
    /\ text.p \in Numbers => props.p = text.p
    /\ text.sub = "null"  => props.sub = "null"
    /\ text.sub \in Numbers /\ props.sub = "own" => props.v = text.sub
    /\ text.sub \in Numbers \cup {"bare"} => props.sub # "null"

\* What a property was set to last is what the file says at rest, if nobody else wrote it: unless it was
\* what was held before while another was being written (fileview.cpp:586), or others were set while
\* it was taken back (fileview.cpp:329).
LastSetIsKept == AtRest /\ last # "none" /\ missed \cap {"dropped", "overtaken"} = {} => props.p = last
\* What is set in properties is saved, also if others are set after it: "When properties of a JsonAdapter
\* ... are changed from QML, adapterUpdated is emitted, which may be used to save the file's new state".
EverySetIsSaved == AtRest /\ last # "none" /\ "dropped" \notin missed => props.p = last
AdapterHolds  == ShowsFile /\ LastSetIsKept
=============================================================================
