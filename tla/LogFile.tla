--------------------------------- MODULE LogFile -------------------------------
(* The detailed log of a shell: the filters of categories, the thread that    *)
(* encodes messages into a file, and the process that reads it, also while it *)
(* is written.  src/src/core/logging.cpp, logging_qtprivate.cpp, ringbuf.hpp. *)
EXTENDS Integers, Sequences, FiniteSets, Functions

CONSTANTS
  Levels,      \* types of messages that are made, of Debug, Info, Warn, Critical, Fatal
  Categories,  \* the shell's logging categories
  Foreign,     \* those of others
  DefaultLevel,\* DefaultLevel[category]: its level, or that of the command line
  Rules,       \* rules of the command line: records of covers, level, enabled
  ReadRules,   \* rules the log is read with
  Sparse,      \* --no-detailed-logs
  Bodies,      \* texts
  Steps,       \* seconds between messages
  Ring,        \* the messages that are remembered (256)
  Tails,       \* values of --tail; 0 is none
  MaxMessages  \* bound: messages

VARIABLES
  clock,       \* the time, in seconds
  posted,      \* messages on their way to the logging thread
  onDisk,      \* initFs() was called
  ended,       \* the detailed log ended, as a write failed
  alive,       \* the shell runs, and has its lock
  file,        \* the detailed log
  writer,      \* EncodedLogWriter
  reader,      \* EncodedLogReader and LogReader
  notice,      \* fileChanged() is on its way to who follows
  printed,     \* what was printed
  made,        \* bound: messages made
  written,     \* history: messages that were written
  odd          \* history: seconds that the encoding has no room for

logVars == <<clock, made, posted, onDisk, ended, alive, file, writer, reader, notice, printed, written, odd>>

AllLevels == <<"Debug", "Info", "Warn", "Critical">>
LevelOf(t) == CHOOSE i \in 1..4 : AllLevels[i] = t

-----------------------------------------------------------------------------
(* Filters: the levels of a category that are on                             *)

\* QLoggingRule::pass() and CategoryFilter::applyRule(), rule by rule.
ApplyRule(filter, rule, category) ==
  LET hit == {t \in Range(AllLevels) : category \in rule.covers /\ rule.level \in {"any", t}}
  IN IF rule.enabled THEN filter \cup hit ELSE filter \ hit
ApplyRules(filter, rules, category) ==
  LET after[k \in 0 .. Len(rules)] == IF k = 0 THEN filter ELSE ApplyRule(after[k - 1], rules[k], category)
  IN after[Len(rules)]
\* filterCategory()
FilterOf(category) ==
  LET base == IF category \in Categories THEN {t \in Range(AllLevels) : LevelOf(t) >= LevelOf(DefaultLevel[category])}
              ELSE Range(AllLevels)
  IN ApplyRules(base, Rules, category)
ShouldDisplay(filter, type) == type = "Fatal" \/ type \in filter
\* Without --no-detailed-logs the shell's own categories are all on, and filtered when shown.
IsMade(category, type) == ShouldDisplay(FilterOf(category), type) \/ (category \in Categories /\ ~Sparse)

-----------------------------------------------------------------------------
(* The encoding.  A file is numbers, of one, three or seven bytes, times and  *)
(* texts.                                                                     *)

Num(n)  == [kind |-> "num", n |-> n]
Time(n) == [kind |-> "time", n |-> n]
Text(t) == [kind |-> "text", text |-> t]
Register        == 0
RecentShort     == 1
RecentLong      == 2
BeginCategories == 3
Same(m, n) == m.type = n.type /\ m.category = n.category /\ m.body = n.body
IndexOf(recent, m) == IF \E i \in DOMAIN recent : Same(recent[i], m)
                      THEN (CHOOSE i \in DOMAIN recent : Same(recent[i], m) /\ \A j \in 1..(i - 1) : ~Same(recent[j], m)) - 1
                      ELSE -1
\* RingBuffer::emplace(), the last first.
Emplace(recent, m) == LET all == <<m>> \o recent IN IF Len(all) > Ring THEN SubSeq(all, 1, Ring) ELSE all

\* getOrCreateCategory()
CategoryId(cats, c) == CHOOSE i \in 1..(Len(cats) + 1) : i = Len(cats) + 1 \/ cats[i] = c
Registers(cats, c)  == IF c \in Range(cats) THEN <<>> ELSE <<Num(Register), Text(c), Num(0)>>
WithCategory(cats, c) == IF c \in Range(cats) THEN cats ELSE Append(cats, c)

\* write(): what it adds to the file.
TimeField(delta) == IF delta >= 29 THEN IF delta < 65535 THEN 29 ELSE 30 ELSE delta % 32
Encoded(w, m) ==
  LET index == IndexOf(w.recent, m)
      delta == m.time - w.last
      cats  == WithCategory(w.cats, m.category)
  IN IF index >= 0 THEN
       IF delta < 16 /\ index < 16 THEN <<Num(RecentShort), Num((index + 16 * delta) % 256)>>
       ELSE <<Num(RecentLong), Num(index), Num(delta)>>
     ELSE Registers(w.cats, m.category) \o <<Num(BeginCategories + CategoryId(cats, m.category) - 1)>> \o
          (IF m.type = "Fatal" THEN <<Num(255), Time(m.time)>>
           ELSE <<Num(LevelOf(m.type) - 1 + 8 * TimeField(delta))>> \o
                (IF delta < 29 THEN <<>> ELSE IF delta > 65535 THEN <<Time(m.time)>> ELSE <<Num(delta)>>))
          \o <<Text(m.body)>>
\* Mutant: the time of a message that is remembered is not taken.
AfterWriteStale(w, m) ==
  [cats   |-> WithCategory(w.cats, m.category), recent |-> Emplace(w.recent, m),
   last   |-> IF IndexOf(w.recent, m) >= 0 THEN w.last ELSE m.time]
AfterWrite(w, m) ==
  [cats   |-> IF IndexOf(w.recent, m) >= 0 THEN w.cats ELSE WithCategory(w.cats, m.category),
   recent |-> Emplace(w.recent, m), last |-> m.time]

-----------------------------------------------------------------------------
(* The decoding: read() takes one message from r.pos on.  A reader that is    *)
(* out of step with the writer is taken to fail.                              *)

At(r, k)      == file[r.pos + k]
IsNum(r, k)   == r.pos + k <= Len(file) /\ At(r, k).kind = "num"
IsTime(r, k)  == r.pos + k <= Len(file) /\ At(r, k).kind = "time"
IsText(r, k)  == r.pos + k <= Len(file) /\ At(r, k).kind = "text"
Fail(r)       == [r EXCEPT !.failed = TRUE]
Takes(r, m, n) == [r EXCEPT !.pos = @ + n, !.last = m.time, !.recent = Emplace(@, m), !.got = Append(@, m)]

ReadRecent(r) ==
  LET long  == At(r, 1).n = RecentLong
      index == IF long THEN At(r, 2).n ELSE At(r, 2).n % 16
      delta == IF long THEN At(r, 3).n ELSE At(r, 2).n \div 16
  IN IF ~IsNum(r, 2) \/ (long /\ ~IsNum(r, 3)) THEN Fail(r)
     ELSE IF index >= Len(r.recent) THEN Fail(r)
     ELSE Takes(r, [r.recent[index + 1] EXCEPT !.time = r.last + delta], IF long THEN 3 ELSE 2)
\* A field of 31 is a time of 31 seconds, one of 30 is followed by a time, which is added as others are.
ReadNew(r) ==
  LET field == At(r, 2).n
      code  == field \div 8
      fatal == field = 255
      timed == fatal \/ code = 30
      extra == timed \/ code = 29
      delta == IF extra THEN At(r, 3).n ELSE code
      text  == IF extra THEN 4 ELSE 3
  IN IF ~IsNum(r, 2) \/ (timed /\ ~IsTime(r, 3)) \/ (extra /\ ~timed /\ ~IsNum(r, 3)) \/ ~IsText(r, text) THEN Fail(r)
     ELSE Takes(r, [type |-> IF fatal THEN "Fatal" ELSE AllLevels[(field % 4) + 1],
                    category |-> r.cats[At(r, 1).n - BeginCategories + 1], body |-> At(r, text).text,
                    time |-> r.last + delta], text)
ReadOne(r) ==
  IF r.failed \/ r.pos = Len(file) THEN r
  ELSE IF ~IsNum(r, 1) THEN Fail(r)
  ELSE IF At(r, 1).n = Register THEN
    IF ~IsText(r, 2) \/ ~IsNum(r, 3) \/ r.pos + 3 = Len(file) THEN Fail(r) ELSE [r EXCEPT !.pos = @ + 3, !.cats = Append(@, At(r, 2).text)]
  ELSE IF At(r, 1).n < BeginCategories THEN ReadRecent(r)
  ELSE IF At(r, 1).n - BeginCategories + 1 > Len(r.cats) THEN Fail(r) ELSE ReadNew(r)
\* As long as there is something to read.
ReadAll(r) ==
  LET left == Len(file) - r.pos
      read[k \in 0 .. left] == IF k = 0 THEN r ELSE ReadOne(read[k - 1])
  IN read[left]

\* continueReading(): each reading prints, of what passes the rules, its last messages.
Passes(m) == ShouldDisplay(ApplyRules(FilterOf(m.category), ReadRules, m.category), m.type)
LastOf(list, tail) == IF tail = 0 \/ Len(list) <= tail THEN list ELSE SubSeq(list, Len(list) - tail + 1, Len(list))
ContinueReading(state) ==
  LET r   == ReadAll(reader)
      new == SelectSeq(SubSeq(r.got, Len(reader.got) + 1, Len(r.got)), Passes)
  IN /\ reader' = [r EXCEPT !.state = IF r.failed THEN "exited" ELSE state]
     /\ printed' = printed \o LastOf(new, reader.tail)

-----------------------------------------------------------------------------
(* The logging thread                                                        *)

\* onMessage(), at first in the thread that logs, into memory.
Writes(m) ==
  /\ file' = file \o Encoded(writer, m) /\ writer' = AfterWrite(writer, m) /\ written' = Append(written, m)
  /\ odd' = (odd \/ (writer.last # 0 /\ (m.time < writer.last \/
                       (IndexOf(writer.recent, m) < 0 /\ (m.type = "Fatal" \/ m.time - writer.last >= 65535)))))
  /\ notice' = (notice \/ reader.state = "follows")
NotWritten == UNCHANGED <<file, writer, written, odd, notice>>

\* messageHandler(): a message gets its time, and is passed on in this order.
MessageHandler(type, category, body, step) ==
  LET m == [type |-> type, category |-> category, body |-> body, time |-> clock + step] IN
  /\ alive /\ made < MaxMessages /\ IsMade(category, type)
  /\ clock' = clock + step /\ made' = made + 1
  /\ IF onDisk THEN posted' = Append(posted, m) /\ NotWritten
     ELSE IF ended THEN UNCHANGED posted /\ NotWritten ELSE UNCHANGED posted /\ Writes(m)
  /\ UNCHANGED <<onDisk, ended, alive, reader, printed>>
\* initFs(): what was in memory is copied; from now on messages are queued.
InitFs ==
  /\ alive /\ ~onDisk /\ onDisk' = TRUE
  /\ UNCHANGED <<clock, made, posted, ended, alive, file, writer, reader, notice, printed, written, odd>>
OnMessage ==
  /\ alive /\ posted # <<>> /\ posted' = Tail(posted) /\ (IF ended THEN NotWritten ELSE Writes(Head(posted)))
  /\ UNCHANGED <<clock, made, onDisk, ended, alive, reader, printed>>
\* The file cannot be written, or not all of it: the detailed log ends.
WriteFails(k) ==
  /\ alive /\ onDisk /\ posted # <<>> /\ ~ended /\ ended' = TRUE /\ posted' = Tail(posted)
  /\ LET e == Encoded(writer, Head(posted)) IN k < Len(e) /\ file' = file \o SubSeq(e, 1, k)
  /\ notice' = (notice \/ (reader.state = "follows" /\ k > 0))
  /\ UNCHANGED <<clock, made, onDisk, alive, writer, reader, printed, written, odd>>
\* The shell ends or crashes, which frees its lock.
Ends == /\ alive /\ alive' = FALSE
        /\ UNCHANGED <<clock, made, posted, onDisk, ended, file, writer, reader, notice, printed, written, odd>>

-----------------------------------------------------------------------------
(* qs log                                                                    *)

\* readEncodedLogs(): a first reading; with --follow the file is watched from then on.
ReadEncodedLogs ==
  /\ onDisk /\ reader.state = "none" /\ ContinueReading(IF reader.follow THEN "reads" ELSE "exited")
  /\ UNCHANGED <<clock, made, posted, onDisk, ended, alive, file, writer, notice, written, odd>>
\* follow()
Follow ==
  /\ reader.state = "reads" /\ reader' = [reader EXCEPT !.state = "follows"]
  /\ UNCHANGED <<clock, made, posted, onDisk, ended, alive, file, writer, notice, printed, written, odd>>
OnFileChanged ==
  /\ reader.state = "follows" /\ notice /\ notice' = FALSE /\ ContinueReading("follows")
  /\ UNCHANGED <<clock, made, posted, onDisk, ended, alive, file, writer, written, odd>>
\* The lock of the shell is free: all is read, and that is the end.
OnFileLocked ==
  /\ reader.state = "follows" /\ ~alive /\ ContinueReading("exited")
  /\ UNCHANGED <<clock, made, posted, onDisk, ended, alive, file, writer, notice, written, odd>>

Init ==
  /\ clock = 100000 /\ made = 0 /\ posted = <<>> /\ onDisk = FALSE /\ ended = FALSE /\ alive = TRUE /\ file = <<>>
  /\ writer = [cats |-> <<>>, recent |-> <<>>, last |-> 0] /\ notice = FALSE /\ printed = <<>>
  /\ \E follow \in BOOLEAN, tail \in Tails :
       reader = [pos |-> 0, cats |-> <<>>, recent |-> <<>>, last |-> 0, got |-> <<>>, failed |-> FALSE,
                 state |-> "none", follow |-> follow, tail |-> tail]
  /\ written = <<>> /\ odd = FALSE
Next ==
  \/ \E t \in Levels, c \in Categories \cup Foreign, b \in Bodies, s \in Steps : MessageHandler(t, c, b, s)
  \/ InitFs \/ OnMessage \/ Ends \/ \E k \in 0..4 : WriteFails(k)
  \/ ReadEncodedLogs \/ Follow \/ OnFileChanged \/ OnFileLocked

-----------------------------------------------------------------------------
\* What is read of the log, also while it is written, is what was written, in its order and with
\* its time; reading fails only if a write did; and who follows has all of it when the shell
\* ends.  Times that the encoding has no room for are left out.
LogReadsBack ==
  ~odd => /\ Len(reader.got) <= Len(written) /\ reader.got = SubSeq(written, 1, Len(reader.got))
          /\ reader.failed => ended
          /\ reader.state = "exited" /\ reader.follow /\ ~reader.failed => reader.got = written

\* Everything that passes the filters of the shell and the rules it is read with is printed, once.
PrintsWhatPasses == reader.tail = 0 => printed = SelectSeq(reader.got, Passes)
=============================================================================
