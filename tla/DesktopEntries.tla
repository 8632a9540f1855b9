----------------------------- MODULE DesktopEntries ----------------------------
(* The desktop entries: directories that are scanned by a thread, again when  *)
(* they change, and the entries that are kept from one scan to the next.      *)
(* src/src/core/desktopentry.cpp, desktopentrymonitor.cpp.                    *)
EXTENDS Naturals, Sequences, FiniteSets, SequencesExt

CONSTANTS
  Dirs,          \* desktopPaths(): a sequence, the first goes before the others
  EntryIds,      \* ids, which may differ by their case only
  LowerId,       \* LowerId[id]: toLower()
  Contents,      \* kinds of files
  Says,          \* Says[kind]: what a file says, a record of hidden, noDisplay, names
  System,        \* the locale of the session: a record of language, territory, modifier
  EntryObjs,     \* DesktopEntry objects
  MaxFileChanges \* bound: changes of files

VARIABLES
  files,         \* what is on the disk; NoFile where there is none
  watched,       \* directories that were there when the monitor started
  notice,        \* directoryChanged() is on its way
  debounce,      \* the timer of 100 ms runs
  scans,         \* scanners at work: the directories left and what was found
  completed,     \* the result of a scan is on its way
  inProgress, queued, \* scanInProgress, scanQueued
  entries,       \* desktopEntries
  lower,         \* lowercaseDesktopEntries
  doomed,        \* objects that are deleted later
  fileChanges,   \* bound
  unseen         \* history: files changed unnoticed since a scan began

entryVars == <<files, watched, notice, debounce, scans, completed, inProgress, queued, entries, lower, doomed,
               fileChanges, unseen>>

NoFile == "none"

-----------------------------------------------------------------------------
(* Parsing                                                                   *)

\* Locale::matchScore(): how well the locale of a line fits that of the session.
MatchScore(line) ==
  IF \/ System.language # line.language
     \/ line.modifier # "" /\ System.modifier # line.modifier
     \/ line.territory # "" /\ System.territory # line.territory THEN 0
  ELSE 1 + (IF line.territory # "" THEN 2 ELSE 0) + (IF line.modifier # "" THEN 1 ELSE 0)

\* parseText(): of the lines of one key, the value that is kept.
Better(old, new) == MatchScore(new.locale) > MatchScore(old.locale)
                    \/ (MatchScore(old.locale) = 0 /\ new.locale.language = "")
ParsedName(names) ==
  IF names = <<>> THEN ""
  ELSE FoldLeft(LAMBDA kept, line : IF Better(kept, line) THEN line ELSE kept, Head(names), Tail(names)).value
Parse(kind) ==
  [hidden |-> Says[kind].hidden, noDisplay |-> Says[kind].noDisplay, name |-> ParsedName(Says[kind].names)]

-----------------------------------------------------------------------------
(* Scanning                                                                  *)

\* scanDirectory()
Found(d) ==
  LET there == SelectSeq(SetToSeq(EntryIds), LAMBDA i : files[d][i] # NoFile)
  IN [k \in DOMAIN there |-> [id |-> there[k], data |-> Parse(files[d][there[k]])]]

\* The directories in reverse: what comes last is kept.
NewScan == [left |-> Reverse(Dirs), found |-> <<>>]
\* scanDesktopEntries(), handleFileChanges()
Scan(running) ==
  IF running THEN /\ queued' = TRUE /\ inProgress' = TRUE /\ UNCHANGED <<scans, unseen>>
  ELSE /\ queued' = FALSE /\ inProgress' = TRUE /\ scans' = Append(scans, NewScan) /\ unseen' = FALSE

\* A thread reads a directory, and when it read them all posts the result.
ScanDirectory(n) ==
  /\ n \in DOMAIN scans /\ scans[n].left # <<>>
  /\ LET s == [left |-> Tail(scans[n].left), found |-> scans[n].found \o Found(Head(scans[n].left))]
     IN IF s.left = <<>> THEN completed' = Append(completed, s.found) /\ scans' = RemoveAt(scans, n)
        ELSE scans' = [scans EXCEPT ![n] = s] /\ UNCHANGED completed
  /\ UNCHANGED <<files, watched, notice, debounce, inProgress, queued, entries, lower, doomed, fileChanges, unseen>>

\* The monitor: onDirectoryChanged(), which starts the timer again, and processChanges().
\* What the constructor posted is handled before the event loop hears of a change.
OnDirectoryChanged ==
  /\ (completed # <<>> => inProgress) /\ notice /\ notice' = FALSE /\ debounce' = TRUE
  /\ UNCHANGED <<files, watched, scans, completed, inProgress, queued, entries, lower, doomed, fileChanges, unseen>>
HandleFileChanges ==
  /\ debounce /\ debounce' = FALSE /\ Scan(inProgress)
  /\ UNCHANGED <<files, watched, notice, completed, entries, lower, doomed, fileChanges>>

-----------------------------------------------------------------------------
(* onScanCompleted()                                                         *)

Without(f, k) == [x \in DOMAIN f \ {k} |-> f[x]]
With(f, k, v) == [x \in DOMAIN f \cup {k} |-> IF x = k THEN v ELSE f[x]]
ObjsOf(f)     == {f[x].obj : x \in DOMAIN f}
Victim(s, id) == IF id \in DOMAIN s.new THEN {s.new[id].obj} ELSE {}

\* A hidden entry masks those of the directories behind it.
Mask(s, id) ==
  [s EXCEPT !.new = Without(@, id), !.lower = Without(@, LowerId[id]), !.old = Without(@, id),
            !.doomed = @ \cup Victim(s, id) \cup (IF id \in DOMAIN s.old THEN {s.old[id].obj} ELSE {})]
\* The object there was is used again, once; one without a name is skipped.
Take(s, id, data) ==
  LET obj == IF id \in DOMAIN s.old THEN s.old[id].obj
             ELSE CHOOSE o \in EntryObjs : o \notin ObjsOf(s.old) \cup ObjsOf(s.new) \cup s.doomed
      t   == [s EXCEPT !.old = Without(@, id)]
  IN IF data.name = "" THEN [t EXCEPT !.doomed = @ \cup {obj}]
     ELSE [t EXCEPT !.doomed = @ \cup Victim(s, id), !.new = With(@, id, [obj |-> obj, data |-> data]),
                    !.lower = With(@, LowerId[id], obj)]
Merge(s, r) == IF r.data.hidden THEN Mask(s, r.id) ELSE Take(s, r.id, r.data)

OnScanCompleted ==
  /\ completed # <<>> /\ completed' = Tail(completed)
  /\ LET s == FoldLeft(Merge, [old |-> entries, new |-> <<>>, lower |-> <<>>, doomed |-> {}], Head(completed))
     IN entries' = s.new /\ lower' = s.lower /\ doomed' = s.doomed \cup ObjsOf(s.old)
  /\ IF queued THEN Scan(FALSE)
     ELSE inProgress' = FALSE /\ queued' = FALSE /\ UNCHANGED <<scans, unseen>>
  /\ UNCHANGED <<files, watched, notice, debounce, fileChanges>>

\* byId()
ById(id) == IF id \in DOMAIN entries THEN entries[id].obj
            ELSE IF LowerId[id] \in DOMAIN lower THEN lower[LowerId[id]] ELSE 0

-----------------------------------------------------------------------------
\* A file comes, is replaced or goes, which a watched directory tells; or it is written in place.
FileChanges(d, id, content, inPlace) ==
  /\ fileChanges < MaxFileChanges /\ fileChanges' = fileChanges + 1
  /\ content # files[d][id] /\ (inPlace => content # NoFile /\ files[d][id] # NoFile)
  /\ files' = [files EXCEPT ![d][id] = content]
  /\ LET seen == d \in watched /\ ~inPlace IN notice' = (notice \/ seen) /\ unseen' = (unseen \/ ~seen)
  /\ UNCHANGED <<watched, debounce, scans, completed, inProgress, queued, entries, lower, doomed>>

\* The constructor: the first scan is done at once, and its result posted.
Init ==
  /\ watched \in {w \in SUBSET ToSet(Dirs) : w # {}}
  /\ files \in [ToSet(Dirs) -> [EntryIds -> Contents \cup {NoFile}]]
  /\ \A d \in ToSet(Dirs) : d \notin watched \/ d # Last(Dirs) => \A i \in EntryIds : files[d][i] = NoFile
  /\ notice = FALSE /\ debounce = FALSE /\ scans = <<>> /\ inProgress = FALSE /\ queued = FALSE
  /\ completed = <<FlattenSeq([k \in DOMAIN Dirs |-> Found(Reverse(Dirs)[k])])>>
  /\ entries = <<>> /\ lower = <<>> /\ doomed = {} /\ fileChanges = 0 /\ unseen = FALSE

Next ==
  \/ \E n \in DOMAIN scans : ScanDirectory(n)
  \/ OnDirectoryChanged \/ HandleFileChanges \/ OnScanCompleted
  \/ \E d \in ToSet(Dirs), i \in EntryIds, c \in Contents \cup {NoFile}, p \in BOOLEAN : FileChanges(d, i, c, p)

-----------------------------------------------------------------------------
\* The file of an id that counts: the first, of those that are not nameless.
Counting(id) ==
  LET ok == {k \in DOMAIN Dirs : LET c == files[Dirs[k]][id] IN c # NoFile /\ (Says[c].hidden \/ Says[c].names # <<>>)}
  IN IF ok = {} THEN NoFile ELSE files[Dirs[CHOOSE k \in ok : \A j \in ok : k <= j]][id]
\* Of lines, that of the best locale that fits, or that without a locale, or the first.
BestName(names) ==
  LET fits == {n \in DOMAIN names : MatchScore(names[n].locale) > 0}
      bare == {n \in DOMAIN names : names[n].locale.language = ""}
  IN IF fits # {} THEN names[CHOOSE n \in fits : \A m \in fits : MatchScore(names[n].locale) >= MatchScore(names[m].locale)].value
     ELSE IF bare # {} THEN names[CHOOSE n \in bare : TRUE].value ELSE names[1].value

\* No entry that is listed or looked up is deleted, two have no object in common, and by
\* its id in other case only an entry that is listed is found (desktopentry.cpp:515, :531, :553).
EntriesHold ==
  /\ (ObjsOf(entries) \cup {lower[l] : l \in DOMAIN lower}) \cap doomed = {}
  /\ {lower[l] : l \in DOMAIN lower} \subseteq ObjsOf(entries)
  /\ \A i, j \in DOMAIN entries : entries[i].obj = entries[j].obj => i = j
  /\ \A n \in DOMAIN scans : n = 1

\* At rest the entries are those of the files, unless these changed in a way nobody is told of:
\* a change while a scan is under way leads to another scan (desktopentry.cpp:470, :500).
EntriesAreShown ==
  scans = <<>> /\ completed = <<>> /\ ~notice /\ ~debounce /\ ~unseen =>
    /\ DOMAIN entries = {i \in EntryIds : Counting(i) # NoFile /\ ~Says[Counting(i)].hidden}
    /\ \A i \in DOMAIN entries : entries[i].data.noDisplay = Says[Counting(i)].noDisplay
                                 /\ entries[i].data.name = BestName(Says[Counting(i)].names)
    /\ \A i \in DOMAIN entries : (\A d \in ToSet(Dirs), j \in EntryIds : files[d][j] # NoFile => ~Says[files[d][j]].hidden)
                                 => \A j \in EntryIds : LowerId[j] = LowerId[i] => ById(j) # 0
=============================================================================
