------------------------------- MODULE Instances -------------------------------
(* The processes of the program (src/src/launch, core/paths.cpp, crash): how   *)
(* an instance is launched, the directories and links by which other           *)
(* processes find it, the lock that tells whether it is alive, the process     *)
(* that waits until its daemon is up, and what follows a crash: a report by a  *)
(* process of its own, and the same process executing the program again.       *)
EXTENDS Naturals, Sequences, FiniteSets, FiniteSetsExt, Functions

CONSTANTS
  Pids,         \* process ids, of which one is used again when its process has ended
  MaxInstances, \* how many instances are launched
  MaxProcActs   \* how often the program is run, ends, crashes, or its files change

\* What is in the two directories for configurations: shell.qml itself, and in subdirectories.
Dirs  == {1, 2}
Paths == Dirs \X {"shell", "default", "other"}
Trees == {{<<1, "default">>, <<2, "shell">>}, {<<2, "default">>, <<1, "other">>}}

Ids      == 1 .. MaxInstances
Displays == {"x", "y"}
ByName(n) == [by |-> "name", name |-> n]
ByPath(c) == [by |-> "path", path |-> c]
Options  == {ByName("default"), ByName("other"), ByPath(<<2, "shell">>)}

\* The ways in which the program is run here.
Started(opt, display, noDuplicate, daemonize) ==
  [opt |-> opt, display |-> display, noDuplicate |-> noDuplicate, daemonize |-> daemonize]
Starts == {Started(ByName("default"), "x", TRUE, TRUE), Started(ByName("default"), "y", TRUE, FALSE),
           Started(ByPath(<<2, "shell">>), "x", FALSE, TRUE), Started(ByName("other"), "x", TRUE, FALSE)}

VARIABLES
  proc,     \* the processes
  insts,    \* the instances, in the order in which they were launched, and their directories
  links,    \* the links to those, by process id, by shell and by path of the configuration
  tree, pragma,  \* the files of configurations, and the ShellId each names
  fails,    \* the directories that cannot be made
  daemon,   \* the processes that wait for a daemon
  reporter, \* the crash reports that are shown, which keep the pipe of the daemon open
  reports, quits, procActs,
  amiss     \* what has happened that the code does not provide for

instanceVars == <<proc, insts, links, tree, pragma, fails, daemon, reporter, reports, quits, procActs, amiss>>

Ended  == [step |-> "ended", id |-> 0, config |-> <<>>, display |-> "x", noDuplicate |-> FALSE,
           restarted |-> FALSE, env |-> <<>>, tells |-> FALSE, holds |-> FALSE]
NoInst == [pid |-> 0, config |-> <<>>, shell |-> <<>>, display |-> "x", young |-> FALSE, dir |-> FALSE,
           lock |-> "none", written |-> FALSE]

Launching(p) == proc[p].step \notin {"ended", "running"}
Runs(p)      == proc[p].step = "running"
Settled      == \A p \in Pids : ~Launching(p)

-----------------------------------------------------------------------------
(* Which configuration is meant (launch/command.cpp)                         *)

\* locateNamedConfig(): a directory with a shell.qml has no others.
Shells(files, d) == <<d, "shell">> \in files
LocateNamed(files, name) ==
  LET has == {d \in Dirs : IF Shells(files, d) THEN name = "default" ELSE <<d, name>> \in files}
      d   == Min(has)
  IN IF has = {} THEN <<>> ELSE <<d, IF Shells(files, d) THEN "shell" ELSE name>>
\* locateConfigFile(), without the deprecated manifests.
Locate(opt) ==
  IF opt.by = "name" THEN LocateNamed(tree, opt.name)
  ELSE IF opt.path \in tree THEN opt.path ELSE <<>>

-----------------------------------------------------------------------------
(* The instances that are found (core/paths.cpp)                             *)

\* checkLock(): what the file says, and whether its process holds the lock.
Locked(i)    == insts[i].lock = "held"
HasLock(i)   == insts[i].dir /\ insts[i].lock # "none"
InfoOf(i)    == [id |-> IF insts[i].written THEN i ELSE 0, live |-> Locked(i),
                 display |-> IF insts[i].written THEN insts[i].display ELSE "none"]
\* collectInstances()
Collect(S, display) == {x \in {InfoOf(i) : i \in {j \in S : HasLock(j)}} : display \in {"any", x.display}}
OfLife(found, live) == {x \in found : x.live = live}

LinkedPids      == {links.pid[p] : p \in Pids} \ {0}
LinkedPath(c)   == LET s == links.path[c] IN IF s = <<>> THEN {} ELSE links.shell[s]

\* sortInstances() and the first of them.
First(found, newest) ==
  LET ids == {x.id : x \in found} IN IF found = {} THEN 0 ELSE IF newest THEN Max(ids) ELSE Min(ids)
\* selectInstance(): by process id, by the start of the id, or by the configuration.
SelectPid(p, dead) ==
  LET i == links.pid[p] IN IF i = 0 \/ ~HasLock(i) \/ (~Locked(i) /\ ~dead) THEN 0 ELSE InfoOf(i).id
SelectId(starts, display, dead) ==
  LET found == {x \in Collect(LinkedPids, display) : x.id \in starts}
      live  == OfLife(found, TRUE)
      of    == IF live = {} /\ dead THEN OfLife(found, FALSE) ELSE live
  IN IF Cardinality(of) = 1 THEN First(of, FALSE) ELSE 0
SelectConfig(config, display, newest, dead) ==
  LET found == IF config = <<>> THEN {} ELSE Collect(LinkedPath(config), display)
      live  == OfLife(found, TRUE)
  IN IF live = {} /\ dead THEN First(OfLife(found, FALSE), TRUE) ELSE First(live, newest)
\* listInstances()
Listed(all, config, display, dead) ==
  LET found == IF all THEN Collect(LinkedPids, "any")
               ELSE IF config = <<>> THEN {} ELSE Collect(LinkedPath(config), display)
  IN {x.id : x \in IF dead THEN found ELSE OfLife(found, TRUE)}

-----------------------------------------------------------------------------
(* Processes and the pipe of a daemon                                        *)

\* read() of the process that waits: a code, or the end of the pipe, for which it returns 0.
Told(d, ok)     == IF d = "waits" THEN IF ok THEN "up" ELSE "failed" ELSE d
Hear(d, held)   == IF d = "waits" /\ ~held THEN "closed" ELSE d
\* exitDaemon()
ExitDaemon(p, ok) == daemon' = [daemon EXCEPT ![p] = Told(@, ok /\ proc[p].tells)]

\* The process ends: its lock goes, and what it had not told.
EndOf(p) ==
  /\ proc' = [proc EXCEPT ![p] = Ended]
  /\ insts' = [i \in Ids |-> IF insts[i].pid = p /\ Locked(i) THEN [insts[i] EXCEPT !.lock = "free"] ELSE insts[i]]
Return(p, ok) ==
  /\ EndOf(p)
  /\ daemon' = [daemon EXCEPT ![p] = IF proc[p].tells THEN Told(@, ok) ELSE Hear(@, reporter[p].holds)]

Acts      == procActs < MaxProcActs /\ procActs' = procActs + 1
Odd(what) == amiss' = amiss \cup what
Beside(p, config, display) ==
  {q \in Pids \ {p} : proc[q].step # "ended" /\ proc[q].config = config /\ proc[q].display = display}

\* main() and runCommand() up to launch(): also when it is a shell that was restarted, q, that
\* runs the program, and passes on what it was told of its own crash.
Start(p, s) ==
  LET c     == Locate(s.opt)
      other == s.noDuplicate /\ SelectConfig(c, s.display, FALSE, FALSE) # 0
      new   == [Ended EXCEPT !.step = "checked", !.config = c, !.display = s.display,
                             !.noDuplicate = s.noDuplicate, !.tells = s.daemonize, !.holds = s.daemonize]
  IN /\ Acts /\ proc[p].step = "ended" /\ ~reporter[p].open
     /\ proc' = IF c = <<>> \/ other THEN proc ELSE [proc EXCEPT ![p] = new]
     /\ daemon' = [daemon EXCEPT ![p] = IF ~s.daemonize THEN "none" ELSE IF c = <<>> THEN "failed"
                                        ELSE IF other THEN "up" ELSE "waits"]
     /\ Odd({w \in {"raced"} : c # <<>> /\ ~other /\ \E q \in Beside(p, c, s.display) : Launching(q)})
     /\ UNCHANGED <<insts, links, tree, pragma, fails, reporter, reports, quits>>
StartedByShell(p, q) ==
  /\ Acts /\ proc[p].step = "ended" /\ ~reporter[p].open /\ Runs(q) /\ proc[q].env # <<>>
  /\ proc' = [proc EXCEPT ![p] = [Ended EXCEPT !.step = "restart", !.display = proc[q].display, !.env = proc[q].env]]
  /\ daemon' = [daemon EXCEPT ![p] = "none"] /\ Odd({"inherited"})
  /\ UNCHANGED <<insts, links, tree, pragma, fails, reporter, reports, quits>>

\* shellRunDir() and instanceRunDir(), which returns none if the former could not be made.
ShellDir    == fails \cap {"base", "shell"} = {}
InstanceDir(asked) == "base" \notin fails /\ (asked => ShellDir)

\* launch() up to its instance's directory and links: linkRunDir(), linkPathDir(), initFs().  The id
\* is that of the process and of when it began.
NextId == Cardinality({i \in Ids : insts[i].pid # 0}) + 1
Linked(p, i) ==
  LET c   == proc[p].config
      s   == pragma[c]
      dir == InstanceDir(FALSE) /\ "instance" \notin fails
  IN /\ insts' = [insts EXCEPT ![i] = [@ EXCEPT !.pid = p, !.config = c, !.shell = s, !.dir = dir, !.written = FALSE,
                                         !.display = proc[p].display, !.young = (proc[p].id = 0)]]
     /\ links' = IF "base" \in fails THEN links
                 ELSE [pid   |-> [links.pid EXCEPT ![p] = IF dir THEN i ELSE 0],
                       shell |-> IF ShellDir /\ dir THEN [links.shell EXCEPT ![s] = @ \cup {i}] ELSE links.shell,
                       path  |-> IF ShellDir THEN [links.path EXCEPT ![c] = s] ELSE links.path]
     /\ Odd({w \in {"moved"} : links.path[c] \notin {<<>>, s}}
            \cup {w \in {"shared"} : \E d \in Paths \ {c} : links.path[d] = s}
            \cup {w \in {"reused"} : links.pid[p] \notin {0, i}})
Link(p) ==
  LET i == IF proc[p].id # 0 THEN proc[p].id ELSE NextId IN
  /\ proc[p].step = "checked" /\ proc[p].config \in tree /\ i \in Ids
  /\ proc' = [proc EXCEPT ![p].step = "linked", ![p].id = i] /\ Linked(p, i)
  /\ UNCHANGED <<tree, pragma, fails, daemon, reporter, reports, quits, procActs>>
LinkFails(p) ==
  /\ proc[p].step = "checked" /\ proc[p].config \notin tree /\ Return(p, FALSE)
  /\ UNCHANGED <<links, tree, pragma, fails, reporter, reports, quits, procActs, amiss>>

\* IpcServer::start() and createLock(), which empties the file, takes the lock, then writes.
Open(p) ==
  /\ proc[p].step = "linked"
  /\ proc' = [proc EXCEPT ![p].step = "opened"]
  /\ insts' = [insts EXCEPT ![proc[p].id].lock = IF InstanceDir(TRUE) /\ insts[proc[p].id].dir /\ @ # "held" THEN "free" ELSE @]
  /\ UNCHANGED <<links, tree, pragma, fails, daemon, reporter, reports, quits, procActs, amiss>>
Lock(p) ==
  /\ proc[p].step = "opened"
  /\ proc' = [proc EXCEPT ![p].step = "locked"]
  /\ insts' = [insts EXCEPT ![proc[p].id].lock = IF @ = "none" THEN @ ELSE "held"]
  /\ UNCHANGED <<links, tree, pragma, fails, daemon, reporter, reports, quits, procActs, amiss>>
Write(p) ==
  /\ proc[p].step = "locked"
  /\ proc' = [proc EXCEPT ![p].step = "written"]
  /\ insts' = [insts EXCEPT ![proc[p].id].written = Locked(proc[p].id)]
  /\ UNCHANGED <<links, tree, pragma, fails, daemon, reporter, reports, quits, procActs, amiss>>
\* The rest of launch(): the configuration is loaded, and exitDaemon(0).
Run(p) ==
  /\ proc[p].step = "written"
  /\ proc' = [proc EXCEPT ![p].step = "running", ![p].tells = FALSE, ![p].holds = @ /\ ~proc[p].tells]
  /\ ExitDaemon(p, TRUE)
  /\ UNCHANGED <<insts, links, tree, pragma, fails, reporter, reports, quits, procActs, amiss>>

\* What the command `kill' of another process ends, and what Qt.quit() does: launch() returns.  A
\* shell that was restarted goes on in main() as if it had been run without arguments.
Quit(p) ==
  LET c == Locate(ByName("default")) IN
  /\ Acts /\ Runs(p) /\ quits' = quits \cup {proc[p].id}
  /\ IF proc[p].restarted /\ c # <<>>
     THEN /\ proc' = [proc EXCEPT ![p].step = "checked", ![p].config = c, ![p].restarted = FALSE]
          /\ Odd({"again"}) /\ UNCHANGED <<insts, daemon>>
     ELSE Return(p, TRUE) /\ UNCHANGED amiss
  /\ UNCHANGED <<links, tree, pragma, fails, reporter, reports>>

\* The process ends without its handler's help.
Die(p) ==
  /\ Acts /\ proc[p].step # "ended" /\ EndOf(p)
  /\ daemon' = [daemon EXCEPT ![p] = Hear(@, reporter[p].holds)]
  /\ Odd({w \in {"early"} : Launching(p)})
  /\ UNCHANGED <<links, tree, pragma, fails, reporter, reports, quits>>

-----------------------------------------------------------------------------
(* A crash (crash/handler.cpp, crash/main.cpp, launch/main.cpp)              *)

\* The environment of both children: what is told comes before what was inherited.
Environment(id, env) == <<id>> \o env
\* signalHandler(): a reporter is run, and the process executes the program again.
Crash(p) ==
  LET env == Environment(proc[p].id, proc[p].env) IN
  /\ Acts /\ proc[p].step \in {"linked", "opened", "locked", "written", "running"}
  /\ proc' = [proc EXCEPT ![p] = [Ended EXCEPT !.step = "restart", !.display = proc[p].display,
                                               !.env = env, !.holds = proc[p].holds]]
  /\ insts' = [i \in Ids |-> IF insts[i].pid = p /\ Locked(i) THEN [insts[i] EXCEPT !.lock = "free"] ELSE insts[i]]
  /\ reporter' = [reporter EXCEPT ![p] = [open |-> TRUE, holds |-> proc[p].holds]]
  /\ reports' = [reports EXCEPT ![proc[p].id] = Head(env)]
  /\ Odd({w \in {"early"} : Launching(p)})
  /\ UNCHANGED <<links, tree, pragma, fails, daemon, quits>>

\* checkCrashRelaunch(): not within ten seconds of the launch.
Restart(p) ==
  LET i == Head(proc[p].env)
      c == insts[i].config
  IN /\ proc[p].step = "restart"
     /\ IF insts[i].young THEN Return(p, FALSE) /\ UNCHANGED amiss
        ELSE /\ proc' = [proc EXCEPT ![p].step = "checked", ![p].config = c, ![p].restarted = TRUE]
             /\ Odd({w \in {"restarted"} : Beside(p, c, proc[p].display) # {}}) /\ UNCHANGED <<insts, daemon>>
     /\ UNCHANGED <<links, tree, pragma, fails, reporter, reports, quits, procActs>>

\* The report is closed.
CloseReport(p) ==
  /\ reporter[p].open
  /\ reporter' = [reporter EXCEPT ![p] = [open |-> FALSE, holds |-> FALSE]]
  /\ daemon' = [daemon EXCEPT ![p] = Hear(@, proc[p].holds)]
  /\ UNCHANGED <<proc, insts, links, tree, pragma, fails, reports, quits, procActs, amiss>>

\* Ten seconds pass since the first of those launches.
Age(i) ==
  /\ insts[i].young /\ \A j \in 1 .. i - 1 : ~insts[j].young
  /\ insts' = [insts EXCEPT ![i].young = FALSE]
  /\ UNCHANGED <<proc, links, tree, pragma, fails, daemon, reporter, reports, quits, procActs, amiss>>

\* The files change: shell.qml comes or goes, or a configuration names another ShellId.
EditTree ==
  /\ Acts
  /\ tree' = IF Shells(tree, 1) THEN tree \ {<<1, "shell">>} ELSE tree \cup {<<1, "shell">>}
  /\ UNCHANGED <<proc, insts, links, pragma, fails, daemon, reporter, reports, quits, amiss>>
EditShellId(c) ==
  /\ Acts /\ c \in tree /\ pragma[c] = c
  /\ pragma' = [pragma EXCEPT ![c] = <<"named">>]
  /\ UNCHANGED <<proc, insts, links, tree, fails, daemon, reporter, reports, quits, amiss>>

ShellIds == Paths \cup {<<"named">>}
Init ==
  /\ proc = [p \in Pids |-> Ended] /\ insts = [i \in Ids |-> NoInst]
  /\ links = [pid |-> [p \in Pids |-> 0], shell |-> [s \in ShellIds |-> {}], path |-> [c \in Paths |-> <<>>]]
  /\ tree \in Trees /\ pragma = [c \in Paths |-> c] /\ fails \in {{}, {"base"}, {"shell"}, {"instance"}}
  /\ daemon = [p \in Pids |-> "none"] /\ reporter = [p \in Pids |-> [open |-> FALSE, holds |-> FALSE]]
  /\ reports = [i \in Ids |-> 0] /\ quits = {} /\ procActs = 0 /\ amiss = {}

Next ==
  \/ \E p \in Pids, s \in Starts : Start(p, s)
  \/ \E p, q \in Pids : StartedByShell(p, q)
  \/ \E p \in Pids : Link(p) \/ LinkFails(p) \/ Open(p) \/ Lock(p) \/ Write(p) \/ Run(p) \/ Quit(p) \/ Die(p)
  \/ \E p \in Pids : Crash(p) \/ Restart(p) \/ CloseReport(p)
  \/ \E i \in Ids : Age(i)
  \/ EditTree
  \/ \E c \in Paths : EditShellId(c)

-----------------------------------------------------------------------------
Running     == {proc[p].id : p \in {q \in Pids : Runs(q)}}
RunningAs(c, d) == {i \in Running : insts[i].config = c /\ (d = "any" \/ insts[i].display = d)}
Dead        == {i \in Ids : insts[i].written} \ Running

\* When none is just being launched, commands find the instances that run, by process id, by id and
\* by configuration, the oldest or the newest of them, and no others; for the log one that has
\* ended, of its configuration the last; unless a ShellId changed, is shared by configurations,
\* or directories could not be made (command.cpp:168, paths.cpp:172, :404).
CommandsFindThem ==
  Settled /\ fails = {} /\ amiss \cap {"moved", "shared", "again"} = {} =>
    /\ \A p \in Pids : SelectPid(p, FALSE) = IF Runs(p) THEN proc[p].id ELSE 0
    /\ \A i \in Ids : SelectId({i}, "any", FALSE) = IF i \in Running THEN i ELSE 0
    /\ "reused" \notin amiss => \A i \in Dead : SelectId({i}, "any", TRUE) = i
    /\ \A c \in Paths, d \in Displays \cup {"any"} :
         LET live == RunningAs(c, d)
             gone == {i \in Dead : insts[i].config = c /\ (d = "any" \/ insts[i].display = d)}
         IN /\ Listed(FALSE, c, d, FALSE) = live /\ Listed(FALSE, c, d, TRUE) \ {0} = live \cup gone
            /\ live # {} => SelectConfig(c, d, FALSE, TRUE) = Min(live) /\ SelectConfig(c, d, TRUE, TRUE) = Max(live)
            /\ live = {} /\ gone # {} => SelectConfig(c, d, FALSE, FALSE) = 0 /\ SelectConfig(c, d, FALSE, TRUE) = Max(gone)

\* What a command takes for running is a process that has not ended, with that instance.
FoundIsAlive == \A i \in Ids : Locked(i) => proc[insts[i].pid].id = i

\* Two that were started not to be duplicates run together only if they were launched at a time,
\* or one was restarted meanwhile (command.cpp:439, launch/main.cpp:67).
NoDuplicates ==
  fails = {} /\ amiss \cap {"raced", "restarted", "inherited", "moved", "shared", "again"} = {} =>
    \A p, q \in Pids : Runs(p) /\ Runs(q) /\ p # q /\ proc[q].noDuplicate =>
      ~(proc[p].noDuplicate /\ proc[p].config = proc[q].config /\ proc[p].display = proc[q].display)

\* Who waits for a daemon waits only while it is launched, and is told 0 if it is up, unless it
\* ended early (command.cpp:498, main.cpp:77).
DaemonIsAwaited ==
  "early" \notin amiss => \A p \in Pids : daemon[p] # "closed" /\ (daemon[p] = "waits" => Launching(p))

\* A crash is reported for the instance that crashed, and who crashed within ten seconds of its
\* launch is not launched again (handler.cpp:97, launch/main.cpp:60).
CrashesEnd ==
  /\ \A i \in Ids : reports[i] \in {0, i}
  /\ \A p \in Pids : proc[p].restarted => ~insts[Max(Range(proc[p].env))].young

\* Who was told to quit does not run again, but a shell that was restarted (launch/main.cpp:67).
QuitIsQuit == "again" \notin amiss => Running \cap quits = {}

InstancesHold == FoundIsAlive /\ CommandsFindThem /\ NoDuplicates /\ DaemonIsAwaited /\ CrashesEnd /\ QuitIsQuit
=============================================================================
