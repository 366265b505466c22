------------------------------- MODULE Daemon -------------------------------
(***************************************************************************)
(* One life of the daemon, from service.sh at boot to uninstall.sh: main     *)
(* (main.cpp) brings the threads up and takes them down again, scripts and   *)
(* signals interfere, and Logger has its own thread all along.               *)
(*                                                                          *)
(* The eBPF thread and the timer worker are reduced to what outlives the     *)
(* daemon: processes in the frozen group, and commands for the Android       *)
(* framework, each carried out by a child process.  What they decide is in   *)
(* FreezeEngine, the HTTP server in HttpServer.                              *)
(***************************************************************************)
EXTENDS Logger, FiniteSets

CONSTANTS
  Pkgs,     \* installed packages
  Users,    \* those whose uid is 10000 or more
  Whites, Blacks, \* what the list files may hold at boot
  Editable, \* BOUND: the lists edited in this instance
  MaxLines  \* BOUND: no work is begun when as many lines were pushed

ASSUME UsersAssumption == Users \subseteq Pkgs
ASSUME ListsAssumption == Whites \subseteq SUBSET Pkgs /\ Blacks \subseteq SUBSET Pkgs
ASSUME EditableAssumption == Editable \subseteq {"white", "black"}
ASSUME MaxLinesAssumption == MaxLines \in Nat

Workers == {"bpf", "timer"}
Threads == Workers \cup {"http"}

VARIABLES
  mpc,     \* main
  how,     \* how the process ends: "none", "exit", "abort", "kill"
  goOn,    \* g_running
  bpfOk,   \* bpf_ok
  object,  \* obj_ of BpfLoader: "none", "open", "freed"
  alive,   \* threads started and not yet at their end
  told,    \* threads told to stop
  work,    \* what each worker is doing, or Idle
  group,   \* cgroup.freeze of the frozen group, or "none" without the group
  frozen,  \* packages with processes in it
  denied,  \* packages whose AppOps are denied
  doze,    \* packages in the Doze whitelist
  sysFreezer, \* Android's own freezer is enabled
  white, black, \* the files user_whitelist.txt and system_blacklist.txt
  orphans, \* commands whose daemon is gone, still being carried out
  upc      \* uninstall.sh

mainVars == <<mpc, how, goOn>>
bpfVars == <<bpfOk, object>>
threadVars == <<alive, told, work, orphans>>
phoneVars == <<group, frozen, denied, doze, sysFreezer>>
listVars == <<white, black>>
vars == <<logVars, mainVars, bpfVars, threadVars, phoneVars, listVars, upc>>

Deny(p) == [op |-> "deny", pkg |-> p]
Default(p) == [op |-> "default", pkg |-> p]
FreezerOff == [op |-> "freezer"]
Commands == [op : {"deny", "default"}, pkg : Pkgs] \cup {FreezerOff}

\* "map": about to update our_frozen_cgroups; "cmd": the command runs; "log": it returned.
Idle == [at |-> "idle"]
Works == [at : {"map", "cmd", "log"}, cmd : Commands] \cup {Idle}

MainLabels ==
  {"off", "begin", "cgroup", "threads", "http", "test", "tested", "pause", "bpfJoin",
   "httpJoin", "timerJoin", "locals", "statics", "logJoin", "gone"}

TypeOK ==
  /\ LogTypeOK
  /\ mpc \in MainLabels
  /\ how \in {"none", "exit", "abort", "kill"} /\ goOn \in BOOLEAN
  /\ bpfOk \in BOOLEAN /\ object \in {"none", "open", "freed"}
  /\ alive \subseteq Threads /\ told \subseteq Threads
  /\ work \in [Workers -> Works] /\ orphans \subseteq Commands
  /\ group \in {"none", "0", "1"} /\ frozen \subseteq Pkgs
  /\ frozen # {} => group # "none"
  /\ denied \subseteq Pkgs /\ doze \subseteq Pkgs /\ sysFreezer \in BOOLEAN
  /\ white \subseteq Pkgs /\ black \subseteq Pkgs
  /\ upc \in {"no", "wait", "cleanup", "restore", "done"}

\* A phone that boots with the module installed.
Init ==
  /\ LogInit
  /\ mpc = "off" /\ how = "none" /\ goOn = TRUE
  /\ bpfOk = FALSE /\ object = "none"
  /\ alive = {} /\ told = {} /\ work = [t \in Workers |-> Idle] /\ orphans = {}
  /\ group = "none" /\ frozen = {} /\ denied = {} /\ doze = Pkgs
  /\ sysFreezer = TRUE
  /\ white \in Whites /\ black \in Blacks
  /\ upc = "no"

(***************************************************************************)
(* service.sh                                                               *)
(***************************************************************************)
\* Blacklisted apps lose their AppOps first; then whitelisted user apps get theirs back.
Boot ==
  /\ mpc = "off" /\ mpc' = "begin"
  /\ sysFreezer' = FALSE
  /\ doze' = doze \ black
  /\ denied' = (denied \cup black \cup Users) \ (Users \cap white)
  /\ UNCHANGED <<logVars, how, goOn, bpfVars, threadVars, group, frozen, listVars, upc>>

(***************************************************************************)
(* main                                                                     *)
(***************************************************************************)
\* Signals, pid file, the first line, old marks, settings.
Begin ==
  /\ mpc = "begin" /\ mpc' = "cgroup"
  /\ Log
  /\ UNCHANGED <<how, goOn, bpfVars, threadVars, phoneVars, listVars, upc>>

\* init_cgroup_tree keeps directories that exist, and may make a group and not set it.
InitCgroup ==
  /\ mpc = "cgroup"
  /\ \/ group' = "1" /\ mpc' = "threads" /\ UNCHANGED how
     \/ group' \in {group, "0"} /\ mpc' = "statics" /\ how' = "exit"
  /\ UNCHANGED <<logVars, goOn, bpfVars, threadVars, frozen, denied, doze, sysFreezer,
                 listVars, upc>>

\* TimerManager, which has no timer yet, the probes and their loop; then the first poll,
\* the lists and the guard's timer.
StartThreads ==
  /\ mpc = "threads" /\ mpc' = "http"
  /\ \/ bpfOk' = TRUE /\ object' = "open" /\ alive' = {"timer", "bpf"}
     \/ UNCHANGED bpfVars /\ alive' = {"timer"}
  /\ UNCHANGED <<logVars, how, goOn, told, work, orphans, phoneVars, listVars, upc>>

\* With the lines of the steps since Begin.
StartHttp ==
  /\ mpc = "http"
  /\ Log
  /\ \/ mpc' = "test" /\ alive' = alive \cup {"http"}
     \/ mpc' = "locals" /\ UNCHANGED alive
  /\ UNCHANGED <<how, goOn, bpfVars, told, work, orphans, phoneVars, listVars, upc>>

\* bpf_loader.stop() begins when there is one.
TestGoOn ==
  /\ mpc = "test"
  /\ IF goOn
       THEN mpc' = "tested" /\ UNCHANGED <<logVars, told>>
       ELSE /\ Log
            /\ mpc' = "bpfJoin"
            /\ told' = IF bpfOk THEN told \cup {"bpf"} ELSE told
  /\ UNCHANGED <<how, goOn, bpfVars, alive, work, orphans, phoneVars, listVars, upc>>

\* pause(), which a signal before it does not end.
Pause ==
  /\ mpc = "tested" /\ mpc' = "pause"
  /\ UNCHANGED <<logVars, how, goOn, bpfVars, threadVars, phoneVars, listVars, upc>>

\* The object is freed; then http.stop().
JoinBpf ==
  /\ mpc = "bpfJoin" /\ "bpf" \notin alive
  /\ mpc' = "httpJoin"
  /\ object' = IF bpfOk THEN "freed" ELSE object
  /\ told' = told \cup {"http"}
  /\ UNCHANGED <<logVars, how, goOn, bpfOk, alive, work, orphans, phoneVars, listVars, upc>>

\* Mutant of JoinHttp: the worker of TimerManager is left to the end of the process.
JoinHttpLast ==
  /\ mpc = "httpJoin" /\ "http" \notin alive
  /\ mpc' = "statics" /\ how' = "exit"
  /\ UNCHANGED <<logVars, goOn, bpfVars, threadVars, phoneVars, listVars, upc>>

JoinHttp ==
  /\ mpc = "httpJoin" /\ "http" \notin alive
  /\ mpc' = "timerJoin"
  /\ told' = told \cup {"timer"}
  /\ UNCHANGED <<logVars, how, goOn, bpfVars, alive, work, orphans, phoneVars, listVars, upc>>

JoinTimer ==
  /\ mpc = "timerJoin" /\ "timer" \notin alive
  /\ mpc' = "statics" /\ how' = "exit"
  /\ UNCHANGED <<logVars, goOn, bpfVars, threadVars, phoneVars, listVars, upc>>

\* The process is no more: every thread stops where it is, its children go on.
Ends(way) ==
  /\ mpc' = "gone" /\ how' = way
  /\ alive' = {} /\ work' = [t \in Workers |-> Idle]
  /\ orphans' = orphans \cup {work[t].cmd : t \in {u \in alive \cap Workers : work[u].at = "cmd"}}
  /\ CutOff
  /\ UNCHANGED <<goOn, bpfVars, told, phoneVars, listVars>>

\* return 1 after http.start(): ~BpfLoader with its thread joinable is std::terminate.
DestroyLocals ==
  /\ mpc = "locals"
  /\ IF "bpf" \in alive
       THEN Ends("abort")
       ELSE /\ mpc' = "statics" /\ how' = "exit"
            /\ UNCHANGED <<logVars, goOn, bpfVars, threadVars, phoneVars, listVars>>
  /\ UNCHANGED upc

\* The same for ~TimerManager.  Logger was made first and is destroyed last.
DestroyStatics ==
  /\ mpc = "statics"
  /\ IF "timer" \in alive
       THEN Ends("abort")
       ELSE /\ StopLogger /\ mpc' = "logJoin"
            /\ UNCHANGED <<how, goOn, bpfVars, threadVars, phoneVars, listVars>>
  /\ UNCHANGED upc

\* The process ends when its flush thread has ended.
JoinLogger ==
  /\ mpc = "logJoin" /\ fpc = "done"
  /\ Ends("exit")
  /\ UNCHANGED upc

MainStep ==
  \/ Begin \/ InitCgroup \/ StartThreads \/ StartHttp \/ TestGoOn \/ Pause
  \/ JoinBpf \/ JoinHttp \/ JoinTimer \/ DestroyLocals \/ DestroyStatics \/ JoinLogger

\* on_signal, which Linux runs on the main thread; pause returns after it.
OnSignal ==
  /\ goOn' = FALSE
  /\ mpc' = IF mpc = "pause" THEN "test" ELSE mpc

(***************************************************************************)
(* The other threads                                                        *)
(***************************************************************************)
\* A thread told to stop ends what it is at: the rest of its batch counts as one work.
Takes(t, cmd) ==
  /\ t \in alive \ told /\ work[t] = Idle /\ logged < MaxLines
  /\ work' = [work EXCEPT ![t] = [at |-> "map", cmd |-> cmd]]

\* A freeze is the worker's, an unfreeze the eBPF thread's or, of a poll, the worker's.
Freeze(p) ==
  /\ Takes("timer", Deny(p))
  /\ frozen' = frozen \cup {p}
  /\ UNCHANGED <<logVars, mainVars, bpfVars, alive, told, orphans, group, denied, doze,
                 sysFreezer, listVars, upc>>

Unfreeze(t, p) ==
  /\ p \in frozen
  /\ Takes(t, Default(p))
  /\ frozen' = frozen \ {p}
  /\ UNCHANGED <<logVars, mainVars, bpfVars, alive, told, orphans, group, denied, doze,
                 sysFreezer, listVars, upc>>

\* The guard, or a bounce limit.
Reassert(t) ==
  /\ Takes(t, FreezerOff)
  /\ UNCHANGED <<logVars, mainVars, bpfVars, alive, told, orphans, phoneVars, listVars, upc>>

\* AppOps of whitelisted apps are not touched.  user_appop_restrict is on.
UpdateMap(t) ==
  /\ t \in alive /\ work[t].at = "map"
  /\ work' = [work EXCEPT ![t].at =
       IF work[t].cmd # FreezerOff /\ work[t].cmd.pkg \in white THEN "log" ELSE "cmd"]
  /\ UNCHANGED <<logVars, mainVars, bpfVars, alive, told, orphans, phoneVars, listVars, upc>>

\* What a command does to the phone.
Carry(cmd) ==
  \/ /\ cmd = FreezerOff
     /\ sysFreezer' = FALSE /\ UNCHANGED denied
  \/ /\ cmd # FreezerOff /\ cmd.op = "deny"
     /\ denied' = denied \cup {cmd.pkg} /\ UNCHANGED sysFreezer
  \/ /\ cmd # FreezerOff /\ cmd.op = "default"
     /\ denied' = denied \ {cmd.pkg} /\ UNCHANGED sysFreezer

CommandDone(t) ==
  /\ t \in alive /\ work[t].at = "cmd"
  /\ Carry(work[t].cmd)
  /\ work' = [work EXCEPT ![t].at = "log"]
  /\ UNCHANGED <<logVars, mainVars, bpfVars, alive, told, orphans, group, frozen, doze,
                 listVars, upc>>

WorkEnds(t) ==
  /\ t \in alive /\ work[t].at = "log"
  /\ Log
  /\ work' = [work EXCEPT ![t] = Idle]
  /\ UNCHANGED <<mainVars, bpfVars, alive, told, orphans, phoneVars, listVars, upc>>

\* A thread told to stop ends when what it is doing is done.
ThreadEnds(t) ==
  /\ t \in alive \cap told
  /\ t \in Workers => work[t] = Idle
  /\ alive' = alive \ {t}
  /\ UNCHANGED <<logVars, mainVars, bpfVars, told, work, orphans, phoneVars, listVars, upc>>

\* A list is edited in the web page.
Edit(p) ==
  /\ "http" \in alive
  /\ \/ /\ "white" \in Editable /\ UNCHANGED black
        /\ white' \in {white \cup {p}, white \ {p}} \ {white}
     \/ /\ "black" \in Editable /\ UNCHANGED white
        /\ black' \in {black \cup {p}, black \ {p}} \ {black}
  /\ UNCHANGED <<logVars, mainVars, bpfVars, threadVars, phoneVars, upc>>

WorkStep(t) == UpdateMap(t) \/ CommandDone(t) \/ WorkEnds(t)

OrphanDone(cmd) ==
  /\ cmd \in orphans
  /\ Carry(cmd)
  /\ orphans' = orphans \ {cmd}
  /\ UNCHANGED <<logVars, mainVars, bpfVars, alive, told, work, group, frozen, doze,
                 listVars, upc>>

(***************************************************************************)
(* uninstall.sh                                                             *)
(***************************************************************************)
Up == mpc \notin {"off", "gone"}

\* stop_daemon: TERM, if the daemon runs; before register_signals that is its end.
UninstallTerm ==
  /\ upc = "no" /\ mpc # "off"
  /\ upc' = IF Up THEN "wait" ELSE "cleanup"
  /\ IF mpc = "begin" THEN Ends("kill")
     ELSE /\ IF Up THEN OnSignal ELSE UNCHANGED <<mpc, goOn>>
          /\ UNCHANGED <<logVars, how, bpfVars, threadVars, phoneVars, listVars>>

\* Mutant of UninstallWait: goes on after 5 s without KILL.
UninstallWaitOnly ==
  /\ upc = "wait" /\ upc' = "cleanup"
  /\ UNCHANGED <<logVars, mainVars, bpfVars, threadVars, phoneVars, listVars>>

\* Mutant of UninstallWait: waits as long as it takes.
UninstallWaitLong ==
  /\ upc = "wait" /\ ~Up /\ upc' = "cleanup"
  /\ UNCHANGED <<logVars, mainVars, bpfVars, threadVars, phoneVars, listVars>>

\* Until it is gone, or after 5 s KILL.
UninstallWait ==
  /\ upc = "wait" /\ upc' = "cleanup"
  /\ IF Up THEN Ends("kill")
     ELSE UNCHANGED <<logVars, mainVars, bpfVars, threadVars, phoneVars, listVars>>

\* cleanup_cgroup: the group is thawed, then three tries to move the processes out; with
\* some left it stays.
UninstallCleanup ==
  /\ upc = "cleanup" /\ upc' = "restore"
  /\ IF group = "none" THEN UNCHANGED <<group, frozen>>
     ELSE /\ frozen' \in SUBSET frozen
          /\ group' = IF frozen' = {} THEN "none" ELSE "0"
  /\ UNCHANGED <<logVars, mainVars, bpfVars, threadVars, denied, doze, sysFreezer, listVars>>

\* Mutant of UninstallRestore: of blacklisted apps only the Doze whitelist is restored.
UninstallRestoreDoze ==
  /\ upc = "restore" /\ upc' = "done"
  /\ doze' = doze \cup black
  /\ denied' = denied \ (Users \ white)
  /\ sysFreezer' = TRUE
  /\ UNCHANGED <<logVars, mainVars, bpfVars, threadVars, group, frozen, listVars>>

\* Blacklisted apps, other user apps, the system freezer: an orphan of the daemon changes
\* one of them and may as well come before or after all.
UninstallRestore ==
  /\ upc = "restore" /\ upc' = "done"
  /\ doze' = doze \cup black
  /\ denied' = denied \ (black \cup (Users \ white))
  /\ sysFreezer' = TRUE
  /\ UNCHANGED <<logVars, mainVars, bpfVars, threadVars, group, frozen, listVars>>

UninstallStep == UninstallWait \/ UninstallCleanup \/ UninstallRestore

(***************************************************************************)
(* The specification                                                        *)
(***************************************************************************)
\* Lines are flushed while the process is there.
LoggerStep ==
  /\ mpc \notin {"off", "begin", "gone"}
  /\ FlushStep
  /\ UNCHANGED <<mainVars, bpfVars, threadVars, phoneVars, listVars, upc>>

ThreadStep ==
  \/ \E p \in Pkgs : Freeze(p) \/ Edit(p) \/ \E t \in Workers : Unfreeze(t, p)
  \/ \E t \in Workers : Reassert(t) \/ WorkStep(t)
  \/ \E t \in Threads : ThreadEnds(t)

Next ==
  \/ Boot \/ MainStep \/ ThreadStep \/ LoggerStep
  \/ UninstallTerm \/ UninstallStep
  \/ \E cmd \in orphans : OrphanDone(cmd)

Spec == Init /\ [][Next]_vars

\* What is begun goes on: main, a work, a thread told to stop, the script.  No thread is
\* sure to get work, and which of them goes first is left open.
Progress ==
  \/ MainStep \/ UninstallStep
  \/ \E t \in Workers : WorkStep(t)
  \/ \E t \in Threads : ThreadEnds(t)

Fairness == WF_vars(Progress) /\ WF_vars(LoggerStep)

FairSpec == Spec /\ Fairness

(***************************************************************************)
(* Properties                                                               *)
(***************************************************************************)
\* logger.h:114: while the daemon is up no line is lost or out of order.
NoLineLost == Up => InOrder

\* logger.h:146: a daemon that returns from main has written all its lines.
ExitWritesAll == mpc = "gone" /\ how = "exit" => Len(printed) = logged

\* main.cpp:187: a shutdown that reaches return 0 goes through: it does not end in a
\* destructor that finds its thread running.
ShutdownExits == [][mpc = "statics" /\ ~goOn /\ "http" \in told => how' # "abort"]_vars

\* uninstall.sh:59: when the script is done no process stands still, and none can be
\* stopped again.
NothingLeftFrozen == upc = "done" => mpc = "gone" /\ group # "1"

\* uninstall.sh:99: what the lists at that time name is restored, if the daemon came to
\* its own end.
Restored ==
  upc = "done" /\ how = "exit" =>
    /\ sysFreezer
    /\ denied \cap (black \cup (Users \ white)) = {}
    /\ black \subseteq doze

\* uninstall.sh:44: the script ends whatever the daemon does.
UninstallEnds == upc = "wait" ~> upc = "done"

\* logger.h:119: a line is written within time, also when nothing else is logged, unless
\* the daemon is cut off.
LinesWritten ==
  \A n \in 1 .. MaxLines :
    logged = n ~> Len(printed) >= n \/ (mpc = "gone" /\ how # "exit")

(***************************************************************************)
(* What the code does not ensure                                            *)
(***************************************************************************)
\* main.cpp:185: a daemon told to stop does not sleep on.
WokenByTerm == mpc = "pause" => goOn

\* main.cpp:179: a start that fails returns 1.
FailedStartReturns == how # "abort"

\* main.cpp:188: the worker finds the map when it updates it.
MapThere ==
  \A t \in Workers : t \in alive /\ work[t].at = "map" => object # "freed"

\* A daemon that stops leaves no process frozen.
StopThaws == mpc = "gone" /\ how = "exit" => group # "1" \/ frozen = {}

\* uninstall.sh:9: all AppOps the module took are given back.
AllRestored == upc = "done" /\ how = "exit" => denied = {} /\ doze = Pkgs

\* uninstall.sh:32: after the daemon is gone nothing takes them again.
RestoredForGood == upc = "done" => sysFreezer

=============================================================================
