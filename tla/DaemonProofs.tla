---------------------------- MODULE DaemonProofs ----------------------------
(***************************************************************************)
(* Theorems about Daemon and its Logger, for any packages, lists and bounds. *)
(***************************************************************************)
EXTENDS Daemon, SequenceTheorems, TLAPS

(***************************************************************************)
(* Sequences                                                                *)
(***************************************************************************)
Pos == Nat \ {0}
UpTo(n) == [i \in 1 .. n |-> i]

LEMMA ConcatAppend ==
  ASSUME NEW s \in Lines, NEW t \in Lines, NEW x \in Pos
  PROVE  s \o Append(t, x) = Append(s \o t, x)
<1>1. s \o t \in Seq(Pos) /\ <<x>> \in Seq(Pos)
  BY DEF Lines, Pos
<1>2. Append(t, x) = t \o <<x>> /\ Append(s \o t, x) = (s \o t) \o <<x>>
  BY <1>1, AppendIsConcat DEF Lines, Pos
<1> QED BY <1>1, <1>2, ConcatAssociative DEF Lines, Pos

LEMMA ConcatMove ==
  ASSUME NEW s \in Lines, NEW t \in Lines, t # <<>>
  PROVE  Append(s, Head(t)) \o Tail(t) = s \o t
<1>1. Head(t) \in Pos /\ Tail(t) \in Lines
  BY DEF Lines, Pos
<1>2. Append(s, Head(t)) \in Lines
  BY <1>1 DEF Lines, Pos
<1>3. /\ Len(Append(s, Head(t)) \o Tail(t)) = Len(s \o t)
      /\ Append(s, Head(t)) \o Tail(t) \in Lines /\ s \o t \in Lines
  BY <1>1, <1>2 DEF Lines, Pos
<1>4. ASSUME NEW i \in 1 .. Len(s \o t)
      PROVE  (Append(s, Head(t)) \o Tail(t))[i] = (s \o t)[i]
  <2>1. CASE i <= Len(s)
    BY <2>1, <1>1, <1>2, <1>3 DEF Lines, Pos
  <2>2. CASE i = Len(s) + 1
    BY <2>2, <1>1, <1>2, <1>3 DEF Lines, Pos
  <2>3. CASE i > Len(s) + 1
    BY <2>3, <1>1, <1>2, <1>3 DEF Lines, Pos
  <2> QED BY <2>1, <2>2, <2>3 DEF Lines, Pos
<1> QED BY <1>3, <1>4 DEF Lines, Pos

LEMMA UpToAppend ==
  ASSUME NEW n \in Nat PROVE Append(UpTo(n), n + 1) = UpTo(n + 1)
  BY DEF UpTo

LEMMA UpToLen == ASSUME NEW n \in Nat PROVE Len(UpTo(n)) = n
  BY DEF UpTo

(***************************************************************************)
(* Types                                                                    *)
(***************************************************************************)
LEMMA LogTypeInit == LogInit => LogTypeOK
<1>1. <<>> \in Lines
  BY DEF Lines
<1>2. LogInit => fileOpen \in BOOLEAN
  BY DEF LogInit
<1>3. LogInit => logOn \in BOOLEAN /\ last \in BOOLEAN
  BY DEF LogInit
<1>4. LogInit => /\ queue \in Lines /\ batch \in Lines /\ printed \in Lines
                 /\ file \in Lines /\ old \in Lines
  BY <1>1, Zenon DEF LogInit
<1>5. LogInit => logged \in Nat /\ fpc \in {"test", "wait", "write", "rename", "done"}
  BY DEF LogInit
<1> QED BY <1>2, <1>3, <1>4, <1>5 DEF LogTypeOK

\* What any step does to the log is one of these.
LogMove == Log \/ FlushStep \/ StopLogger \/ CutOff \/ UNCHANGED logVars

LEMMA LogTypeNext == LogTypeOK /\ LogMove => LogTypeOK'
<1> SUFFICES ASSUME LogTypeOK, LogMove PROVE LogTypeOK'
  OBVIOUS
<1> USE DEF LogTypeOK
<1>1. <<>> \in Lines
  BY DEF Lines
<1>2. CASE Log
  <2>1. Append(queue, logged + 1) \in Lines
    BY DEF Lines
  <2> QED BY <1>2, <2>1 DEF Log
<1>3. CASE TestRunning
  BY <1>3 DEF TestRunning
<1>4. CASE TakeBatch
  BY <1>4, <1>1 DEF TakeBatch
<1>5. CASE WriteLine
  <2>1. Head(batch) \in Pos /\ Tail(batch) \in Lines
    BY <1>5 DEF WriteLine, Lines, Pos
  <2>2. Append(printed, Head(batch)) \in Lines /\ Append(file, Head(batch)) \in Lines
    BY <2>1 DEF Lines, Pos
  <2> QED BY <1>5, <2>1, <2>2 DEF WriteLine
<1>6. CASE BatchEnds
  BY <1>6, <1>1 DEF BatchEnds, OpenLogFile
<1>7. CASE Rotate
  BY <1>7, <1>1 DEF Rotate, OpenLogFile
<1>8. CASE StopLogger
  BY <1>8 DEF StopLogger
<1>9. CASE CutOff
  BY <1>9, <1>1 DEF CutOff
<1>10. CASE UNCHANGED logVars
  BY <1>10 DEF logVars
<1> QED BY <1>2, <1>3, <1>4, <1>5, <1>6, <1>7, <1>8, <1>9, <1>10 DEF LogMove, FlushStep

LEMMA NextMovesLog == [Next]_vars => LogMove
<1> SUFFICES ASSUME [Next]_vars PROVE LogMove
  OBVIOUS
<1> USE DEF LogMove
<1>1. CASE Boot
  BY <1>1 DEF Boot
<1>2. CASE MainStep
  <2>1. CASE Begin \/ InitCgroup \/ StartThreads \/ StartHttp \/ TestGoOn \/ Pause
    BY <2>1 DEF Begin, InitCgroup, StartThreads, StartHttp, TestGoOn, Pause
  <2>2. CASE JoinBpf \/ JoinHttp \/ JoinTimer
    BY <2>2 DEF JoinBpf, JoinHttp, JoinTimer
  <2>3. CASE DestroyLocals \/ DestroyStatics \/ JoinLogger
    BY <2>3 DEF DestroyLocals, DestroyStatics, JoinLogger, Ends
  <2> QED BY <1>2, <2>1, <2>2, <2>3 DEF MainStep
<1>3. CASE ThreadStep
  <2>1. ASSUME NEW p \in Pkgs, Freeze(p) \/ Edit(p) PROVE LogMove
    BY <2>1 DEF Freeze, Edit
  <2>2. ASSUME NEW p \in Pkgs, NEW t \in Workers, Unfreeze(t, p) PROVE LogMove
    BY <2>2 DEF Unfreeze
  <2>3. ASSUME NEW t \in Workers, Reassert(t) \/ WorkStep(t) PROVE LogMove
    BY <2>3 DEF Reassert, WorkStep, UpdateMap, CommandDone, WorkEnds
  <2>4. ASSUME NEW t \in Threads, ThreadEnds(t) PROVE LogMove
    BY <2>4 DEF ThreadEnds
  <2> QED BY <1>3, <2>1, <2>2, <2>3, <2>4 DEF ThreadStep
<1>4. CASE LoggerStep
  BY <1>4 DEF LoggerStep
<1>5. CASE UninstallTerm \/ UninstallStep
  BY <1>5 DEF UninstallTerm, UninstallStep, UninstallWait, UninstallCleanup,
    UninstallRestore, Ends
<1>6. ASSUME NEW cmd \in orphans, OrphanDone(cmd) PROVE LogMove
  BY <1>6 DEF OrphanDone
<1>7. CASE UNCHANGED vars
  BY <1>7 DEF vars
<1> QED BY <1>1, <1>2, <1>3, <1>4, <1>5, <1>6, <1>7 DEF Next

(***************************************************************************)
(* A life of the daemon                                                     *)
(***************************************************************************)
\* Which threads may be there at each place of main, and how the process ends.
ThreadsInv ==
  /\ mpc \in {"off", "begin", "cgroup", "threads", "logJoin", "gone"} => alive = {}
  /\ mpc \in {"http", "locals", "timerJoin", "statics"} => "http" \notin alive
  /\ mpc \in {"httpJoin", "timerJoin", "statics"} => "bpf" \notin alive
  /\ "http" \in told => mpc \in {"httpJoin", "timerJoin", "statics", "logJoin", "gone"}
  /\ mpc = "statics" /\ "http" \in told => "timer" \notin alive
  /\ mpc \in {"statics", "logJoin"} => how = "exit"
  /\ mpc \notin {"statics", "logJoin", "gone"} => how = "none"

\* The script works on the phone after the daemon, and the group is there for its threads.
ScriptInv ==
  /\ mpc # "gone" \/ how = "exit" => orphans = {}
  /\ alive # {} \/ mpc \notin {"off", "begin", "cgroup", "statics", "logJoin", "gone"} =>
       group # "none"
  /\ upc \in {"cleanup", "restore", "done"} => mpc = "gone"
  /\ upc # "no" => mpc # "off"
  /\ upc \in {"restore", "done"} => group # "1"

LifeInv == TypeOK /\ ThreadsInv /\ ScriptInv

LEMMA WorkTypes ==
  ASSUME TypeOK, NEW t \in Workers, work[t].at # "idle"
  PROVE  /\ work[t].cmd \in Commands
         /\ \A x \in {"map", "cmd", "log"} :
              [work EXCEPT ![t].at = x] \in [Workers -> Works]
<1>1. work[t] \in Works /\ work \in [Workers -> Works]
  BY DEF TypeOK
<1>2. work[t] # Idle
  BY DEF Idle
<1>3. work[t] \in [at : {"map", "cmd", "log"}, cmd : Commands]
  BY <1>1, <1>2 DEF Works
<1>4. ASSUME NEW x \in {"map", "cmd", "log"}
      PROVE  [work EXCEPT ![t].at = x] \in [Workers -> Works]
  <2>1. [work[t] EXCEPT !.at = x] \in Works
    BY <1>3 DEF Works
  <2> QED BY <1>1, <2>1
<1> QED BY <1>3, <1>4

LEMMA EndsTypes ==
  ASSUME LifeInv, NEW way \in {"exit", "abort", "kill"}, Ends(way)
  PROVE  /\ work' \in [Workers -> Works] /\ orphans' \subseteq Commands
         /\ alive = {} => orphans' = orphans
<1>1. work' \in [Workers -> Works]
  BY DEF Ends, Works
<1>2. ASSUME NEW t \in alive \cap Workers, work[t].at = "cmd" PROVE work[t].cmd \in Commands
  BY <1>2, WorkTypes DEF LifeInv
<1>3. orphans' \subseteq Commands
  BY <1>2 DEF Ends, LifeInv, TypeOK
<1>4. alive = {} => orphans' = orphans
  BY DEF Ends
<1> QED BY <1>1, <1>3, <1>4

LEMMA LifeInit == Init => LifeInv
<1> SUFFICES ASSUME Init PROVE LifeInv
  OBVIOUS
<1>1. LogTypeOK
  BY LogTypeInit DEF Init
<1>2. work \in [Workers -> Works]
  BY DEF Init, Works
<1>3. white \subseteq Pkgs /\ black \subseteq Pkgs
  BY ListsAssumption DEF Init
<1>4. TypeOK
  BY <1>1, <1>2, <1>3 DEF Init, TypeOK, MainLabels
<1> QED BY <1>4 DEF Init, LifeInv, ThreadsInv, ScriptInv

LEMMA LifeNext == LifeInv /\ [Next]_vars => LifeInv'
<1> SUFFICES ASSUME LifeInv, [Next]_vars PROVE LifeInv'
  OBVIOUS
<1>0. LogTypeOK'
  BY NextMovesLog, LogTypeNext DEF LifeInv, TypeOK
<1> USE <1>0, UsersAssumption
    DEF LifeInv, TypeOK, ThreadsInv, ScriptInv, MainLabels, Threads, Workers
<1>1. CASE Boot
  BY <1>1 DEF Boot, bpfVars, threadVars, listVars
<1>2. CASE MainStep
  <2>1. CASE Begin \/ Pause
    <3>1. CASE Begin
      BY <3>1 DEF Begin, bpfVars, threadVars, listVars, phoneVars
    <3>2. CASE Pause
      BY <3>2 DEF Pause, bpfVars, threadVars, listVars, phoneVars
    <3> QED BY <2>1, <3>1, <3>2
  <2>2. CASE InitCgroup
    BY <2>2 DEF InitCgroup, bpfVars, threadVars, listVars
  <2>3. CASE StartThreads \/ StartHttp
    <3>1. CASE StartThreads
      BY <3>1 DEF StartThreads, bpfVars, listVars, phoneVars
    <3>2. CASE StartHttp
      BY <3>2 DEF StartHttp, bpfVars, listVars, phoneVars
    <3> QED BY <2>3, <3>1, <3>2
  <2>4. CASE TestGoOn \/ JoinBpf \/ JoinHttp \/ JoinTimer
    <3>1. CASE TestGoOn
      BY <3>1 DEF TestGoOn, bpfVars, listVars, phoneVars
    <3>2. CASE JoinBpf
      BY <3>2 DEF JoinBpf, listVars, phoneVars
    <3>3. CASE JoinHttp
      BY <3>3 DEF JoinHttp, bpfVars, listVars, phoneVars
    <3>4. CASE JoinTimer
      BY <3>4 DEF JoinTimer, bpfVars, threadVars, listVars, phoneVars
    <3> QED BY <2>4, <3>1, <3>2, <3>3, <3>4
  <2>5. CASE DestroyLocals
    <3>1. CASE "bpf" \in alive
      <4>1. Ends("abort") /\ UNCHANGED upc /\ mpc = "locals"
        BY <2>5, <3>1 DEF DestroyLocals
      <4>2. work' \in [Workers -> Works] /\ orphans' \subseteq Commands
        BY <4>1, EndsTypes
      <4> QED BY <4>1, <4>2 DEF Ends, bpfVars, listVars, phoneVars
    <3> QED BY <2>5, <3>1 DEF DestroyLocals, bpfVars, threadVars, listVars, phoneVars
  <2>6. CASE DestroyStatics
    <3>1. CASE "timer" \in alive
      <4>1. Ends("abort") /\ UNCHANGED upc /\ mpc = "statics"
        BY <2>6, <3>1 DEF DestroyStatics
      <4>2. work' \in [Workers -> Works] /\ orphans' \subseteq Commands
        BY <4>1, EndsTypes
      <4> QED BY <4>1, <4>2 DEF Ends, bpfVars, listVars, phoneVars
    <3> QED BY <2>6, <3>1 DEF DestroyStatics, bpfVars, threadVars, listVars, phoneVars
  <2>7. CASE JoinLogger
    <3>1. Ends("exit") /\ UNCHANGED upc /\ mpc = "logJoin" /\ alive = {}
      BY <2>7 DEF JoinLogger
    <3>2. work' \in [Workers -> Works] /\ orphans' \subseteq Commands /\ orphans' = orphans
      BY <3>1, EndsTypes
    <3> QED BY <3>1, <3>2 DEF Ends, bpfVars, listVars, phoneVars
  <2> QED BY <1>2, <2>1, <2>2, <2>3, <2>4, <2>5, <2>6, <2>7 DEF MainStep
<1>3. CASE ThreadStep
  <2>1. ASSUME NEW t \in Workers, NEW cmd \in Commands, Takes(t, cmd)
        PROVE  work' \in [Workers -> Works] /\ alive # {}
    <3>1. [at |-> "map", cmd |-> cmd] \in Works
      BY <2>1 DEF Works
    <3> QED BY <2>1, <3>1 DEF Takes
  <2>2. ASSUME NEW p \in Pkgs, Freeze(p) PROVE LifeInv'
    <3>1. work' \in [Workers -> Works] /\ alive # {}
      BY <2>1, <2>2 DEF Freeze, Deny, Commands
    <3> QED BY <2>2, <3>1 DEF Freeze, mainVars, bpfVars, listVars
  <2>3. ASSUME NEW p \in Pkgs, NEW t \in Workers, Unfreeze(t, p) PROVE LifeInv'
    <3>1. work' \in [Workers -> Works] /\ alive # {}
      BY <2>1, <2>3 DEF Unfreeze, Default, Commands
    <3> QED BY <2>3, <3>1 DEF Unfreeze, mainVars, bpfVars, listVars
  <2>4. ASSUME NEW t \in Workers, Reassert(t) PROVE LifeInv'
    <3>1. work' \in [Workers -> Works]
      BY <2>1, <2>4 DEF Reassert, Commands
    <3> QED BY <2>4, <3>1 DEF Reassert, mainVars, bpfVars, listVars, phoneVars
  <2>5. ASSUME NEW t \in Workers, UpdateMap(t) PROVE LifeInv'
    <3>1. work' \in [Workers -> Works]
      BY <2>5, WorkTypes DEF UpdateMap
    <3> QED BY <2>5, <3>1 DEF UpdateMap, mainVars, bpfVars, listVars, phoneVars
  <2>6. ASSUME NEW t \in Workers, CommandDone(t) PROVE LifeInv'
    <3>1. work' \in [Workers -> Works] /\ work[t].cmd \in Commands
      BY <2>6, WorkTypes DEF CommandDone
    <3>2. denied' \subseteq Pkgs /\ sysFreezer' \in BOOLEAN
      BY <2>6, <3>1 DEF CommandDone, Carry, Commands, FreezerOff
    <3> QED BY <2>6, <3>1, <3>2 DEF CommandDone, mainVars, bpfVars, listVars
  <2>7. ASSUME NEW t \in Workers, WorkEnds(t) PROVE LifeInv'
    <3>1. work' \in [Workers -> Works]
      BY <2>7 DEF WorkEnds, Works
    <3> QED BY <2>7, <3>1 DEF WorkEnds, mainVars, bpfVars, listVars, phoneVars
  <2>8. ASSUME NEW t \in Threads, ThreadEnds(t) PROVE LifeInv'
    BY <2>8 DEF ThreadEnds, mainVars, bpfVars, listVars, phoneVars
  <2>9. ASSUME NEW p \in Pkgs, Edit(p) PROVE LifeInv'
    BY <2>9 DEF Edit, mainVars, bpfVars, threadVars, phoneVars
  <2> QED BY <1>3, <2>2, <2>3, <2>4, <2>5, <2>6, <2>7, <2>8, <2>9 DEF ThreadStep, WorkStep
<1>4. CASE LoggerStep
  BY <1>4 DEF LoggerStep, mainVars, bpfVars, threadVars, listVars, phoneVars
<1>5. CASE UninstallTerm
  <2>1. CASE mpc = "begin"
    <3>1. Ends("kill") /\ upc' = "wait" /\ alive = {}
      BY <1>5, <2>1 DEF UninstallTerm, Up
    <3>2. work' \in [Workers -> Works] /\ orphans' \subseteq Commands /\ orphans' = orphans
      BY <3>1, EndsTypes
    <3> QED BY <2>1, <3>1, <3>2 DEF Ends, bpfVars, listVars, phoneVars
  <2>2. CASE mpc # "begin"
    <3>1. CASE Up
      <4>1. OnSignal /\ upc' = "wait" /\ mpc # "off"
        BY <1>5, <2>2, <3>1 DEF UninstallTerm
      <4>2. UNCHANGED <<how, bpfVars, threadVars, listVars, phoneVars>>
        BY <1>5, <2>2 DEF UninstallTerm
      <4>3. CASE mpc = "pause"
        BY <3>1, <4>1, <4>2, <4>3 DEF OnSignal, Up, bpfVars, threadVars, listVars, phoneVars
      <4>4. CASE mpc # "pause"
        <5>1. mpc' = mpc /\ goOn' = FALSE /\ mpc \notin {"off", "gone"}
          BY <3>1, <4>1, <4>4 DEF OnSignal, Up
        <5>2. TypeOK'
          BY <5>1, <4>1, <4>2 DEF bpfVars, threadVars, listVars, phoneVars
        <5>3. ThreadsInv'
          BY <5>1, <4>2 DEF threadVars
        <5>4. ScriptInv'
          BY <5>1, <4>1, <4>2 DEF threadVars, phoneVars
        <5> QED BY <5>2, <5>3, <5>4
      <4> QED BY <4>3, <4>4
    <3>2. CASE ~Up
      BY <1>5, <2>2, <3>2 DEF UninstallTerm, Up, bpfVars, threadVars, listVars, phoneVars
    <3> QED BY <3>1, <3>2
  <2> QED BY <2>1, <2>2
<1>6. CASE UninstallWait
  <2>1. CASE Up
    <3>1. Ends("kill") /\ upc' = "cleanup" /\ upc = "wait"
      BY <1>6, <2>1 DEF UninstallWait
    <3>2. work' \in [Workers -> Works] /\ orphans' \subseteq Commands
      BY <3>1, EndsTypes
    <3> QED BY <3>1, <3>2 DEF Ends, bpfVars, listVars, phoneVars
  <2>2. CASE ~Up
    BY <1>6, <2>2 DEF UninstallWait, Up, mainVars, bpfVars, threadVars, listVars, phoneVars
  <2> QED BY <2>1, <2>2
<1>7. CASE UninstallCleanup \/ UninstallRestore
  <2>1. CASE UninstallCleanup
    BY <2>1 DEF UninstallCleanup, mainVars, bpfVars, threadVars, listVars
  <2>2. CASE UninstallRestore
    BY <2>2 DEF UninstallRestore, mainVars, bpfVars, threadVars, listVars
  <2> QED BY <1>7, <2>1, <2>2
<1>8. ASSUME NEW cmd \in orphans, OrphanDone(cmd) PROVE LifeInv'
  <2>1. cmd \in Commands
    OBVIOUS
  <2>2. denied' \subseteq Pkgs /\ sysFreezer' \in BOOLEAN
    BY <1>8, <2>1 DEF OrphanDone, Carry, Commands, FreezerOff
  <2> QED BY <1>8, <2>2 DEF OrphanDone, mainVars, bpfVars, listVars
<1>9. CASE UNCHANGED vars
  BY <1>9 DEF vars, mainVars, bpfVars, threadVars, listVars, phoneVars
<1> QED
  BY <1>1, <1>2, <1>3, <1>4, <1>5, <1>6, <1>7, <1>8, <1>9 DEF Next, UninstallStep

(***************************************************************************)
(* The lines of the log                                                     *)
(***************************************************************************)
\* Where the lines are while the daemon is up, and that all are written when it returned.
LogInv ==
  /\ ~logOn => mpc \in {"logJoin", "gone"}
  /\ last => ~logOn
  /\ fpc = "done" => last
  /\ fpc # "write" => batch = <<>>
  /\ last /\ fpc # "wait" => queue = <<>>
  /\ mpc # "gone" => InOrder
  /\ mpc = "gone" /\ how = "exit" => Len(printed) = logged

LEMMA LogOrder ==
  ASSUME LogTypeOK, InOrder, fpc # "write" => batch = <<>>,
         Log \/ FlushStep \/ StopLogger \/ UNCHANGED logVars
  PROVE  InOrder'
<1> USE DEF LogTypeOK
<1>1. CASE Log
  <2>1. printed \o batch \in Lines
    BY DEF Lines
  <2>2. (printed \o batch) \o Append(queue, logged + 1) = Append(UpTo(logged), logged + 1)
    <3>1. logged + 1 \in Pos /\ (printed \o batch) \o queue = UpTo(logged)
      BY DEF InOrder, UpTo, Pos
    <3>2. (printed \o batch) \o Append(queue, logged + 1)
            = Append((printed \o batch) \o queue, logged + 1)
      BY <2>1, <3>1, ConcatAppend
    <3> QED BY <3>1, <3>2
  <2>3. printed' \o batch' \o queue' = UpTo(logged + 1)
    <3>1. Append(UpTo(logged), logged + 1) = UpTo(logged + 1)
      BY UpToAppend
    <3>2. printed' = printed /\ batch' = batch /\ queue' = Append(queue, logged + 1)
      BY <1>1 DEF Log
    <3> QED BY <2>2, <3>1, <3>2
  <2> QED BY <1>1, <2>3 DEF InOrder, UpTo, Log
<1>2. CASE TakeBatch \/ TestRunning \/ BatchEnds \/ Rotate \/ StopLogger \/ UNCHANGED logVars
  <2>1. CASE TakeBatch
    <3>0. printed \in Seq(Pos) /\ batch \in Seq(Pos) /\ queue \in Seq(Pos)
      BY DEF Lines, Pos
    <3>1. batch = <<>>
      BY <2>1 DEF TakeBatch
    <3>2. printed \o batch = printed /\ queue \o <<>> = queue
      BY <3>0, <3>1, ConcatEmptySeq
    <3>3. (printed \o queue) \o <<>> = printed \o queue
      BY <3>0, ConcatEmptySeq, ConcatProperties
    <3> QED BY <2>1, <3>1, <3>2, <3>3 DEF TakeBatch, InOrder
  <2> QED BY <1>2, <2>1 DEF TestRunning, BatchEnds, Rotate, StopLogger, logVars, InOrder
<1>3. CASE WriteLine
  <2>1. Append(printed, Head(batch)) \o Tail(batch) = printed \o batch
    BY <1>3, ConcatMove DEF WriteLine
  <2> QED BY <1>3, <2>1 DEF WriteLine, InOrder
<1> QED BY <1>1, <1>2, <1>3 DEF FlushStep

LEMMA LogNext == LifeInv /\ LogInv /\ [Next]_vars => LogInv'
<1> SUFFICES ASSUME LifeInv, LogInv, [Next]_vars PROVE LogInv'
  OBVIOUS
<1>0. LogTypeOK
  BY DEF LifeInv, TypeOK
<1> USE DEF LogInv
<1>1. ASSUME UNCHANGED logVars, mpc \in {"logJoin", "gone"} => mpc' = mpc,
             mpc' # "gone" \/ (mpc = "gone" /\ how' = how)
      PROVE  LogInv'
  <2>1. mpc' # "gone" => InOrder'
    BY <1>0, <1>1, LogOrder
  <2> QED BY <1>1, <2>1 DEF logVars
<1>2. ASSUME Log, logOn, mpc' # "gone", mpc # "gone" PROVE LogInv'
  <2>1. InOrder'
    BY <1>0, <1>2, LogOrder
  <2> QED BY <1>2, <2>1 DEF Log
<1>3. ASSUME NEW way \in {"abort", "kill"}, Ends(way) PROVE LogInv'
  BY <1>3 DEF Ends, CutOff
<1>4. CASE Boot
  BY <1>4, <1>1 DEF Boot
<1>5. CASE MainStep
  <2>1. CASE Begin \/ StartHttp \/ TestGoOn
    <3>1. logOn /\ mpc # "gone"
      BY <2>1 DEF Begin, StartHttp, TestGoOn
    <3>2. CASE Log
      BY <2>1, <3>1, <3>2, <1>2 DEF Begin, StartHttp, TestGoOn
    <3>3. CASE ~Log
      BY <2>1, <3>1, <3>3, <1>1 DEF Begin, StartHttp, TestGoOn
    <3> QED BY <3>2, <3>3
  <2>2. CASE InitCgroup \/ StartThreads \/ Pause \/ JoinBpf \/ JoinHttp \/ JoinTimer
    BY <2>2, <1>1 DEF InitCgroup, StartThreads, Pause, JoinBpf, JoinHttp, JoinTimer
  <2>3. CASE DestroyLocals
    BY <2>3, <1>1, <1>3 DEF DestroyLocals
  <2>4. CASE DestroyStatics
    <3>1. CASE StopLogger /\ mpc' = "logJoin" /\ mpc = "statics"
      <4>1. InOrder'
        BY <1>0, <3>1, LogOrder
      <4> QED BY <3>1, <4>1 DEF StopLogger
    <3> QED BY <2>4, <3>1, <1>3 DEF DestroyStatics
  <2>5. CASE JoinLogger
    <3>1. Ends("exit") /\ fpc = "done" /\ mpc = "logJoin"
      BY <2>5 DEF JoinLogger
    <3>2. printed \in Seq(Pos) /\ batch = <<>> /\ queue = <<>> /\ InOrder
      BY <1>0, <3>1 DEF LogTypeOK, Lines, Pos
    <3>3. (printed \o batch) \o queue = printed
      BY <3>2, ConcatEmptySeq
    <3>4. Len(printed) = logged
      BY <1>0, <3>2, <3>3, UpToLen DEF InOrder, UpTo, LogTypeOK
    <3> QED BY <3>1, <3>4 DEF Ends, CutOff
  <2> QED BY <1>5, <2>1, <2>2, <2>3, <2>4, <2>5 DEF MainStep
<1>6. CASE ThreadStep
  <2>1. mpc \notin {"off", "begin", "gone", "logJoin"} /\ mpc' = mpc
    <3>1. ASSUME NEW p \in Pkgs, Freeze(p) \/ Edit(p)
          PROVE  alive # {} /\ mpc' = mpc
      BY <3>1 DEF Freeze, Edit, Takes, mainVars
    <3>2. ASSUME NEW p \in Pkgs, NEW t \in Workers, Unfreeze(t, p)
          PROVE  alive # {} /\ mpc' = mpc
      BY <3>2 DEF Unfreeze, Takes, mainVars
    <3>3. ASSUME NEW t \in Workers, Reassert(t) \/ WorkStep(t)
          PROVE  alive # {} /\ mpc' = mpc
      BY <3>3 DEF Reassert, Takes, WorkStep, UpdateMap, CommandDone, WorkEnds, mainVars
    <3>4. ASSUME NEW t \in Threads, ThreadEnds(t) PROVE alive # {} /\ mpc' = mpc
      BY <3>4 DEF ThreadEnds, mainVars
    <3>5. alive # {} /\ mpc' = mpc
      BY <1>6, <3>1, <3>2, <3>3, <3>4 DEF ThreadStep
    <3> QED BY <3>5 DEF LifeInv, ThreadsInv
  <2>2. Log \/ UNCHANGED logVars
    <3>1. ASSUME NEW t \in Workers, Reassert(t) \/ WorkStep(t) PROVE Log \/ UNCHANGED logVars
      BY <3>1 DEF Reassert, WorkStep, UpdateMap, CommandDone, WorkEnds
    <3> QED BY <1>6, <3>1 DEF ThreadStep, Freeze, Edit, Unfreeze, ThreadEnds
  <2> QED BY <2>1, <2>2, <1>1, <1>2
<1>7. CASE LoggerStep
  <2>1. mpc # "gone" /\ mpc' = mpc /\ FlushStep
    BY <1>7 DEF LoggerStep, mainVars
  <2>2. InOrder'
    BY <1>0, <2>1, LogOrder
  <2> QED BY <2>1, <2>2, <1>0
       DEF FlushStep, TestRunning, TakeBatch, WriteLine, BatchEnds, Rotate, LogTypeOK
<1>8. CASE UninstallTerm
  BY <1>8, <1>1, <1>3 DEF UninstallTerm, Up, OnSignal
<1>9. CASE UninstallStep
  <2>1. CASE UninstallWait
    BY <2>1, <1>1, <1>3 DEF UninstallWait, Up, mainVars
  <2>2. CASE UninstallCleanup \/ UninstallRestore
    BY <2>2, <1>1 DEF UninstallCleanup, UninstallRestore, mainVars
  <2> QED BY <1>9, <2>1, <2>2 DEF UninstallStep
<1>10. ASSUME NEW cmd \in orphans, OrphanDone(cmd) PROVE LogInv'
  BY <1>10, <1>1 DEF OrphanDone, mainVars
<1>11. CASE UNCHANGED vars
  BY <1>11, <1>1 DEF vars, mainVars
<1> QED BY <1>4, <1>5, <1>6, <1>7, <1>8, <1>9, <1>10, <1>11 DEF Next

LEMMA LogStart == Init => LogInv
<1> SUFFICES ASSUME Init PROVE LogInv
  OBVIOUS
<1>1. <<>> \in Seq(Pos)
  OBVIOUS
<1>2. <<>> \o <<>> \o <<>> = <<>> /\ UpTo(0) = <<>>
  BY <1>1, ConcatEmptySeq DEF UpTo
<1>3. InOrder
  BY <1>2, Zenon DEF Init, LogInit, InOrder, UpTo
<1> QED BY <1>3 DEF Init, LogInit, LogInv

(***************************************************************************)
(* What is left of the lines                                                *)
(***************************************************************************)
\* t ends with s.
EndsWith(t, s) ==
  /\ Len(s) <= Len(t)
  /\ \A i \in 1 .. Len(s) : s[i] = t[Len(t) - Len(s) + i]

\* Both files are the end of what was printed, all of it or as much as fills a file.
KeptInv ==
  /\ EndsWith(printed, old \o file)
  /\ Len(old \o file) = Len(printed) \/ Len(old \o file) >= RotateAt
  /\ fpc \in {"test", "wait", "write"} => fileOpen
  /\ fpc = "rename" => old = <<>> /\ Len(file) >= RotateAt

LEMMA EndsWithAppend ==
  ASSUME NEW s \in Lines, NEW t \in Lines, NEW x \in Pos, EndsWith(t, s)
  PROVE  EndsWith(Append(t, x), Append(s, x))
<1> DEFINE sx == Append(s, x)
           tx == Append(t, x)
<1>1. /\ Len(sx) = Len(s) + 1 /\ Len(tx) = Len(t) + 1 /\ Len(s) \in Nat /\ Len(t) \in Nat
      /\ Len(s) <= Len(t)
  BY DEF EndsWith, Lines, Pos
<1>2. ASSUME NEW i \in 1 .. Len(sx) PROVE sx[i] = tx[Len(tx) - Len(sx) + i]
  <2>1. CASE i = Len(s) + 1
    BY <1>1, <2>1 DEF Lines, Pos
  <2>2. CASE i # Len(s) + 1
    <3>1. i \in 1 .. Len(s) /\ Len(t) - Len(s) + i \in 1 .. Len(t)
      BY <1>1, <2>2
    <3>2. s[i] = t[Len(t) - Len(s) + i]
      BY <3>1 DEF EndsWith
    <3>3. sx[i] = s[i] /\ tx[Len(t) - Len(s) + i] = t[Len(t) - Len(s) + i]
      BY <3>1 DEF Lines, Pos
    <3>4. Len(tx) - Len(sx) + i = Len(t) - Len(s) + i
      BY <1>1
    <3> QED BY <3>2, <3>3, <3>4
  <2> QED BY <2>1, <2>2
<1>3. Len(sx) <= Len(tx)
  BY <1>1
<1> HIDE DEF sx, tx
<1>4. EndsWith(tx, sx)
  BY <1>2, <1>3 DEF EndsWith
<1> QED BY <1>4 DEF sx, tx

LEMMA EndsWithLast ==
  ASSUME NEW s \in Lines, NEW t \in Lines, NEW u \in Lines, EndsWith(t, u \o s)
  PROVE  EndsWith(t, s)
<1>1. u \o s \in Lines /\ Len(u \o s) = Len(u) + Len(s)
  BY DEF Lines
<1>2. Len(s) <= Len(t)
  BY <1>1 DEF EndsWith, Lines
<1>3. ASSUME NEW i \in 1 .. Len(s) PROVE s[i] = t[Len(t) - Len(s) + i]
  <2>1. Len(u) + i \in 1 .. Len(u \o s) /\ (u \o s)[Len(u) + i] = s[i]
    BY <1>1 DEF Lines
  <2>2. (u \o s)[Len(u) + i] = t[Len(t) - Len(u \o s) + (Len(u) + i)]
    BY <2>1 DEF EndsWith
  <2>3. Len(t) - Len(u \o s) + (Len(u) + i) = Len(t) - Len(s) + i
    BY <1>1 DEF Lines
  <2> QED BY <2>1, <2>2, <2>3
<1> QED BY <1>2, <1>3 DEF EndsWith

LEMMA KeptStart == Init /\ "open" \notin LogFaults => KeptInv
<1> SUFFICES ASSUME Init, "open" \notin LogFaults PROVE KeptInv
  OBVIOUS
<1>1. <<>> \o <<>> = <<>>
  BY ConcatEmptySeq
<1>2. old \o file = <<>> /\ printed = <<>> /\ fpc = "test" /\ fileOpen
  BY <1>1 DEF Init, LogInit
<1>3. Len(<<>>) = 0 /\ 1 .. 0 = {}
  OBVIOUS
<1> QED BY <1>2, <1>3 DEF KeptInv, EndsWith

LEMMA KeptNext ==
  ASSUME LogTypeOK, LogMove, KeptInv, "open" \notin LogFaults
  PROVE  KeptInv'
<1> USE DEF LogTypeOK, KeptInv
<1>0. RotateAt \in Nat \ {0} /\ old \o file \in Lines
  BY RotateAssumption DEF Lines
<1>1. CASE Log \/ TestRunning \/ TakeBatch \/ StopLogger \/ CutOff \/ UNCHANGED logVars
  <2>1. /\ UNCHANGED <<printed, old, file, fileOpen>>
        /\ fpc' = "rename" => fpc = "rename"
        /\ fpc' \in {"test", "wait", "write"} => fpc \in {"test", "wait", "write"}
    BY <1>1 DEF Log, TestRunning, TakeBatch, StopLogger, CutOff, logVars
  <2> QED BY <2>1
<1>2. CASE WriteLine
  <2>1. Head(batch) \in Pos /\ fileOpen
    BY <1>2 DEF WriteLine, Lines, Pos
  <2>2. old \o Append(file, Head(batch)) = Append(old \o file, Head(batch))
    BY <2>1, ConcatAppend
  <2>3. EndsWith(Append(printed, Head(batch)), Append(old \o file, Head(batch)))
    BY <1>0, <2>1, EndsWithAppend
  <2>4. /\ Len(Append(old \o file, Head(batch))) = Len(old \o file) + 1
        /\ Len(Append(printed, Head(batch))) = Len(printed) + 1
        /\ Len(old \o file) \in Nat
    BY <1>0, <2>1 DEF Lines
  <2>5. /\ printed' = Append(printed, Head(batch)) /\ old' = old
        /\ file' = Append(file, Head(batch)) /\ UNCHANGED <<fpc, fileOpen>> /\ fpc = "write"
    BY <1>2, <2>1 DEF WriteLine
  <2>6. old' \o file' = Append(old \o file, Head(batch))
    BY <2>2, <2>5
  <2>7. EndsWith(printed', old' \o file')
    BY <2>3, <2>5, <2>6
  <2>8. Len(old' \o file') = Len(printed') \/ Len(old' \o file') >= RotateAt
    <3>1. Len(old \o file) = Len(printed) \/ Len(old \o file) >= RotateAt
      OBVIOUS
    <3>2. Len(old' \o file') = Len(old \o file) + 1 /\ Len(printed') = Len(printed) + 1
      BY <2>4, <2>5, <2>6
    <3> QED BY <1>0, <2>4, <3>1, <3>2
  <2>9. fpc' = "write" /\ fileOpen'
    BY <2>1, <2>5
  <2>10. fpc' # "rename"
    BY <2>9
  <2> QED BY <2>7, <2>8, <2>9, <2>10, Zenon
<1>3. CASE BatchEnds
  <2>1. CASE Len(file) >= RotateAt
    <3>1. /\ old' = <<>> /\ UNCHANGED <<file, printed>> /\ fpc' = "rename"
      BY <1>3, <2>1 DEF BatchEnds
    <3>2. <<>> \o file = file
      BY ConcatEmptySeq DEF Lines
    <3>3. EndsWith(printed, file)
      BY EndsWithLast
    <3> QED BY <2>1, <3>1, <3>2, <3>3
  <2>2. CASE ~(Len(file) >= RotateAt)
    BY <1>3, <2>2 DEF BatchEnds
  <2> QED BY <2>1, <2>2
<1>4. CASE Rotate
  <2>1. <<>> \o file = file /\ file \o <<>> = file
    BY ConcatEmptySeq DEF Lines
  <2>2. old' \o file' = old \o file /\ UNCHANGED printed /\ fpc' = "test" /\ fileOpen'
    BY <1>4, <2>1 DEF Rotate, OpenLogFile
  <2> QED BY <2>2
<1> QED BY <1>1, <1>2, <1>3, <1>4 DEF LogMove, FlushStep

(***************************************************************************)
(* Theorems                                                                 *)
(***************************************************************************)
LEMMA LifeAlways == Spec => []LifeInv
  BY LifeInit, LifeNext, PTL DEF Spec

\* At every place of main, of the other threads and of uninstall.sh the state has its type.
THEOREM LifeTypes == Spec => []TypeOK
<1>1. LifeInv => TypeOK
  BY DEF LifeInv
<1> QED BY <1>1, LifeAlways, PTL

LEMMA LogAlways == Spec => []LogInv
  BY LogStart, LogNext, LifeAlways, PTL DEF Spec

\* While the daemon is up no line is lost, doubled or moved (logger.h:114).
THEOREM NothingLost == Spec => []NoLineLost
<1>1. LogInv => NoLineLost
  BY DEF LogInv, NoLineLost, Up
<1> QED BY <1>1, LogAlways, PTL

\* A daemon that returns from main has written every line (logger.h:146).
THEOREM AllWritten == Spec => []ExitWritesAll
<1>1. LogInv => ExitWritesAll
  BY DEF LogInv, ExitWritesAll
<1> QED BY <1>1, LogAlways, PTL

\* With a log file that can be opened, the two files hold the end of what was printed at
\* any moment, also in the middle of a rotation or after a rename that failed.
THEOREM EndKept ==
  ASSUME "open" \notin LogFaults
  PROVE  Spec => []LastLinesKept
<1>1. KeptInv /\ LogTypeOK => LastLinesKept
  <2> SUFFICES ASSUME KeptInv, LogTypeOK PROVE LastLinesKept
    OBVIOUS
  <2>1. old \o file \in Lines /\ printed \in Lines /\ RotateAt \in Nat
    BY RotateAssumption DEF LogTypeOK, Lines
  <2> QED BY <2>1 DEF KeptInv, EndsWith, LastLinesKept, Lines
<1>2. KeptInv /\ LifeInv /\ [Next]_vars => KeptInv'
  BY KeptNext, NextMovesLog DEF LifeInv, TypeOK
<1>3. LifeInv => LogTypeOK
  BY DEF LifeInv, TypeOK
<1>4. Init => KeptInv
  BY KeptStart
<1> QED BY <1>1, <1>2, <1>3, <1>4, LifeAlways, PTL DEF Spec

\* When uninstall.sh is done the daemon is gone and the frozen group, if it is still
\* there, is thawed (uninstall.sh:59).
THEOREM Unfrozen == Spec => []NothingLeftFrozen
<1>1. LifeInv => NothingLeftFrozen
  BY DEF LifeInv, ScriptInv, NothingLeftFrozen
<1> QED BY <1>1, LifeAlways, PTL

\* What the lists name is given back if the daemon returned by itself (uninstall.sh:99).
THEOREM GivenBack == Spec => []Restored
<1>1. Init => Restored
  BY DEF Init, Restored
<1>2. LifeInv /\ Restored /\ [Next]_vars => Restored'
  <2> SUFFICES ASSUME LifeInv, Restored, [Next]_vars, upc' = "done", how' = "exit"
               PROVE  /\ sysFreezer'
                      /\ denied' \cap (black' \cup (Users \ white')) = {}
                      /\ black' \subseteq doze'
    BY DEF Restored
  <2>1. CASE UninstallRestore
    BY <2>1 DEF UninstallRestore, listVars
  <2>2. ASSUME upc = "done", how = "exit", mpc = "gone",
               UNCHANGED <<phoneVars, listVars>>
        PROVE  /\ sysFreezer' /\ denied' \cap (black' \cup (Users \ white')) = {}
               /\ black' \subseteq doze'
    BY <2>2 DEF Restored, phoneVars, listVars
  <2>3. CASE Boot \/ MainStep \/ LoggerStep \/ UninstallTerm
    <3>1. upc = "done" /\ mpc = "gone"
      BY <2>3 DEF LifeInv, ScriptInv, Boot, MainStep, Begin, InitCgroup, StartThreads,
        StartHttp, TestGoOn, Pause, JoinBpf, JoinHttp, JoinTimer, DestroyLocals,
        DestroyStatics, JoinLogger, LoggerStep, UninstallTerm
    <3> QED BY <2>3, <3>1 DEF Boot, MainStep, Begin, InitCgroup, StartThreads,
          StartHttp, TestGoOn, Pause, JoinBpf, JoinHttp, JoinTimer, DestroyLocals,
          DestroyStatics, JoinLogger, LoggerStep, UninstallTerm
  <2>4. CASE ThreadStep
    <3>1. alive # {}
      BY <2>4 DEF ThreadStep, Freeze, Edit, Unfreeze, Takes, Reassert, WorkStep,
        UpdateMap, CommandDone, WorkEnds, ThreadEnds
    <3>2. UNCHANGED upc
      <4>1. ASSUME NEW t \in Workers, Reassert(t) \/ WorkStep(t) PROVE UNCHANGED upc
        BY <4>1 DEF Reassert, WorkStep, UpdateMap, CommandDone, WorkEnds
      <4> QED BY <2>4, <4>1 DEF ThreadStep, Freeze, Edit, Unfreeze, ThreadEnds
    <3> QED BY <3>1, <3>2 DEF LifeInv, ScriptInv, ThreadsInv
  <2>5. CASE UninstallStep
    BY <2>1, <2>5 DEF UninstallStep, UninstallWait, UninstallCleanup
  <2>6. ASSUME NEW cmd \in orphans, OrphanDone(cmd) PROVE FALSE
    BY <2>6 DEF LifeInv, ScriptInv, OrphanDone, mainVars
  <2>7. CASE UNCHANGED vars
    BY <2>7 DEF Restored, vars, mainVars, phoneVars, listVars
  <2> QED BY <2>3, <2>4, <2>5, <2>6, <2>7 DEF Next
<1> QED BY <1>1, <1>2, LifeAlways, PTL DEF Spec

\* A shutdown that got as far as the join of the worker does not abort (main.cpp:187).
THEOREM ShutdownThrough == Spec => ShutdownExits
<1>1. LifeInv /\ [Next]_vars => [mpc = "statics" /\ ~goOn /\ "http" \in told => how' # "abort"]_vars
  <2> SUFFICES ASSUME LifeInv, Next, mpc = "statics", "http" \in told PROVE how' # "abort"
    BY DEF vars
  <2>1. how = "exit" /\ "timer" \notin alive /\ Up
    BY DEF LifeInv, ThreadsInv, Up
  <2>2. CASE Boot \/ MainStep \/ LoggerStep
    BY <2>1, <2>2 DEF Boot, MainStep, Begin, InitCgroup, StartThreads,
        StartHttp, TestGoOn, Pause, JoinBpf, JoinHttp, JoinTimer, DestroyLocals,
        DestroyStatics, JoinLogger, LoggerStep, mainVars
  <2>3. CASE ThreadStep
    <3>1. ASSUME NEW t \in Workers, Reassert(t) \/ WorkStep(t) PROVE how' = how
      BY <3>1 DEF Reassert, WorkStep, UpdateMap, CommandDone, WorkEnds, mainVars
    <3> QED BY <2>1, <2>3, <3>1 DEF ThreadStep, Freeze, Edit, Unfreeze, ThreadEnds, mainVars
  <2>4. CASE UninstallTerm
    BY <2>1, <2>4 DEF UninstallTerm
  <2>5. CASE UninstallStep
    BY <2>1, <2>5 DEF UninstallStep, UninstallWait, UninstallCleanup, UninstallRestore, Ends,
      mainVars
  <2>6. ASSUME NEW cmd \in orphans, OrphanDone(cmd) PROVE how' = how
    BY <2>6 DEF OrphanDone, mainVars
  <2> QED BY <2>1, <2>2, <2>3, <2>4, <2>5, <2>6 DEF Next
<1> QED BY <1>1, LifeAlways, PTL DEF Spec, ShutdownExits

=============================================================================
