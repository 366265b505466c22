------------------------- MODULE FreezeEngineProofs -------------------------
(***************************************************************************)
(* Theorems about FreezeEngine, for all packages, processes and timers:     *)
(*   TypeCorrect   every reachable state is of the declared types;          *)
(*   TimersOwned   an armed delayed freeze is the pending timer of an app    *)
(*                 that waits for it.                                        *)
(*                                                                          *)
(* Each is an invariant shown to hold initially (TypeInit, TimerInit) and    *)
(* to be kept by every action (TypeNext, TimerNext: one step per action).    *)
(***************************************************************************)
EXTENDS FreezeEngine, TLAPS

(***************************************************************************)
(* The helpers' types                                                       *)
(***************************************************************************)
\* TimerManager::schedule hands out an id nothing mentions.
LEMMA NewIdFree == FreeIds # {} => NewId \in FreeIds
  BY DEF NewId

\* Cancelling leaves a callback or none under every id.
LEMMA CancelledType ==
  ASSUME TypeOK, NEW i
  PROVE  Cancelled(i) \in [TimerIds -> Callback]
  BY DEF TypeOK, Cancelled, Callback, NoCallback

\* A thread that leaves a handler is at a label, with a package or none.
LEMMA LeaveType ==
  ASSUME TypeOK, NEW t \in Threads, Leave(t)
  PROVE  pc' \in [Threads -> Labels] /\ arg' \in [Threads -> Pkgs \cup {NoPkg}]
  BY DEF TypeOK, Leave, Enter, Goto, Labels, Outside

\* The same of a return from do_freeze, which may also unlock.
LEMMA ReturnType ==
  ASSUME TypeOK, NEW t \in Threads, Return(t)
  PROVE  /\ pc' \in [Threads -> Labels] /\ arg' \in [Threads -> Pkgs \cup {NoPkg}]
         /\ owner' \in Threads \cup {NoThread}
<1>1. CASE owner = t
  BY <1>1, LeaveType DEF Return, Release
<1>2. CASE owner # t
  BY <1>2 DEF TypeOK, Return, Enter, Goto, Labels, Outside
<1> QED BY <1>1, <1>2

\* The probes put nothing but events into the ring.
LEMMA EmitType ==
  ASSUME TypeOK, NEW k \in EventKinds, NEW q \in Procs \cup {NoProc}, Emit(k, q)
  PROVE  ring' \in Seq(Event)
<1>1. [kind |-> k, proc |-> q] \in Event
  BY DEF Event
<1>2. ring \in Seq(Event)
  BY DEF TypeOK
<1>3. Append(ring, [kind |-> k, proc |-> q]) \in Seq(Event)
  BY <1>1, <1>2
<1>4. ring' = Append(ring, [kind |-> k, proc |-> q]) \/ ring' = ring
  BY Zenon DEF Emit
<1> QED BY <1>2, <1>3, <1>4, Zenon

\* A migration leaves every process in a group, or dead.
LEMMA MovedType ==
  ASSUME TypeOK, NEW pids, NEW g \in {"frozen", "active"}
  PROVE  Moved(pids, g) \in [Procs -> {"dead", "system", "frozen", "active"}]
  BY DEF TypeOK, Moved

\* The suspect count starts again when it reaches its threshold.
LEMMA SuspectType ==
  ASSUME TypeOK
  PROVE  (suspect + 1) % SuspectThreshold \in 0 .. (SuspectThreshold - 1)
  BY NumbersAssumption DEF TypeOK

\* Taking an event leaves a ring of events.
LEMMA ReceiveType ==
  ASSUME TypeOK, Receive
  PROVE  ring' \in Seq(Event)
  BY DEF TypeOK, Receive

(***************************************************************************)
(* Type correctness                                                         *)
(***************************************************************************)
\* The threads' part of the types.
ThreadsOK ==
  /\ pc \in [Threads -> Labels]
  /\ arg \in [Threads -> Pkgs \cup {NoPkg}]
  /\ owner \in Threads \cup {NoThread}

\* Every operation of the deep-sleep manager keeps its types.
LEMMA DeepType ==
  ASSUME Deep!DsTypeOK,
         \/ Deep!Schedule \/ Deep!CancelAndExit \/ Deep!Fire \/ Deep!Enter
         \/ Deep!DsRestart \/ UNCHANGED deepVars
  PROVE  Deep!DsTypeOK'
  BY DEF Deep!DsTypeOK, Deep!Schedule, Deep!CancelAndExit, Deep!Fire, Deep!Enter,
         Deep!DsRestart, deepVars

\* The same of a thread that enters a step.
LEMMA EnterType ==
  ASSUME TypeOK, NEW t \in Threads, NEW l \in Labels, NEW p \in Pkgs \cup {NoPkg},
         Enter(t, l, p)
  PROVE  pc' \in [Threads -> Labels] /\ arg' \in [Threads -> Pkgs \cup {NoPkg}]
  BY DEF TypeOK, Enter, Goto

\* One visit of the sweep keeps the types of what it changes.
LEMMA SweepVisitType ==
  ASSUME TypeOK, NEW p \in Pkgs, SweepVisit(p)
  PROVE  /\ ThreadsOK'
         /\ timers' \in [TimerIds -> Callback]
         /\ pending' \in [Pkgs -> TimerIds \cup {NoTimer}]
<1>1. owner' = owner
  BY DEF SweepVisit
<1>2. CASE p \in exempt
  BY <1>1, <1>2 DEF SweepVisit, TypeOK, ThreadsOK
<1>3. CASE p \notin exempt
  <2>1. Enter(Tmr, "df_check", p) /\ timers' = Cancelled(pending[p])
    BY <1>3 DEF SweepVisit
  <2>2. pending' = [pending EXCEPT ![p] = NoTimer]
    BY <1>3 DEF SweepVisit
  <2>3. pc' \in [Threads -> Labels] /\ arg' \in [Threads -> Pkgs \cup {NoPkg}]
    BY <2>1, EnterType DEF Threads, Tmr, Labels, Freezing
  <2> QED
    BY <1>1, <2>1, <2>2, <2>3, CancelledType DEF TypeOK, ThreadsOK
<1> QED BY <1>2, <1>3

\* The daemon starts in a state of the declared types.
LEMMA TypeInit == Init => TypeOK
<1> SUFFICES ASSUME Init PROVE TypeOK
  OBVIOUS
<1>1. ring \in Seq(Event)
  BY DEF Init
<1>2. ThreadsOK
  BY DEF Init, ThreadsOK, Labels, Outside
<1>3. Deep!DsTypeOK
  BY DEF Init, Deep!DsInit, Deep!DsTypeOK
<1>4. suspect \in 0 .. (SuspectThreshold - 1)
  BY NumbersAssumption DEF Init
<1>5. timers \in [TimerIds -> Callback]
  BY DEF Init, Callback, NoCallback
<1>6. /\ state \in [Pkgs -> {"RUNNING", "PENDING_BG", "FROZEN"}]
      /\ bounce \in [Pkgs -> Nat]
      /\ pending \in [Pkgs -> TimerIds \cup {NoTimer}]
  BY DEF Init
<1>7. cg \in [Procs -> {"dead", "system", "frozen", "active"}]
  BY DEF Init
<1> QED
  BY <1>1, <1>2, <1>3, <1>4, <1>5, <1>6, <1>7, PkgsAssumption DEF Init, TypeOK, ThreadsOK

\* So it does after it was killed.
LEMMA RestartType ==
  ASSUME TypeOK, Restart
  PROVE  TypeOK'
<1>1. ring' \in Seq(Event)
  BY DEF Restart
<1>2. ThreadsOK'
  BY DEF Restart, ThreadsOK, Labels, Outside
<1>3. Deep!DsTypeOK'
  BY DeepType DEF Restart, TypeOK
<1>4. suspect' \in 0 .. (SuspectThreshold - 1)
  BY NumbersAssumption DEF Restart
<1>5. timers' \in [TimerIds -> Callback]
  BY DEF Restart, Callback, NoCallback
<1>6. /\ state' \in [Pkgs -> {"RUNNING", "PENDING_BG", "FROZEN"}]
      /\ bounce' \in [Pkgs -> Nat]
      /\ pending' \in [Pkgs -> TimerIds \cup {NoTimer}]
  BY DEF Restart
<1> QED
  BY <1>1, <1>2, <1>3, <1>4, <1>5, <1>6, PkgsAssumption
  DEF Restart, TypeOK, ThreadsOK, confVars

\* No action leaves the declared types.
LEMMA TypeNext == TypeOK /\ [Next]_vars => TypeOK'
<1> SUFFICES ASSUME TypeOK, [Next]_vars PROVE TypeOK'
  OBVIOUS
<1> USE DEF appVars, timerVars, sweepVars, feedVars, guardVars, cgVars, confVars,
            deepVars, asideVars, Deep!DsTypeOK
<1> USE PkgsAssumption, ProcsAssumption
<1>1. ASSUME NEW t \in Threads, NEW p \in Pkgs, Foreground(t, p) PROVE TypeOK'
  <2>1. CASE state[p] = "RUNNING"
    <3>1. ThreadsOK'
      BY <2>1, <1>1, LeaveType DEF ThreadsOK, TypeOK, Foreground
    <3> QED BY <2>1, <3>1, <1>1, CancelledType DEF ThreadsOK, TypeOK, Foreground
  <2>2. CASE ~(state[p] = "RUNNING")
    <3>1. ThreadsOK'
      BY <2>2, <1>1, LeaveType DEF ThreadsOK, TypeOK, Foreground, Goto, Acquire, Labels, Locked
    <3> QED BY <2>2, <3>1, <1>1, CancelledType DEF ThreadsOK, TypeOK, Foreground
  <2> QED BY <2>1, <2>2
<1>2. ASSUME NEW t \in Threads, NEW p \in Pkgs, UnfreezeMove(t, p) PROVE TypeOK'
  BY <1>2, MovedType DEF TypeOK, UnfreezeMove, Goto, Labels, Locked
<1>3. ASSUME NEW t \in Threads, NEW p \in Pkgs, UnfreezeMark(t, p) PROVE TypeOK'
  BY <1>3 DEF TypeOK, UnfreezeMark, Goto, Labels, Locked
<1>4. ASSUME NEW t \in Threads, NEW p \in Pkgs, UnfreezeSide(t, p) PROVE TypeOK'
  BY <1>4, LeaveType DEF TypeOK, UnfreezeSide, Release
<1>5. ASSUME NEW t \in Threads, NEW p \in Pkgs, Background(t, p) PROVE TypeOK'
  <2>1. CASE state[p] = "RUNNING"
    <3>1. ThreadsOK'
      BY <2>1, <1>5, LeaveType DEF ThreadsOK, TypeOK, Background, Goto, Acquire, Labels, Locked
    <3> QED BY <2>1, <3>1, <1>5 DEF ThreadsOK, TypeOK, Background
  <2>2. CASE ~(state[p] = "RUNNING")
    <3>1. ThreadsOK'
      BY <2>2, <1>5, LeaveType DEF ThreadsOK, TypeOK, Background
    <3> QED BY <2>2, <3>1, <1>5 DEF ThreadsOK, TypeOK, Background
  <2> QED BY <2>1, <2>2
<1>6. ASSUME NEW t \in Threads, NEW p \in Pkgs, BackgroundArm(t, p) PROVE TypeOK'
  BY <1>6, LeaveType, NewIdFree DEF TypeOK, BackgroundArm, Release, FreeIds, Callback
<1>7. ASSUME NEW t \in Threads, NEW p \in Pkgs, FreezeCheck(t, p) PROVE TypeOK'
  <2>1. CASE Return(t)
    <3>1. ThreadsOK'
      BY <2>1, <1>7, ReturnType DEF ThreadsOK
    <3> QED BY <2>1, <3>1, <1>7 DEF ThreadsOK, TypeOK, FreezeCheck
  <2>2. CASE ~(Return(t))
    <3>1. ThreadsOK'
      BY <2>2, <1>7, ReturnType DEF ThreadsOK, TypeOK, FreezeCheck, Goto, Labels, Freezing
    <3> QED BY <2>2, <3>1, <1>7 DEF ThreadsOK, TypeOK, FreezeCheck
  <2> QED BY <2>1, <2>2
<1>8. ASSUME NEW t \in Threads, NEW p \in Pkgs, FreezeMove(t, p) PROVE TypeOK'
  <2>1. CASE PidsOf(p) = {}
    <3>1. ThreadsOK'
      BY <2>1, <1>8, ReturnType DEF ThreadsOK, FreezeMove
    <3> QED BY <2>1, <3>1, <1>8 DEF ThreadsOK, TypeOK, FreezeMove
  <2>2. CASE ~(PidsOf(p) = {})
    <3>1. ThreadsOK'
      BY <2>2, <1>8 DEF ThreadsOK, TypeOK, FreezeMove, Goto, Labels, Freezing
    <3> QED BY <2>2, <3>1, <1>8, MovedType DEF ThreadsOK, TypeOK, FreezeMove
  <2> QED BY <2>1, <2>2
<1>9. ASSUME NEW t \in Threads, NEW p \in Pkgs, FreezeMark(t, p) PROVE TypeOK'
  BY <1>9 DEF TypeOK, FreezeMark, Goto, Labels, Freezing
<1>10. ASSUME NEW t \in Threads, NEW p \in Pkgs, FreezeCount(t, p) PROVE TypeOK'
  BY <1>10 DEF TypeOK, FreezeCount, Goto, Labels, Freezing
<1>11. ASSUME NEW t \in Threads, NEW p \in Pkgs, FreezeSide(t, p) PROVE TypeOK'
  BY <1>11, ReturnType DEF TypeOK, FreezeSide
<1>12. ASSUME NEW p \in Pkgs, FreezeCallback(p) PROVE TypeOK'
  <2>1. CASE state[p] = "PENDING_BG"
    BY <2>1, <1>12 DEF TypeOK, FreezeCallback, Goto, Acquire, Labels, Freezing, Threads, Tmr
  <2>2. CASE ~(state[p] = "PENDING_BG")
    BY <2>2, <1>12, LeaveType DEF TypeOK, FreezeCallback, Threads
  <2> QED BY <2>1, <2>2
<1>13. ASSUME NEW p \in Pkgs, SweepNext(p) PROVE TypeOK'
  BY <1>13, SweepVisitType DEF TypeOK, ThreadsOK, SweepNext, SweepVisit
<1>14. ASSUME NEW p \in Pkgs, SweepLast(p) PROVE TypeOK'
  BY <1>14, SweepVisitType DEF TypeOK, ThreadsOK, SweepLast, SweepVisit
<1>15. ASSUME NEW p \in Pkgs, PollBackground(p) PROVE TypeOK'
  BY <1>15 DEF TypeOK, PollBackground, NoteGone, Goto, Labels, Waiting, Threads
<1>16. ASSUME NEW p \in Pkgs, PollForeground(p) PROVE TypeOK'
  BY <1>16 DEF TypeOK, PollForeground, NoteForeground, Enter, Goto, Labels, Waiting, Threads
<1>17. ASSUME SweepStart PROVE TypeOK'
  BY <1>17 DEF TypeOK, SweepStart, Goto, Labels, Outside, Threads
<1>18. ASSUME SweepEnd PROVE TypeOK'
  BY <1>18 DEF TypeOK, SweepEnd, Goto, Labels, Outside, Threads
<1>19. ASSUME EnterDeepSleep PROVE TypeOK'
  <2>1. ThreadsOK'
    BY <1>19 DEF ThreadsOK, TypeOK, EnterDeepSleep, Goto, Labels, Outside, Threads
  <2> QED BY <2>1, <1>19, DeepType DEF ThreadsOK, TypeOK, EnterDeepSleep
<1>20. ASSUME NEW answered \in BOOLEAN, FreezerCheck(answered) PROVE TypeOK'
  BY <1>20 DEF TypeOK, FreezerCheck, Goto, Labels, Outside, Threads
<1>21. ASSUME NEW p \in Pkgs, ProcDied(p) PROVE TypeOK'
  BY <1>21, LeaveType, CancelledType DEF TypeOK, ProcDied, Threads
<1>22. ASSUME NEW p \in Pkgs, SystemUnfreeze(p) PROVE TypeOK'
  <2>1. CASE state[p] = "FROZEN"
    <3>1. ThreadsOK'
      BY <2>1, <1>22 DEF ThreadsOK, TypeOK, SystemUnfreeze, Goto, Acquire, Labels, Freezing, Threads
    <3>2. bounce' = [bounce EXCEPT ![p] = bounce[p] + 1] /\ bounce[p] + 1 \in Nat
      BY <2>1, <1>22 DEF SystemUnfreeze, TypeOK
    <3>3. bounce' \in [Pkgs -> Nat]
      BY <3>2 DEF TypeOK
    <3> QED BY <3>1, <3>3, <1>22 DEF ThreadsOK, TypeOK, SystemUnfreeze
  <2>2. CASE state[p] # "FROZEN"
    <3>1. ThreadsOK'
      BY <2>2, <1>22, LeaveType DEF ThreadsOK, TypeOK, SystemUnfreeze, Threads
    <3> QED BY <2>2, <3>1, <1>22 DEF ThreadsOK, TypeOK, SystemUnfreeze
  <2> QED BY <2>1, <2>2
<1>23. ASSUME NEW p \in Pkgs, BounceLimitReached(p) PROVE TypeOK'
  BY <1>23, LeaveType, NewIdFree, SuspectType DEF TypeOK, BounceLimitReached, FreeIds, Callback, Threads
<1>24. ASSUME NEW q \in Procs, DispatchDied(q) PROVE TypeOK'
  BY <1>24, ReceiveType DEF TypeOK, DispatchDied, NoteGone, Enter, Goto, Labels, Waiting, Threads
<1>25. ASSUME NEW q \in Procs, DispatchMove(q) PROVE TypeOK'
  <2>1. PkgOf[q] \in Pkgs
    BY ProcsAssumption
  <2>2. Enter(Bpf, "fg_wait", PkgOf[q]) \/ Enter(Bpf, "bg_wait", PkgOf[q])
    BY <1>25 DEF DispatchMove
  <2>3. ThreadsOK'
    BY <2>1, <2>2, <1>25, EnterType DEF ThreadsOK, TypeOK, DispatchMove, Labels, Waiting, Threads
  <2> QED BY <2>1, <2>3, <1>25, ReceiveType DEF ThreadsOK, TypeOK, DispatchMove, NoteGone, NoteForeground
<1>26. ASSUME NEW q \in Procs, DispatchUnfreeze(q) PROVE TypeOK'
  <2>1. PkgOf[q] \in Pkgs
    BY ProcsAssumption
  <2>2. Enter(Bpf, "unfreeze_wait", PkgOf[q]) \/ UNCHANGED <<pc, arg>>
    BY <1>26 DEF DispatchUnfreeze
  <2>3. ThreadsOK'
    BY <2>1, <2>2, <1>26, EnterType DEF ThreadsOK, TypeOK, DispatchUnfreeze, Labels, Waiting, Threads, Bpf
  <2>4. uidKnown' \subseteq Pkgs /\ pidCache' \subseteq Procs
    BY <2>1, <1>26 DEF TypeOK, DispatchUnfreeze
  <2> QED BY <2>3, <2>4, <1>26, ReceiveType DEF ThreadsOK, TypeOK, DispatchUnfreeze
<1>27. ASSUME DispatchScreen PROVE TypeOK'
  BY <1>27, ReceiveType DEF TypeOK, DispatchScreen, Goto, Labels, Waiting, Threads
<1>28. ASSUME ScreenOff PROVE TypeOK'
  <2>1. ThreadsOK'
    BY <1>28, LeaveType DEF ThreadsOK, TypeOK, ScreenOff, Threads
  <2> QED BY <2>1, <1>28, CancelledType, NewIdFree, DeepType DEF ThreadsOK, TypeOK, ScreenOff, ForegroundRead, FreeIds, Callback
<1>29. ASSUME ScreenOn PROVE TypeOK'
  <2>1. ThreadsOK'
    BY <1>29, LeaveType DEF ThreadsOK, TypeOK, ScreenOn, Threads
  <2> QED BY <2>1, <1>29, CancelledType, DeepType DEF ThreadsOK, TypeOK, ScreenOn
<1>30. ASSUME FireDeepSleep PROVE TypeOK'
  <2>1. ThreadsOK'
    BY <1>30 DEF ThreadsOK, TypeOK, FireDeepSleep, Goto, Labels, Outside, Threads
  <2> QED BY <2>1, <1>30, DeepType DEF ThreadsOK, TypeOK, FireDeepSleep
<1>31. ASSUME FireGuard PROVE TypeOK'
  BY <1>31 DEF TypeOK, FireGuard, Goto, Labels, Waiting, Threads
<1>32. ASSUME NEW i \in TimerIds, FireSweep(i) PROVE TypeOK'
  BY <1>32, CancelledType DEF TypeOK, FireSweep, Take, Callback, Goto, Labels, Outside, Threads
<1>33. ASSUME NEW i \in TimerIds, NEW p \in Pkgs, FireFreeze(i, p) PROVE TypeOK'
  BY <1>33, CancelledType DEF TypeOK, FireFreeze, Take, Enter, Goto, Labels, Waiting, Threads
<1>34. ASSUME NEW i \in TimerIds, NEW p \in Pkgs, FireBackoff(i, p) PROVE TypeOK'
  BY <1>34, CancelledType DEF TypeOK, FireBackoff, Take, Enter, Goto, Labels, Waiting, Threads
<1>35. ASSUME NEW p \in Pkgs, Poll(p) PROVE TypeOK'
  <2>1. ThreadsOK'
    BY <1>35 DEF ThreadsOK, TypeOK, Poll, Enter, Goto, Labels, Outside, Threads
  <2> QED BY <2>1, <1>35 DEF ThreadsOK, TypeOK, Poll
<1>36. ASSUME NEW q \in Procs, ProcStarts(q) PROVE TypeOK'
  BY <1>36 DEF TypeOK, ProcStarts, daemonVars
<1>37. ASSUME NEW q \in Procs, ProcExits(q) PROVE TypeOK'
  BY <1>37, EmitType DEF TypeOK, ProcExits, EventKinds, daemonVars
<1>38. ASSUME NEW q \in Procs, ThreadExits(q) PROVE TypeOK'
  BY <1>38, EmitType DEF TypeOK, ThreadExits, EventKinds, daemonVars
<1>39. ASSUME NEW q \in Procs, SystemThaw(q) PROVE TypeOK'
  <2>1. Emit("unfreeze", q) \/ ring' = ring
    BY <1>39, Zenon DEF SystemThaw
  <2>2. ring' \in Seq(Event)
    BY <2>1, EmitType DEF EventKinds, TypeOK
  <2>3. knob' \in BOOLEAN
    BY <1>39 DEF SystemThaw
  <2>4. UNCHANGED <<daemonVars, sysFreezer, cg, mapHas, revoked, confVars>>
    BY <1>39 DEF SystemThaw
  <2> QED BY <2>2, <2>3, <2>4 DEF TypeOK, daemonVars
<1>40. ASSUME NEW q \in Procs, SystemMigrates(q) PROVE TypeOK'
  BY <1>40 DEF TypeOK, SystemMigrates, daemonVars
<1>41. ASSUME NEW q \in Procs, NEW k \in {"fg", "bg"}, TopAppChanges(q, k) PROVE TypeOK'
  BY <1>41, EmitType DEF TypeOK, TopAppChanges, EventKinds, daemonVars
<1>42. ASSUME NEW k \in {"on", "off"}, ScreenToggles(k) PROVE TypeOK'
  BY <1>42, EmitType DEF TypeOK, ScreenToggles, EventKinds, daemonVars
<1>43. ASSUME NEW p \in Pkgs, EditWhitelist(p) PROVE TypeOK'
  BY <1>43 DEF TypeOK, EditWhitelist, daemonVars
<1>44. ASSUME EditRestrict PROVE TypeOK'
  BY <1>44 DEF TypeOK, EditRestrict, daemonVars
<1>45. ASSUME FreezerReenabled PROVE TypeOK'
  BY <1>45 DEF TypeOK, FreezerReenabled, daemonVars
<1>46. ASSUME Restart PROVE TypeOK'
  BY <1>46, RestartType DEF TypeOK, Restart
<1>47. CASE UNCHANGED vars
  BY <1>47 DEF TypeOK, vars
<1> QED
  BY <1>1, <1>2, <1>3, <1>4, <1>5, <1>6, <1>7, <1>8, <1>9, <1>10, <1>11, <1>12, <1>13, <1>14, <1>15, <1>16, <1>17, <1>18, <1>19, <1>20, <1>21, <1>22, <1>23, <1>24, <1>25, <1>26, <1>27, <1>28, <1>29, <1>30, <1>31, <1>32, <1>33, <1>34, <1>35, <1>36, <1>37, <1>38, <1>39, <1>40, <1>41, <1>42, <1>43, <1>44, <1>45, <1>46, <1>47
  DEF Next, BpfStep, WorkerStep, TimerStep, EnvStep, HandlerStep, Fire, Threads, Bpf, Tmr

\* Every state the program can reach is of the declared types.
THEOREM TypeCorrect == Spec => []TypeOK
<1>1. Init => TypeOK
  BY TypeInit
<1>2. TypeOK /\ [Next]_vars => TypeOK'
  BY TypeNext
<1> QED
  BY <1>1, <1>2, PTL DEF Spec

(***************************************************************************)
(* Timers and their owners                                                  *)
(***************************************************************************)
\* Leaving a handler, a thread comes to the loop or goes on with the poll; the
\* other stays where it is.
LEMMA LeaveShape ==
  ASSUME TypeOK, NEW t \in Threads, Leave(t)
  PROVE  /\ pc'[t] \in {"idle", "poll_fg"}
         /\ \A u \in Threads \ {t} : pc'[u] = pc[u] /\ arg'[u] = arg[u]
  BY DEF TypeOK, Leave, Enter, Goto

\* Returning from do_freeze, a thread that holds the mutex leaves its handler, and
\* the sweep, which does not, goes on.
LEMMA ReturnShape ==
  ASSUME TypeOK, NEW t \in Threads, Return(t)
  PROVE  /\ pc'[t] \in {"idle", "poll_fg", "sw_next"}
         /\ \A u \in Threads \ {t} : pc'[u] = pc[u] /\ arg'[u] = arg[u]
         /\ owner = t => owner' = NoThread /\ pc'[t] # "sw_next"
         /\ owner # t => owner' = owner
<1>1. CASE owner = t
  BY <1>1, LeaveShape DEF Return, Release
<1>2. CASE owner # t
  BY <1>2 DEF TypeOK, Return, Enter, Goto
<1> QED BY <1>1, <1>2

\* No background event is on its way.
RingInv == \A k \in DOMAIN ring : ring[k].kind # "bg"

\* If no attached probe emits background events, none gets into the ring,
LEMMA EmitRing ==
  ASSUME TypeOK, RingInv, "bg" \notin Emits,
         NEW k \in EventKinds, NEW q \in Procs \cup {NoProc}, Emit(k, q)
  PROVE  RingInv'
<1> DEFINE e == [kind |-> k, proc |-> q]
<1>1. CASE k \in Emits /\ Len(ring) < RingSize
  <2>1. ring' = Append(ring, e) /\ e \in Event /\ ring \in Seq(Event)
    BY <1>1 DEF Emit, TypeOK, Event
  <2>2. e.kind # "bg"
    BY <1>1
  <2> HIDE DEF e
  <2> QED BY <2>1, <2>2 DEF RingInv
<1>2. CASE ~(k \in Emits /\ Len(ring) < RingSize)
  <2>1. ring' = ring
    BY <1>2, Zenon DEF Emit
  <2> QED BY <2>1 DEF RingInv
<1> QED BY <1>1, <1>2

\* nor out of it.
LEMMA ReceiveRing ==
  ASSUME TypeOK, RingInv, Receive
  PROVE  RingInv' /\ Oldest.kind # "bg"
<1>1. ring \in Seq(Event) /\ ring # << >> /\ ring' = Tail(ring)
  BY DEF TypeOK, Receive
<1> QED BY <1>1 DEF RingInv, Oldest

\* What the kernel, the system and the user do is out of the invariant's sight.
LEMMA FrameInv ==
  ASSUME TimerInv, RingInv', UNCHANGED <<state, pending, timers, owner, pc, arg>>
  PROVE  TimerInv'
  BY DEF TimerInv, LockInv, TimerOwned, ClearingInv, ArmingInv, BpfInv, RingInv,
         NoFreezeTimer, FreezeTimer, At

\* A thread that moves on without touching the timers, the records' states and
\* timer ids, and that neither begins to clear a package nor comes to a label the
\* invariant forbids it, keeps the invariant, as far as the mutex allows the move.
LEMMA QuietMove ==
  ASSUME TypeOK, TimerInv, RingInv', LockInv', NEW t \in Threads,
         UNCHANGED <<state, pending, timers>>,
         \A u \in Threads \ {t} : pc'[u] = pc[u] /\ arg'[u] = arg[u],
         pc'[t] \in Clearing => pc[t] \in Clearing /\ arg'[t] = arg[t],
         pc'[t] # "bg_arm",
         t = Bpf => pc'[t] \notin {"bg_wait", "cb_wait", "df_check", "df_move",
                                   "df_mark", "df_count", "df_side"}
  PROVE  TimerInv'
<1>1. TimerOwned'
  BY DEF TimerInv, TimerOwned
<1>2. ClearingInv'
  BY DEF TimerInv, ClearingInv, NoFreezeTimer
<1>3. ArmingInv'
  BY DEF TimerInv, ArmingInv, At, Threads
<1>4. BpfInv'
  BY DEF TimerInv, BpfInv, RingInv, At, Threads
<1> QED
  BY <1>1, <1>2, <1>3, <1>4 DEF TimerInv

\* A visit of the sweep takes the package's timer first and so may clear it, although
\* it has no mutex: only the worker itself could arm another.
LEMMA SweepVisitTimers ==
  ASSUME TypeOK, TimerInv, pc[Tmr] = "sw_next", UNCHANGED ring,
         NEW p \in Pkgs, SweepVisit(p)
  PROVE  TimerInv'
<1>1. RingInv' /\ UNCHANGED <<state, owner>>
  BY DEF TimerInv, BpfInv, RingInv, SweepVisit
<1>2. CASE p \in exempt
  BY <1>1, <1>2, FrameInv DEF SweepVisit
<1>3. CASE p \notin exempt
  <2>1. /\ pc' = [pc EXCEPT ![Tmr] = "df_check"] /\ arg' = [arg EXCEPT ![Tmr] = p]
        /\ timers' = Cancelled(pending[p])
        /\ pending' = [pending EXCEPT ![p] = NoTimer]
    BY <1>3 DEF SweepVisit, Enter, Goto
  <2>2. owner # Tmr
    BY DEF TimerInv, LockInv, Locked, Freezing, Threads
  <2>3. LockInv'
    BY <1>1, <2>1, <2>2 DEF TimerInv, LockInv, Locked, Bpf, Tmr
  <2>4. TimerOwned'
    BY <1>1, <2>1 DEF TimerInv, TimerOwned, FreezeTimer, Cancelled, NoCallback
  <2>5. NoFreezeTimer(p)'
    BY <2>1 DEF TimerInv, TimerOwned, NoFreezeTimer, FreezeTimer, Cancelled, NoCallback
  <2>6. \A r \in Pkgs : NoFreezeTimer(r) => NoFreezeTimer(r)'
    BY <2>1 DEF NoFreezeTimer, FreezeTimer, Cancelled, NoCallback
  <2>7. ClearingInv'
    BY <2>1, <2>5, <2>6 DEF TypeOK, TimerInv, ClearingInv
  <2>8. ArmingInv'
    BY <2>1 DEF ArmingInv, At
  <2>9. BpfInv'
    BY <1>1, <2>1 DEF TimerInv, BpfInv, At, Bpf, Tmr
  <2> QED BY <2>3, <2>4, <2>7, <2>8, <2>9 DEF TimerInv
<1> QED BY <1>2, <1>3

\* No timer is armed when the daemon starts,
LEMMA TimerInit == Init => TimerInv
  BY ThreadAssumption DEF Init, TimerInv, LockInv, TimerOwned, ClearingInv, ArmingInv, BpfInv,
         Clearing, NoFreezeTimer, FreezeTimer, NoCallback, At, Threads, Bpf, Tmr, Locked, Freezing

\* nor when it starts again.
LEMMA RestartTimers == Restart => TimerInv'
  BY ThreadAssumption DEF Restart, TimerInv, LockInv, TimerOwned, ClearingInv, ArmingInv, BpfInv,
         Clearing, NoFreezeTimer, FreezeTimer, NoCallback, At, Threads, Bpf, Tmr, Locked, Freezing

\* Every action keeps the invariant: a delayed freeze is armed under the mutex by the
\* worker alone, and whatever takes an app out of PENDING_BG has cancelled it before.
LEMMA TimerNext ==
  ASSUME TypeOK, TypeOK', TimerInv, "bg" \notin Emits, [Next]_vars
  PROVE  TimerInv'
<1> USE DEF appVars, timerVars, sweepVars, feedVars, guardVars, cgVars, confVars,
            deepVars, asideVars
<1>r. RingInv
  BY DEF TimerInv, BpfInv, RingInv
<1>1. ASSUME NEW t \in Threads, NEW p \in Pkgs, Foreground(t, p) PROVE TimerInv'
  <2>1. LockInv'
    BY <1>1, ThreadAssumption, LeaveShape DEF TypeOK, TimerInv, LockInv, Foreground, Free, Acquire, Goto, Threads, Bpf, Tmr, Waiting, Freezing, Locked, Outside, Labels
  <2>2. TimerOwned'
    BY <1>1 DEF TimerInv, TimerOwned, Foreground, Cancelled, NoCallback, FreezeTimer
  <2>3. ClearingInv'
    BY <1>1, LeaveShape DEF TypeOK, TimerInv, TimerOwned, ClearingInv, Clearing, Foreground, At, Free, Acquire, Goto, Cancelled, Callback, NoCallback, FreezeTimer, NoFreezeTimer, Threads, Bpf
  <2>4. ArmingInv'
    BY <1>1, LeaveShape DEF TypeOK, TimerInv, ArmingInv, Foreground, At, Goto, Threads, Bpf, Tmr
  <2>5. BpfInv'
    BY <1>1, <1>r, LeaveShape DEF TypeOK, TimerInv, BpfInv, Foreground, At, Goto, Threads, Bpf, Tmr
  <2> QED BY <2>1, <2>2, <2>3, <2>4, <2>5 DEF TimerInv
<1>2. ASSUME NEW t \in Threads, NEW p \in Pkgs, UnfreezeMove(t, p) PROVE TimerInv'
  <2>1. LockInv'
    BY <1>2 DEF TimerInv, LockInv, Locked, UnfreezeMove, At, Goto
  <2>2. \A u \in Threads \ {t} : pc'[u] = pc[u] /\ arg'[u] = arg[u]
    BY <1>2 DEF UnfreezeMove, Goto
  <2>3. RingInv' /\ UNCHANGED <<state, pending, timers>>
    BY <1>2, <1>r DEF UnfreezeMove, RingInv
  <2>4. /\ pc'[t] \in Clearing => pc[t] \in Clearing /\ arg'[t] = arg[t]
        /\ pc'[t] # "bg_arm"
        /\ t = Bpf => pc'[t] \notin {"bg_wait", "cb_wait", "df_check", "df_move",
                                    "df_mark", "df_count", "df_side"}
    BY <1>2 DEF Clearing, UnfreezeMove, At, Goto
  <2> QED
    BY <2>1, <2>2, <2>3, <2>4, QuietMove
<1>3. ASSUME NEW t \in Threads, NEW p \in Pkgs, UnfreezeMark(t, p) PROVE TimerInv'
  <2>1. LockInv'
    BY <1>3 DEF TimerInv, LockInv, UnfreezeMark, At, Goto, Locked
  <2>2. TimerOwned'
    BY <1>3 DEF TimerInv, TimerOwned, ClearingInv, Clearing, UnfreezeMark, At, NoFreezeTimer
  <2>3. ClearingInv'
    BY <1>3 DEF TimerInv, ClearingInv, Clearing, UnfreezeMark, Goto, Callback, FreezeTimer, NoFreezeTimer, Threads
  <2>4. ArmingInv'
    BY <1>3 DEF TimerInv, LockInv, ArmingInv, UnfreezeMark, At, Goto, Threads, Freezing, Locked
  <2>5. BpfInv'
    BY <1>3, <1>r DEF TimerInv, LockInv, BpfInv, UnfreezeMark, At, Goto, Threads, Freezing, Locked
  <2> QED BY <2>1, <2>2, <2>3, <2>4, <2>5 DEF TimerInv
<1>4. ASSUME NEW t \in Threads, NEW p \in Pkgs, UnfreezeSide(t, p) PROVE TimerInv'
  <2>1. LockInv'
    BY <1>4, LeaveShape, ThreadAssumption DEF TimerInv, LockInv, Locked, Freezing, UnfreezeSide, At, Release, Threads, Bpf, Tmr
  <2>2. \A u \in Threads \ {t} : pc'[u] = pc[u] /\ arg'[u] = arg[u]
    BY <1>4, LeaveShape DEF UnfreezeSide, Release
  <2>3. RingInv' /\ UNCHANGED <<state, pending, timers>>
    BY <1>4, <1>r DEF UnfreezeSide, RingInv
  <2>4. /\ pc'[t] \in Clearing => pc[t] \in Clearing /\ arg'[t] = arg[t]
        /\ pc'[t] # "bg_arm"
        /\ t = Bpf => pc'[t] \notin {"bg_wait", "cb_wait", "df_check", "df_move",
                                    "df_mark", "df_count", "df_side"}
    BY <1>4, LeaveShape DEF Clearing, UnfreezeSide, Release
  <2> QED
    BY <2>1, <2>2, <2>3, <2>4, QuietMove
<1>5. ASSUME NEW t \in Threads, NEW p \in Pkgs, Background(t, p) PROVE TimerInv'
  <2>1. LockInv'
    BY <1>5, ThreadAssumption, LeaveShape DEF TypeOK, TimerInv, LockInv, Background, Free, Acquire, Goto, Threads, Bpf, Tmr, Waiting, Freezing, Locked, Outside, Labels
  <2>2. TimerOwned'
    BY <1>5 DEF TypeOK, TimerInv, TimerOwned, Background
  <2>3. ClearingInv'
    BY <1>5, LeaveShape DEF TypeOK, TimerInv, TimerOwned, ClearingInv, Clearing, Background, At, Free, Acquire, Goto, Callback, NoCallback, FreezeTimer, NoFreezeTimer, FreeIds, Threads, Bpf
  <2>4. ArmingInv'
    BY <1>5, LeaveShape DEF TypeOK, TimerInv, ArmingInv, BpfInv, Background, At, Threads
  <2>5. BpfInv'
    BY <1>5, <1>r, LeaveShape DEF TypeOK, TimerInv, BpfInv, Background, At, Goto, Threads, Bpf, Tmr
  <2> QED BY <2>1, <2>2, <2>3, <2>4, <2>5 DEF TimerInv
<1>6. ASSUME NEW t \in Threads, NEW p \in Pkgs, BackgroundArm(t, p) PROVE TimerInv'
  <2>1. LockInv'
    BY <1>6, ThreadAssumption, LeaveShape DEF TimerInv, LockInv, BackgroundArm, At, Release, Threads, Bpf, Tmr, Freezing, Locked, Outside
  <2>2. TimerOwned'
    <3>1. NewId \in TimerIds /\ timers[NewId] = NoCallback /\ \A r \in Pkgs : pending[r] # NewId
      BY <1>6, NewIdFree DEF BackgroundArm, FreeIds
    <3>2. NoFreezeTimer(p) /\ state[p] = "PENDING_BG"
      BY <1>6 DEF TimerInv, ClearingInv, ArmingInv, BpfInv, Clearing, BackgroundArm, At, Threads
    <3>3. timers' = [timers EXCEPT ![NewId] = FreezeTimer(p)] /\ pending' = [pending EXCEPT ![p] = NewId]
          /\ state' = state
      BY <1>6 DEF BackgroundArm, FreezeTimer
    <3> QED
      BY <3>1, <3>2, <3>3 DEF TypeOK, TimerInv, TimerOwned, NoFreezeTimer, FreezeTimer
  <2>3. ClearingInv'
    <3>1. t = Tmr /\ owner = Tmr
      BY <1>6 DEF TimerInv, LockInv, BpfInv, BackgroundArm, At, Threads, Locked
    <3>2. pc[Bpf] \notin Clearing /\ pc'[Bpf] = pc[Bpf] /\ pc'[Tmr] \in {"idle", "poll_fg"}
      BY <3>1, <1>6, LeaveShape DEF TimerInv, LockInv, BpfInv, Clearing, Locked, Freezing, BackgroundArm, Release, Threads, Bpf, Tmr
    <3> QED
      BY <3>2 DEF ClearingInv, Clearing, Threads
  <2>4. ArmingInv'
    BY <1>6, LeaveShape DEF TimerInv, ArmingInv, BpfInv, BackgroundArm, At, Release, Threads
  <2>5. BpfInv'
    BY <1>6, <1>r, LeaveShape DEF TimerInv, BpfInv, BackgroundArm, At, Release, Threads
  <2> QED BY <2>1, <2>2, <2>3, <2>4, <2>5 DEF TimerInv
<1>7. ASSUME NEW t \in Threads, NEW p \in Pkgs, FreezeCheck(t, p) PROVE TimerInv'
  <2>1. LockInv'
    BY <1>7, ReturnShape, ThreadAssumption DEF TypeOK, TimerInv, LockInv, Locked, Freezing, FreezeCheck, At, Goto, Threads, Bpf, Tmr
  <2>2. \A u \in Threads \ {t} : pc'[u] = pc[u] /\ arg'[u] = arg[u]
    BY <1>7, ReturnShape DEF TypeOK, FreezeCheck, Goto
  <2>3. RingInv' /\ UNCHANGED <<state, pending, timers>>
    BY <1>7, <1>r DEF FreezeCheck, RingInv
  <2>4. /\ pc'[t] \in Clearing => pc[t] \in Clearing /\ arg'[t] = arg[t]
        /\ pc'[t] # "bg_arm"
        /\ t = Bpf => pc'[t] \notin {"bg_wait", "cb_wait", "df_check", "df_move",
                                    "df_mark", "df_count", "df_side"}
    BY <1>7, ReturnShape DEF TypeOK, TimerInv, BpfInv, Clearing, FreezeCheck, At, Goto, Threads
  <2> QED
    BY <2>1, <2>2, <2>3, <2>4, QuietMove
<1>8. ASSUME NEW t \in Threads, NEW p \in Pkgs, FreezeMove(t, p) PROVE TimerInv'
  <2>1. LockInv'
    BY <1>8, ReturnShape, ThreadAssumption DEF TypeOK, TimerInv, LockInv, Locked, Freezing, FreezeMove, At, Goto, Threads, Bpf, Tmr
  <2>2. \A u \in Threads \ {t} : pc'[u] = pc[u] /\ arg'[u] = arg[u]
    BY <1>8, ReturnShape DEF TypeOK, FreezeMove, Goto
  <2>3. RingInv' /\ UNCHANGED <<state, pending, timers>>
    BY <1>8, <1>r DEF FreezeMove, RingInv
  <2>4. /\ pc'[t] \in Clearing => pc[t] \in Clearing /\ arg'[t] = arg[t]
        /\ pc'[t] # "bg_arm"
        /\ t = Bpf => pc'[t] \notin {"bg_wait", "cb_wait", "df_check", "df_move",
                                    "df_mark", "df_count", "df_side"}
    BY <1>8, ReturnShape DEF TypeOK, TimerInv, BpfInv, Clearing, FreezeMove, At, Goto, Threads
  <2> QED
    BY <2>1, <2>2, <2>3, <2>4, QuietMove
<1>9. ASSUME NEW t \in Threads, NEW p \in Pkgs, FreezeMark(t, p) PROVE TimerInv'
  <2>1. LockInv'
    BY <1>9 DEF TimerInv, LockInv, FreezeMark, At, Goto, Freezing, Locked, Labels
  <2>2. TimerOwned'
    BY <1>9 DEF TimerInv, TimerOwned, ClearingInv, Clearing, FreezeMark, At, NoFreezeTimer
  <2>3. ClearingInv'
    BY <1>9 DEF TimerInv, ClearingInv, Clearing, FreezeMark, Goto, Callback, FreezeTimer, NoFreezeTimer, Threads
  <2>4. ArmingInv'
    BY <1>9 DEF TimerInv, ArmingInv, BpfInv, FreezeMark, At, Goto, Threads
  <2>5. BpfInv'
    BY <1>9, <1>r DEF TimerInv, BpfInv, FreezeMark, At, Goto
  <2> QED BY <2>1, <2>2, <2>3, <2>4, <2>5 DEF TimerInv
<1>10. ASSUME NEW t \in Threads, NEW p \in Pkgs, FreezeCount(t, p) PROVE TimerInv'
  <2>1. LockInv'
    BY <1>10 DEF TimerInv, LockInv, Locked, Freezing, FreezeCount, At, Goto
  <2>2. \A u \in Threads \ {t} : pc'[u] = pc[u] /\ arg'[u] = arg[u]
    BY <1>10 DEF FreezeCount, Goto
  <2>3. RingInv' /\ UNCHANGED <<state, pending, timers>>
    BY <1>10, <1>r DEF FreezeCount, RingInv
  <2>4. /\ pc'[t] \in Clearing => pc[t] \in Clearing /\ arg'[t] = arg[t]
        /\ pc'[t] # "bg_arm"
        /\ t = Bpf => pc'[t] \notin {"bg_wait", "cb_wait", "df_check", "df_move",
                                    "df_mark", "df_count", "df_side"}
    BY <1>10 DEF TimerInv, BpfInv, Clearing, FreezeCount, At, Goto
  <2> QED
    BY <2>1, <2>2, <2>3, <2>4, QuietMove
<1>11. ASSUME NEW t \in Threads, NEW p \in Pkgs, FreezeSide(t, p) PROVE TimerInv'
  <2>1. LockInv'
    BY <1>11, ReturnShape, ThreadAssumption DEF TimerInv, LockInv, Locked, Freezing, FreezeSide, Threads, Bpf, Tmr
  <2>2. \A u \in Threads \ {t} : pc'[u] = pc[u] /\ arg'[u] = arg[u]
    BY <1>11, ReturnShape DEF FreezeSide
  <2>3. RingInv' /\ UNCHANGED <<state, pending, timers>>
    BY <1>11, <1>r DEF FreezeSide, RingInv
  <2>4. /\ pc'[t] \in Clearing => pc[t] \in Clearing /\ arg'[t] = arg[t]
        /\ pc'[t] # "bg_arm"
        /\ t = Bpf => pc'[t] \notin {"bg_wait", "cb_wait", "df_check", "df_move",
                                    "df_mark", "df_count", "df_side"}
    BY <1>11, ReturnShape DEF Clearing, FreezeSide
  <2> QED
    BY <2>1, <2>2, <2>3, <2>4, QuietMove
<1>12. ASSUME NEW p \in Pkgs, FreezeCallback(p) PROVE TimerInv'
  <2>1. LockInv'
    BY <1>12, LeaveShape, ThreadAssumption DEF TypeOK, TimerInv, LockInv, Locked, Freezing, FreezeCallback, Free, Acquire, Goto, Threads, Bpf, Tmr
  <2>2. \A u \in Threads \ {Tmr} : pc'[u] = pc[u] /\ arg'[u] = arg[u]
    BY <1>12, LeaveShape DEF TypeOK, FreezeCallback, Goto, Threads
  <2>3. RingInv' /\ UNCHANGED <<state, pending, timers>>
    BY <1>12, <1>r DEF FreezeCallback, RingInv
  <2>4. /\ pc'[Tmr] \in Clearing => pc[Tmr] \in Clearing /\ arg'[Tmr] = arg[Tmr]
        /\ pc'[Tmr] # "bg_arm"
        /\ Tmr = Bpf => pc'[Tmr] \notin {"bg_wait", "cb_wait", "df_check", "df_move",
                                    "df_mark", "df_count", "df_side"}
    BY <1>12, LeaveShape DEF TypeOK, TimerInv, BpfInv, Clearing, FreezeCallback, At, Goto, Threads
  <2> QED
    BY <2>1, <2>2, <2>3, <2>4, QuietMove DEF Threads
<1>13. ASSUME NEW p \in Pkgs, SweepNext(p) PROVE TimerInv'
  BY <1>13, SweepVisitTimers DEF SweepNext, SweepVisit
<1>14. ASSUME NEW p \in Pkgs, SweepLast(p) PROVE TimerInv'
  BY <1>14, SweepVisitTimers DEF SweepLast, SweepVisit
<1>15. ASSUME NEW p \in Pkgs, PollBackground(p) PROVE TimerInv'
  <2>1. LockInv'
    BY <1>15 DEF TimerInv, LockInv, Locked, Freezing, PollBackground, At, Goto
  <2>2. \A u \in Threads \ {Tmr} : pc'[u] = pc[u] /\ arg'[u] = arg[u]
    BY <1>15 DEF PollBackground, Goto
  <2>3. RingInv' /\ UNCHANGED <<state, pending, timers>>
    BY <1>15, <1>r DEF PollBackground, RingInv
  <2>4. /\ pc'[Tmr] \in Clearing => pc[Tmr] \in Clearing /\ arg'[Tmr] = arg[Tmr]
        /\ pc'[Tmr] # "bg_arm"
        /\ Tmr = Bpf => pc'[Tmr] \notin {"bg_wait", "cb_wait", "df_check", "df_move",
                                    "df_mark", "df_count", "df_side"}
    BY <1>15 DEF Clearing, PollBackground, At, Goto, Bpf, Tmr
  <2> QED
    BY <2>1, <2>2, <2>3, <2>4, QuietMove DEF Threads
<1>16. ASSUME NEW p \in Pkgs, PollForeground(p) PROVE TimerInv'
  <2>1. LockInv'
    BY <1>16 DEF TimerInv, LockInv, Locked, Freezing, PollForeground, Enter, Goto
  <2>2. \A u \in Threads \ {Tmr} : pc'[u] = pc[u] /\ arg'[u] = arg[u]
    BY <1>16 DEF PollForeground, Enter, Goto
  <2>3. RingInv' /\ UNCHANGED <<state, pending, timers>>
    BY <1>16, <1>r DEF PollForeground, RingInv
  <2>4. /\ pc'[Tmr] \in Clearing => pc[Tmr] \in Clearing /\ arg'[Tmr] = arg[Tmr]
        /\ pc'[Tmr] # "bg_arm"
        /\ Tmr = Bpf => pc'[Tmr] \notin {"bg_wait", "cb_wait", "df_check", "df_move",
                                    "df_mark", "df_count", "df_side"}
    BY <1>16 DEF Clearing, PollForeground, Enter, Goto
  <2> QED
    BY <2>1, <2>2, <2>3, <2>4, QuietMove DEF Threads
<1>17. ASSUME SweepStart PROVE TimerInv'
  <2>1. LockInv'
    BY <1>17 DEF TimerInv, LockInv, Locked, Freezing, SweepStart, Goto
  <2>2. \A u \in Threads \ {Tmr} : pc'[u] = pc[u] /\ arg'[u] = arg[u]
    BY <1>17 DEF SweepStart, Goto
  <2>3. RingInv' /\ UNCHANGED <<state, pending, timers>>
    BY <1>17, <1>r DEF SweepStart, RingInv
  <2>4. /\ pc'[Tmr] \in Clearing => pc[Tmr] \in Clearing /\ arg'[Tmr] = arg[Tmr]
        /\ pc'[Tmr] # "bg_arm"
        /\ Tmr = Bpf => pc'[Tmr] \notin {"bg_wait", "cb_wait", "df_check", "df_move",
                                    "df_mark", "df_count", "df_side"}
    BY <1>17 DEF Clearing, SweepStart, Goto
  <2> QED
    BY <2>1, <2>2, <2>3, <2>4, QuietMove DEF Threads
<1>18. ASSUME SweepEnd PROVE TimerInv'
  <2>1. LockInv'
    BY <1>18 DEF TimerInv, LockInv, Locked, Freezing, SweepEnd, Goto
  <2>2. \A u \in Threads \ {Tmr} : pc'[u] = pc[u] /\ arg'[u] = arg[u]
    BY <1>18 DEF SweepEnd, Goto
  <2>3. RingInv' /\ UNCHANGED <<state, pending, timers>>
    BY <1>18, <1>r DEF SweepEnd, RingInv
  <2>4. /\ pc'[Tmr] \in Clearing => pc[Tmr] \in Clearing /\ arg'[Tmr] = arg[Tmr]
        /\ pc'[Tmr] # "bg_arm"
        /\ Tmr = Bpf => pc'[Tmr] \notin {"bg_wait", "cb_wait", "df_check", "df_move",
                                    "df_mark", "df_count", "df_side"}
    BY <1>18 DEF Clearing, SweepEnd, Goto
  <2> QED
    BY <2>1, <2>2, <2>3, <2>4, QuietMove DEF Threads
<1>19. ASSUME EnterDeepSleep PROVE TimerInv'
  <2>1. LockInv'
    BY <1>19 DEF TimerInv, LockInv, Locked, Freezing, EnterDeepSleep, Goto
  <2>2. \A u \in Threads \ {Tmr} : pc'[u] = pc[u] /\ arg'[u] = arg[u]
    BY <1>19 DEF EnterDeepSleep, Goto
  <2>3. RingInv' /\ UNCHANGED <<state, pending, timers>>
    BY <1>19, <1>r DEF EnterDeepSleep, RingInv
  <2>4. /\ pc'[Tmr] \in Clearing => pc[Tmr] \in Clearing /\ arg'[Tmr] = arg[Tmr]
        /\ pc'[Tmr] # "bg_arm"
        /\ Tmr = Bpf => pc'[Tmr] \notin {"bg_wait", "cb_wait", "df_check", "df_move",
                                    "df_mark", "df_count", "df_side"}
    BY <1>19 DEF Clearing, EnterDeepSleep, Goto
  <2> QED
    BY <2>1, <2>2, <2>3, <2>4, QuietMove DEF Threads
<1>20. ASSUME NEW answered \in BOOLEAN, FreezerCheck(answered) PROVE TimerInv'
  <2>1. LockInv'
    BY <1>20 DEF TimerInv, LockInv, Locked, Freezing, FreezerCheck, Goto
  <2>2. \A u \in Threads \ {Tmr} : pc'[u] = pc[u] /\ arg'[u] = arg[u]
    BY <1>20 DEF FreezerCheck, Goto
  <2>3. RingInv' /\ UNCHANGED <<state, pending, timers>>
    BY <1>20, <1>r DEF FreezerCheck, RingInv
  <2>4. /\ pc'[Tmr] \in Clearing => pc[Tmr] \in Clearing /\ arg'[Tmr] = arg[Tmr]
        /\ pc'[Tmr] # "bg_arm"
        /\ Tmr = Bpf => pc'[Tmr] \notin {"bg_wait", "cb_wait", "df_check", "df_move",
                                    "df_mark", "df_count", "df_side"}
    BY <1>20 DEF Clearing, FreezerCheck, Goto
  <2> QED
    BY <2>1, <2>2, <2>3, <2>4, QuietMove DEF Threads
<1>21. ASSUME NEW p \in Pkgs, ProcDied(p) PROVE TimerInv'
  <2>1. LockInv'
    BY <1>21, LeaveShape DEF TimerInv, LockInv, ProcDied, At, Threads, Freezing, Locked
  <2>2. TimerOwned'
    BY <1>21 DEF TimerInv, TimerOwned, ProcDied, Cancelled, NoCallback, FreezeTimer
  <2>3. ClearingInv'
    BY <1>21, LeaveShape DEF TimerInv, ClearingInv, Clearing, ProcDied, At, Free, Cancelled, Callback, NoCallback, FreezeTimer, NoFreezeTimer, Threads
  <2>4. ArmingInv'
    BY <1>21, ThreadAssumption, LeaveShape DEF TimerInv, LockInv, ArmingInv, ProcDied, At, Free, Threads, Tmr, Waiting, Freezing, Locked, Outside, Labels
  <2>5. BpfInv'
    BY <1>21, <1>r, LeaveShape DEF BpfInv, RingInv, ProcDied, At, Threads, Waiting, Freezing
  <2> QED BY <2>1, <2>2, <2>3, <2>4, <2>5 DEF TimerInv
<1>22. ASSUME NEW p \in Pkgs, SystemUnfreeze(p) PROVE TimerInv'
  <2>1. LockInv'
    BY <1>22, ThreadAssumption, LeaveShape DEF TypeOK, TimerInv, LockInv, SystemUnfreeze, Free, Acquire, Goto, Threads, Bpf, Tmr, Waiting, Freezing, Locked, Outside, Labels
  <2>2. TimerOwned'
    BY <1>22 DEF TimerInv, TimerOwned, SystemUnfreeze
  <2>3. ClearingInv'
    BY <1>22, LeaveShape DEF TypeOK, TimerInv, TimerOwned, ClearingInv, Clearing, SystemUnfreeze, At, Free, Acquire, Goto, Callback, FreezeTimer, NoFreezeTimer, Threads
  <2>4. ArmingInv'
    BY <1>22, LeaveShape DEF TypeOK, TimerInv, ArmingInv, SystemUnfreeze, At, Goto, Threads, Bpf, Tmr
  <2>5. BpfInv'
    BY <1>22, <1>r, LeaveShape DEF TypeOK, BpfInv, RingInv, SystemUnfreeze, At, Goto, Threads, Bpf, Tmr
  <2> QED BY <2>1, <2>2, <2>3, <2>4, <2>5 DEF TimerInv
<1>23. ASSUME NEW p \in Pkgs, BounceLimitReached(p) PROVE TimerInv'
  <2>1. LockInv'
    BY <1>23, ThreadAssumption, LeaveShape DEF TimerInv, LockInv, BounceLimitReached, Free, Threads, Bpf, Freezing, Locked, Outside
  <2>2. TimerOwned'
    BY <1>23 DEF TimerInv, TimerOwned, BounceLimitReached, FreezeTimer
  <2>3. ClearingInv'
    BY <1>23, LeaveShape DEF TimerInv, ClearingInv, Clearing, BounceLimitReached, At, FreezeTimer, NoFreezeTimer, FreeIds, Threads, Bpf, Tmr
  <2>4. ArmingInv'
    BY <1>23, LeaveShape DEF TimerInv, ArmingInv, BounceLimitReached, At, Threads, Waiting, Freezing
  <2>5. BpfInv'
    BY <1>23, ThreadAssumption, <1>r, LeaveShape DEF BpfInv, RingInv, BounceLimitReached, At, Threads, Outside, Labels
  <2> QED BY <2>1, <2>2, <2>3, <2>4, <2>5 DEF TimerInv
<1>24. ASSUME NEW q \in Procs, DispatchDied(q) PROVE TimerInv'
  <2>1. LockInv'
    BY <1>24 DEF TimerInv, LockInv, Locked, Freezing, DispatchDied, Receive, Enter, Goto
  <2>2. \A u \in Threads \ {Bpf} : pc'[u] = pc[u] /\ arg'[u] = arg[u]
    BY <1>24 DEF DispatchDied, Enter, Goto
  <2>3. RingInv' /\ UNCHANGED <<state, pending, timers>>
    BY <1>24, <1>r, ReceiveRing DEF DispatchDied
  <2>4. /\ pc'[Bpf] \in Clearing => pc[Bpf] \in Clearing /\ arg'[Bpf] = arg[Bpf]
        /\ pc'[Bpf] # "bg_arm"
        /\ Bpf = Bpf => pc'[Bpf] \notin {"bg_wait", "cb_wait", "df_check", "df_move",
                                    "df_mark", "df_count", "df_side"}
    BY <1>24, <1>r DEF Clearing, DispatchDied, Receive, Enter, Goto
  <2> QED
    BY <2>1, <2>2, <2>3, <2>4, QuietMove DEF Threads
<1>25. ASSUME NEW q \in Procs, DispatchMove(q) PROVE TimerInv'
  <2>1. LockInv'
    BY <1>25, ThreadAssumption DEF TypeOK, TimerInv, LockInv, Locked, Freezing, DispatchMove, Receive, Enter, Goto
  <2>2. \A u \in Threads \ {Bpf} : pc'[u] = pc[u] /\ arg'[u] = arg[u]
    BY <1>25 DEF TypeOK, DispatchMove, Enter, Goto
  <2>3. RingInv' /\ UNCHANGED <<state, pending, timers>>
    BY <1>25, <1>r, ReceiveRing DEF DispatchMove
  <2>4. /\ pc'[Bpf] \in Clearing => pc[Bpf] \in Clearing /\ arg'[Bpf] = arg[Bpf]
        /\ pc'[Bpf] # "bg_arm"
        /\ Bpf = Bpf => pc'[Bpf] \notin {"bg_wait", "cb_wait", "df_check", "df_move",
                                    "df_mark", "df_count", "df_side"}
    <3>1. Oldest.kind = "fg"
      BY <1>25, <1>r, ReceiveRing DEF DispatchMove
    <3>2. pc' = [pc EXCEPT ![Bpf] = "fg_wait"]
      BY <1>25, <3>1 DEF DispatchMove, Enter, Goto
    <3>3. pc'[Bpf] = "fg_wait"
      BY <3>2 DEF TypeOK, Threads
    <3> QED BY <3>3 DEF Clearing
  <2> QED
    BY <2>1, <2>2, <2>3, <2>4, QuietMove DEF Threads
<1>26. ASSUME NEW q \in Procs, DispatchUnfreeze(q) PROVE TimerInv'
  <2>1. LockInv'
    BY <1>26 DEF TypeOK, TimerInv, LockInv, Locked, Freezing, DispatchUnfreeze, Receive, Enter, Goto
  <2>2. \A u \in Threads \ {Bpf} : pc'[u] = pc[u] /\ arg'[u] = arg[u]
    BY <1>26 DEF TypeOK, DispatchUnfreeze, Enter, Goto
  <2>3. RingInv' /\ UNCHANGED <<state, pending, timers>>
    BY <1>26, <1>r, ReceiveRing DEF DispatchUnfreeze
  <2>4. /\ pc'[Bpf] \in Clearing => pc[Bpf] \in Clearing /\ arg'[Bpf] = arg[Bpf]
        /\ pc'[Bpf] # "bg_arm"
        /\ Bpf = Bpf => pc'[Bpf] \notin {"bg_wait", "cb_wait", "df_check", "df_move",
                                    "df_mark", "df_count", "df_side"}
    BY <1>26, <1>r DEF TypeOK, Clearing, DispatchUnfreeze, Receive, Enter, Goto
  <2> QED
    BY <2>1, <2>2, <2>3, <2>4, QuietMove DEF Threads
<1>27. ASSUME DispatchScreen PROVE TimerInv'
  <2>1. LockInv'
    BY <1>27 DEF TimerInv, LockInv, Locked, Freezing, DispatchScreen, Receive, Goto
  <2>2. \A u \in Threads \ {Bpf} : pc'[u] = pc[u] /\ arg'[u] = arg[u]
    BY <1>27 DEF DispatchScreen, Goto
  <2>3. RingInv' /\ UNCHANGED <<state, pending, timers>>
    BY <1>27, <1>r, ReceiveRing DEF DispatchScreen
  <2>4. /\ pc'[Bpf] \in Clearing => pc[Bpf] \in Clearing /\ arg'[Bpf] = arg[Bpf]
        /\ pc'[Bpf] # "bg_arm"
        /\ Bpf = Bpf => pc'[Bpf] \notin {"bg_wait", "cb_wait", "df_check", "df_move",
                                    "df_mark", "df_count", "df_side"}
    BY <1>27, <1>r DEF Clearing, DispatchScreen, Receive, Goto
  <2> QED
    BY <2>1, <2>2, <2>3, <2>4, QuietMove DEF Threads
<1>28. ASSUME ScreenOff PROVE TimerInv'
  <2>1. LockInv'
    BY <1>28, LeaveShape DEF TimerInv, LockInv, ScreenOff, Threads, Freezing, Locked, Labels
  <2>2. TimerOwned'
    <3>1. \A i \in TimerIds : timers'[i].kind = "freeze" => timers'[i] = timers[i]
      <4>1. PICK f \in ForegroundRead :
              timers' = [Cancelled(screenTimer) EXCEPT ![NewId] = [kind |-> "sweep", pkg |-> f]]
        BY <1>28 DEF ScreenOff
      <4> QED BY <4>1 DEF Cancelled, NoCallback
    <3>2. state' = state /\ pending' = pending
      BY <1>28 DEF ScreenOff
    <3> QED BY <3>1, <3>2 DEF TimerInv, TimerOwned, FreezeTimer
  <2>3. ClearingInv'
    BY <1>28, ThreadAssumption, LeaveShape, NewIdFree DEF TimerInv, ClearingInv, Clearing, ScreenOff, At, Free, Cancelled, Callback, NoCallback, FreezeTimer, NoFreezeTimer, FreeIds, Threads, Bpf
  <2>4. ArmingInv'
    BY <1>28, LeaveShape DEF TimerInv, ArmingInv, ScreenOff, At, Threads, Waiting, Freezing
  <2>5. BpfInv'
    BY <1>28, <1>r, LeaveShape DEF BpfInv, RingInv, ScreenOff, At, Threads
  <2> QED BY <2>1, <2>2, <2>3, <2>4, <2>5 DEF TimerInv
<1>29. ASSUME ScreenOn PROVE TimerInv'
  <2>1. LockInv'
    BY <1>29, LeaveShape DEF TimerInv, LockInv, ScreenOn, Threads, Freezing, Locked, Labels
  <2>2. TimerOwned'
    BY <1>29 DEF TimerInv, TimerOwned, ScreenOn, Cancelled, NoCallback, FreezeTimer
  <2>3. ClearingInv'
    BY <1>29, LeaveShape DEF TimerInv, ClearingInv, Clearing, ScreenOn, At, Free, Cancelled, Callback, NoCallback, FreezeTimer, NoFreezeTimer, Threads
  <2>4. ArmingInv'
    BY <1>29, LeaveShape DEF TimerInv, ArmingInv, ScreenOn, At, Threads, Waiting, Freezing
  <2>5. BpfInv'
    BY <1>29, <1>r, LeaveShape DEF BpfInv, RingInv, ScreenOn, At, Threads, Waiting, Freezing
  <2> QED BY <2>1, <2>2, <2>3, <2>4, <2>5 DEF TimerInv
<1>30. ASSUME FireDeepSleep PROVE TimerInv'
  <2>1. LockInv'
    BY <1>30 DEF TimerInv, LockInv, Locked, Freezing, FireDeepSleep, WorkerFree, Goto
  <2>2. \A u \in Threads \ {Tmr} : pc'[u] = pc[u] /\ arg'[u] = arg[u]
    BY <1>30 DEF FireDeepSleep, Goto
  <2>3. RingInv' /\ UNCHANGED <<state, pending, timers>>
    BY <1>30, <1>r DEF FireDeepSleep, RingInv
  <2>4. /\ pc'[Tmr] \in Clearing => pc[Tmr] \in Clearing /\ arg'[Tmr] = arg[Tmr]
        /\ pc'[Tmr] # "bg_arm"
        /\ Tmr = Bpf => pc'[Tmr] \notin {"bg_wait", "cb_wait", "df_check", "df_move",
                                    "df_mark", "df_count", "df_side"}
    BY <1>30 DEF Clearing, FireDeepSleep, WorkerFree, Goto
  <2> QED
    BY <2>1, <2>2, <2>3, <2>4, QuietMove DEF Threads
<1>31. ASSUME FireGuard PROVE TimerInv'
  <2>1. LockInv'
    BY <1>31 DEF TimerInv, LockInv, Locked, Freezing, FireGuard, WorkerFree, Goto
  <2>2. \A u \in Threads \ {Tmr} : pc'[u] = pc[u] /\ arg'[u] = arg[u]
    BY <1>31 DEF FireGuard, Goto
  <2>3. RingInv' /\ UNCHANGED <<state, pending, timers>>
    BY <1>31, <1>r DEF FireGuard, RingInv
  <2>4. /\ pc'[Tmr] \in Clearing => pc[Tmr] \in Clearing /\ arg'[Tmr] = arg[Tmr]
        /\ pc'[Tmr] # "bg_arm"
        /\ Tmr = Bpf => pc'[Tmr] \notin {"bg_wait", "cb_wait", "df_check", "df_move",
                                    "df_mark", "df_count", "df_side"}
    BY <1>31 DEF Clearing, FireGuard, WorkerFree, Goto
  <2> QED
    BY <2>1, <2>2, <2>3, <2>4, QuietMove DEF Threads
<1>32. ASSUME NEW i \in TimerIds, FireSweep(i) PROVE TimerInv'
  <2>1. LockInv'
    BY <1>32 DEF TimerInv, LockInv, FireSweep, WorkerFree, Goto, Freezing, Locked, Labels
  <2>2. TimerOwned'
    BY <1>32 DEF TimerInv, TimerOwned, FireSweep, Take, Cancelled, NoCallback, FreezeTimer
  <2>3. ClearingInv'
    BY <1>32 DEF TimerInv, ClearingInv, Clearing, FireSweep, At, Goto, Take, Cancelled, Callback, NoCallback, FreezeTimer, NoFreezeTimer
  <2>4. ArmingInv'
    BY <1>32 DEF ArmingInv, FireSweep, WorkerFree, At, Goto
  <2>5. BpfInv'
    BY <1>32, <1>r DEF TimerInv, BpfInv, FireSweep, At, Goto
  <2> QED BY <2>1, <2>2, <2>3, <2>4, <2>5 DEF TimerInv
<1>33. ASSUME NEW i \in TimerIds, NEW p \in Pkgs, FireFreeze(i, p) PROVE TimerInv'
  <2>1. LockInv'
    BY <1>33 DEF TimerInv, LockInv, FireFreeze, WorkerFree, Enter, Goto, Freezing, Locked
  <2>2. TimerOwned'
    BY <1>33 DEF TimerInv, TimerOwned, FireFreeze, Take, Cancelled, NoCallback, FreezeTimer
  <2>3. ClearingInv'
    BY <1>33 DEF TypeOK, TimerInv, TimerOwned, ClearingInv, FireFreeze, At, Enter, Goto, Take, Cancelled, Callback, NoCallback, FreezeTimer, NoFreezeTimer, Threads, Bpf
  <2>4. ArmingInv'
    BY <1>33 DEF ArmingInv, FireFreeze, WorkerFree, At, Enter, Goto
  <2>5. BpfInv'
    BY <1>33, <1>r DEF TimerInv, BpfInv, FireFreeze, At, Enter, Goto, Bpf, Tmr, Waiting
  <2> QED BY <2>1, <2>2, <2>3, <2>4, <2>5 DEF TimerInv
<1>34. ASSUME NEW i \in TimerIds, NEW p \in Pkgs, FireBackoff(i, p) PROVE TimerInv'
  <2>1. LockInv'
    BY <1>34 DEF TimerInv, LockInv, FireBackoff, WorkerFree, Enter, Goto, Freezing, Locked
  <2>2. TimerOwned'
    BY <1>34 DEF TimerInv, TimerOwned, FireBackoff, Take, Cancelled, NoCallback, FreezeTimer
  <2>3. ClearingInv'
    BY <1>34 DEF TimerInv, ClearingInv, Clearing, FireBackoff, WorkerFree, At, Enter, Goto, Take, Cancelled, Callback, NoCallback, FreezeTimer, NoFreezeTimer, Threads, Bpf
  <2>4. ArmingInv'
    BY <1>34 DEF ArmingInv, FireBackoff, WorkerFree, At, Enter, Goto
  <2>5. BpfInv'
    BY <1>34, <1>r DEF TimerInv, BpfInv, FireBackoff, At, Enter, Goto, Bpf, Tmr, Waiting
  <2> QED BY <2>1, <2>2, <2>3, <2>4, <2>5 DEF TimerInv
<1>35. ASSUME NEW p \in Pkgs, Poll(p) PROVE TimerInv'
  <2>1. LockInv'
    BY <1>35 DEF TypeOK, TimerInv, LockInv, Locked, Freezing, Poll, WorkerFree, Goto, Enter
  <2>2. \A u \in Threads \ {Tmr} : pc'[u] = pc[u] /\ arg'[u] = arg[u]
    BY <1>35 DEF TypeOK, Poll, Goto, Enter
  <2>3. RingInv' /\ UNCHANGED <<state, pending, timers>>
    BY <1>35, <1>r DEF Poll, RingInv
  <2>4. /\ pc'[Tmr] \in Clearing => pc[Tmr] \in Clearing /\ arg'[Tmr] = arg[Tmr]
        /\ pc'[Tmr] # "bg_arm"
        /\ Tmr = Bpf => pc'[Tmr] \notin {"bg_wait", "cb_wait", "df_check", "df_move",
                                    "df_mark", "df_count", "df_side"}
    BY <1>35 DEF TypeOK, Clearing, Poll, Goto, Enter, Threads
  <2> QED
    BY <2>1, <2>2, <2>3, <2>4, QuietMove DEF Threads
<1>36. ASSUME NEW q \in Procs, ProcStarts(q) PROVE TimerInv'
  BY <1>36, <1>r, FrameInv DEF ProcStarts, daemonVars, RingInv
<1>37. ASSUME NEW q \in Procs, ProcExits(q) PROVE TimerInv'
  BY <1>37, <1>r, FrameInv, EmitRing DEF ProcExits, daemonVars, EventKinds
<1>38. ASSUME NEW q \in Procs, ThreadExits(q) PROVE TimerInv'
  BY <1>38, <1>r, FrameInv, EmitRing DEF ThreadExits, daemonVars, EventKinds
<1>39. ASSUME NEW q \in Procs, SystemThaw(q) PROVE TimerInv'
  BY <1>39, <1>r, FrameInv, EmitRing DEF SystemThaw, daemonVars, EventKinds, RingInv
<1>40. ASSUME NEW q \in Procs, SystemMigrates(q) PROVE TimerInv'
  BY <1>40, <1>r, FrameInv DEF SystemMigrates, daemonVars, RingInv
<1>41. ASSUME NEW q \in Procs, NEW k \in {"fg", "bg"}, TopAppChanges(q, k) PROVE TimerInv'
  BY <1>41, <1>r, FrameInv, EmitRing DEF TopAppChanges, daemonVars, EventKinds
<1>42. ASSUME NEW k \in {"on", "off"}, ScreenToggles(k) PROVE TimerInv'
  BY <1>42, <1>r, FrameInv, EmitRing DEF ScreenToggles, daemonVars, EventKinds
<1>43. ASSUME NEW p \in Pkgs, EditWhitelist(p) PROVE TimerInv'
  BY <1>43, <1>r, FrameInv DEF EditWhitelist, daemonVars, RingInv
<1>44. ASSUME EditRestrict PROVE TimerInv'
  BY <1>44, <1>r, FrameInv DEF EditRestrict, daemonVars, RingInv
<1>45. ASSUME FreezerReenabled PROVE TimerInv'
  BY <1>45, <1>r, FrameInv DEF FreezerReenabled, daemonVars, RingInv
<1>46. ASSUME Restart PROVE TimerInv'
  BY <1>46, RestartTimers
<1>47. CASE UNCHANGED vars
  BY <1>47, FrameInv DEF vars, TimerInv, BpfInv, RingInv
<1> QED
  BY <1>1, <1>2, <1>3, <1>4, <1>5, <1>6, <1>7, <1>8, <1>9, <1>10, <1>11, <1>12, <1>13, <1>14, <1>15, <1>16, <1>17, <1>18, <1>19, <1>20, <1>21, <1>22, <1>23, <1>24, <1>25, <1>26, <1>27, <1>28, <1>29, <1>30, <1>31, <1>32, <1>33, <1>34, <1>35, <1>36, <1>37, <1>38, <1>39, <1>40, <1>41, <1>42, <1>43, <1>44, <1>45, <1>46, <1>47
  DEF Next, BpfStep, WorkerStep, TimerStep, EnvStep, HandlerStep, Fire, Threads, Bpf, Tmr

\* An armed delayed freeze is the pending timer of an app in PENDING_BG: no handler
\* of freeze_engine.h leaves one behind that it can no longer cancel, whatever the
\* interleaving with the unlocked sweep.  The shipped loader attaches no probe that
\* emits background events.
THEOREM TimersOwned ==
  ASSUME "bg" \notin Emits
  PROVE  Spec => []TimerOwned
<1>1. Init => TypeOK /\ TimerInv
  BY TypeInit, TimerInit
<1>2. TypeOK /\ TimerInv /\ [Next]_vars => TypeOK' /\ TimerInv'
  BY TypeNext, TimerNext
<1>3. TimerInv => TimerOwned
  BY DEF TimerInv
<1> QED
  BY <1>1, <1>2, <1>3, PTL DEF Spec

=============================================================================
