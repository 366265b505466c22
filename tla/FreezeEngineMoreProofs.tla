----------------------- MODULE FreezeEngineMoreProofs -----------------------
(***************************************************************************)
(* More theorems about FreezeEngine, on TypeOK and TimerInv of               *)
(* FreezeEngineProofs.  The count of bounces, the timer of the screen-off    *)
(* sweep, the deep-sleep flag, Doze and the exempt apps' AppOps need no      *)
(* lock: each is touched in one step, and it is enough to see what every     *)
(* action makes of them.  That the records follow AppLifecycle and that a    *)
(* delayed freeze is not lost rest on TimerOwned and PendingOwn, that it     *)
(* hits a waiting app on DelayInv above LockInv, that handlers are of        *)
(* bounded length on the measure Left, with LockInv and PlaceInv.  What the  *)
(* records, the kernel, AppOps and the probes' map have to do with each      *)
(* other is shown where the eBPF thread handles no app's moves: FedInv, and  *)
(* on it MarkInv, StillInv, HeldInv, DeniedInv, MapInv and BackInv, each     *)
(* under the weakest conditions on the world that keep it.                   *)
(***************************************************************************)
EXTENDS FreezeEngineProofs, FiniteSetTheorems

(***************************************************************************)
(* Bounces                                                                  *)
(***************************************************************************)
LEMMA BounceNext ==
  TypeOK /\ BounceOnlyFrozen /\ [Next]_vars => BounceOnlyFrozen'
<1> SUFFICES ASSUME TypeOK, BounceOnlyFrozen, [Next]_vars PROVE BounceOnlyFrozen'
  OBVIOUS
<1>0. /\ state \in [Pkgs -> {"RUNNING", "PENDING_BG", "FROZEN"}]
      /\ bounce \in [Pkgs -> Nat]
  BY DEF TypeOK
<1>1. ASSUME UNCHANGED <<state, bounce>> PROVE BounceOnlyFrozen'
  BY <1>1 DEF BounceOnlyFrozen
<1> USE DEF appVars
<1>2. ASSUME NEW t \in Threads, NEW p \in Pkgs,
             \/ Foreground(t, p) \/ UnfreezeMove(t, p) \/ UnfreezeSide(t, p)
             \/ BackgroundArm(t, p) \/ FreezeCheck(t, p) \/ FreezeMove(t, p)
             \/ FreezeSide(t, p)
      PROVE  BounceOnlyFrozen'
  BY <1>1, <1>2 DEF Foreground, UnfreezeMove, UnfreezeSide, BackgroundArm, FreezeCheck,
    FreezeMove, FreezeSide
<1>3. ASSUME NEW t \in Threads, NEW p \in Pkgs, UnfreezeMark(t, p) PROVE BounceOnlyFrozen'
  BY <1>0, <1>3 DEF UnfreezeMark, BounceOnlyFrozen
<1>4. ASSUME NEW t \in Threads, NEW p \in Pkgs, Background(t, p) PROVE BounceOnlyFrozen'
  BY <1>0, <1>4 DEF Background, BounceOnlyFrozen
<1>5. ASSUME NEW t \in Threads, NEW p \in Pkgs, FreezeMark(t, p) PROVE BounceOnlyFrozen'
  BY <1>0, <1>5 DEF FreezeMark, BounceOnlyFrozen
<1>6. ASSUME NEW t \in Threads, NEW p \in Pkgs, FreezeCount(t, p) PROVE BounceOnlyFrozen'
  BY <1>0, <1>6 DEF FreezeCount, BounceOnlyFrozen
<1>7. ASSUME NEW p \in Pkgs, ProcDied(p) \/ BounceLimitReached(p) PROVE BounceOnlyFrozen'
  BY <1>0, <1>7 DEF ProcDied, BounceLimitReached, BounceOnlyFrozen
<1>8. ASSUME NEW p \in Pkgs, SystemUnfreeze(p) PROVE BounceOnlyFrozen'
  BY <1>0, <1>8, NumbersAssumption DEF SystemUnfreeze, BounceOnlyFrozen
<1>9. ASSUME NEW q \in Procs, DispatchDied(q) \/ DispatchMove(q) \/ DispatchUnfreeze(q)
      PROVE  BounceOnlyFrozen'
  BY <1>1, <1>9 DEF DispatchDied, DispatchMove, DispatchUnfreeze
<1>10. CASE DispatchScreen \/ ScreenOff \/ ScreenOn
  BY <1>1, <1>10 DEF DispatchScreen, ScreenOff, ScreenOn
<1>11. ASSUME NEW p \in Pkgs,
              \/ FreezeCallback(p) \/ SweepNext(p) \/ SweepLast(p)
              \/ PollBackground(p) \/ PollForeground(p) \/ Poll(p)
       PROVE  BounceOnlyFrozen'
  BY <1>1, <1>11 DEF FreezeCallback, SweepNext, SweepLast, SweepVisit, PollBackground,
    PollForeground, Poll
<1>12. CASE SweepStart \/ SweepEnd \/ EnterDeepSleep \/ FireDeepSleep \/ FireGuard
            \/ \E answered \in BOOLEAN : FreezerCheck(answered)
  BY <1>1, <1>12 DEF SweepStart, SweepEnd, EnterDeepSleep, FireDeepSleep, FireGuard,
    FreezerCheck
<1>13. ASSUME NEW i \in TimerIds, Fire(i) PROVE BounceOnlyFrozen'
  BY <1>1, <1>13 DEF Fire, FireSweep, FireFreeze, FireBackoff
<1>14. CASE EnvStep
  <2>1. CASE Restart
    BY <2>1 DEF Restart, BounceOnlyFrozen
  <2>2. CASE ~Restart
    BY <1>1, <1>14, <2>2 DEF EnvStep, ProcStarts, ProcExits, ThreadExits, SystemThaw,
      SystemMigrates, TopAppChanges, ScreenToggles, EditWhitelist, EditRestrict,
      FreezerReenabled, daemonVars
  <2> QED BY <2>1, <2>2
<1>15. CASE UNCHANGED vars
  BY <1>1, <1>15 DEF vars
<1> QED
  BY <1>2, <1>3, <1>4, <1>5, <1>6, <1>7, <1>8, <1>9, <1>10, <1>11, <1>12, <1>13, <1>14, <1>15
  DEF Next, BpfStep, WorkerStep, TimerStep, HandlerStep, Threads, Bpf, Tmr

\* Only a frozen app has bounces, fewer than bounce_limit of them (freeze_engine.h:101).
THEOREM BouncesCounted == Spec => []BounceOnlyFrozen
<1>1. Init => BounceOnlyFrozen
  BY DEF Init, BounceOnlyFrozen
<1> QED BY <1>1, TypeInit, TypeNext, BounceNext, PTL DEF Spec

(***************************************************************************)
(* The screen                                                               *)
(***************************************************************************)
\* A callback that may still set in_deep_sleep_, or has, belongs to a screen that is off.
DeepInv ==
  /\ dsArmed => screen = "off"
  /\ dsFired /\ ~cancelled => screen = "off"
  /\ inDeep => screen = "off"

ScreenInv == ScreenOnDisarms /\ DeepInv

\* A step that only removes timers, or arms one that is no sweep, is no step of the screen.
LEMMA QuietScreen ==
  ASSUME TypeOK, ScreenInv, UNCHANGED <<screenTimer, screen, deepVars>>,
         \/ UNCHANGED timers
         \/ \E j : timers' = Cancelled(j)
         \/ /\ FreeIds # {}
            /\ \E c \in Callback : c.kind # "sweep" /\ timers' = [timers EXCEPT ![NewId] = c]
  PROVE  ScreenInv'
<1>1. ASSUME NEW i \in TimerIds, timers'[i].kind = "sweep" PROVE timers'[i] = timers[i]
  <2>1. CASE \E j : timers' = Cancelled(j)
    BY <1>1, <2>1 DEF Cancelled, NoCallback
  <2>2. CASE /\ FreeIds # {}
             /\ \E c \in Callback : c.kind # "sweep" /\ timers' = [timers EXCEPT ![NewId] = c]
    BY <1>1, <2>2 DEF TypeOK
  <2> QED BY <2>1, <2>2
<1> QED BY <1>1 DEF ScreenInv, ScreenOnDisarms, DeepInv, deepVars

LEMMA ScreenNext == TypeOK /\ ScreenInv /\ [Next]_vars => ScreenInv'
<1> SUFFICES ASSUME TypeOK, ScreenInv, [Next]_vars PROVE ScreenInv'
  OBVIOUS
<1> USE DEF timerVars, asideVars
<1>1. ASSUME NEW t \in Threads, NEW p \in Pkgs,
             \/ UnfreezeMove(t, p) \/ UnfreezeMark(t, p) \/ UnfreezeSide(t, p)
             \/ Background(t, p) \/ FreezeCheck(t, p) \/ FreezeMove(t, p)
             \/ FreezeMark(t, p) \/ FreezeCount(t, p) \/ FreezeSide(t, p)
      PROVE  ScreenInv'
  BY <1>1, QuietScreen DEF UnfreezeMove, UnfreezeMark, UnfreezeSide, Background,
    FreezeCheck, FreezeMove, FreezeMark, FreezeCount, FreezeSide
<1>2. ASSUME NEW t \in Threads, NEW p \in Pkgs, Foreground(t, p) PROVE ScreenInv'
  BY <1>2, QuietScreen DEF Foreground
<1>3. ASSUME NEW t \in Threads, NEW p \in Pkgs, BackgroundArm(t, p) PROVE ScreenInv'
  <2>1. [kind |-> "freeze", pkg |-> p] \in Callback
    BY DEF Callback
  <2> QED BY <1>3, <2>1, QuietScreen DEF BackgroundArm
<1>4. ASSUME NEW p \in Pkgs, ProcDied(p) PROVE ScreenInv'
  BY <1>4, QuietScreen DEF ProcDied
<1>5. ASSUME NEW p \in Pkgs, BounceLimitReached(p) PROVE ScreenInv'
  <2>1. [kind |-> "backoff", pkg |-> p] \in Callback
    BY DEF Callback
  <2> QED BY <1>5, <2>1, QuietScreen DEF BounceLimitReached
<1>6. ASSUME NEW p \in Pkgs, SystemUnfreeze(p) PROVE ScreenInv'
  BY <1>6, QuietScreen DEF SystemUnfreeze
<1>7. ASSUME NEW q \in Procs, DispatchDied(q) \/ DispatchMove(q) \/ DispatchUnfreeze(q)
      PROVE  ScreenInv'
  BY <1>7, QuietScreen DEF DispatchDied, DispatchMove, DispatchUnfreeze
<1>8. CASE DispatchScreen
  BY <1>8, QuietScreen DEF DispatchScreen
<1>9. CASE ScreenOff
  <2>1. PICK f \in ForegroundRead :
          timers' = [Cancelled(screenTimer) EXCEPT ![NewId] = [kind |-> "sweep", pkg |-> f]]
    BY <1>9 DEF ScreenOff
  <2>2. ASSUME NEW i \in TimerIds, timers'[i].kind = "sweep" PROVE i = NewId
    <3>1. CASE i # NewId
      <4>1. Cancelled(screenTimer)[i].kind = "sweep"
        BY <2>1, <2>2, <3>1 DEF Cancelled
      <4>2. i # screenTimer /\ timers[i].kind = "sweep"
        BY <4>1 DEF Cancelled, NoCallback
      <4> QED BY <4>2 DEF ScreenInv, ScreenOnDisarms
    <3> QED BY <3>1
  <2>3. screenTimer' = NewId /\ screen' = "off"
    BY <1>9 DEF ScreenOff
  <2> QED BY <2>2, <2>3 DEF ScreenInv, ScreenOnDisarms, DeepInv
<1>10. CASE ScreenOn
  <2>1. \A i \in TimerIds : timers'[i].kind # "sweep"
    BY <1>10 DEF ScreenOn, ScreenInv, ScreenOnDisarms, Cancelled, NoCallback
  <2>2. ~dsArmed' /\ cancelled' /\ ~inDeep'
    BY <1>10 DEF ScreenOn, Deep!CancelAndExit
  <2> QED BY <2>1, <2>2 DEF ScreenInv, ScreenOnDisarms, DeepInv
<1>11. ASSUME NEW p \in Pkgs,
              FreezeCallback(p) \/ PollBackground(p) \/ PollForeground(p) \/ Poll(p)
       PROVE  ScreenInv'
  BY <1>11, QuietScreen DEF FreezeCallback, PollBackground, PollForeground, Poll
<1>12. ASSUME NEW p \in Pkgs, SweepNext(p) \/ SweepLast(p) PROVE ScreenInv'
  BY <1>12, QuietScreen DEF SweepNext, SweepLast, SweepVisit
<1>13. CASE SweepStart \/ SweepEnd \/ FireGuard \/ \E answered \in BOOLEAN : FreezerCheck(answered)
  BY <1>13, QuietScreen DEF SweepStart, SweepEnd, FireGuard, FreezerCheck
<1>14. CASE FireDeepSleep \/ EnterDeepSleep
  <2>1. UNCHANGED <<timers, screenTimer, screen>>
    BY <1>14 DEF FireDeepSleep, EnterDeepSleep
  <2>2. DeepInv'
    <3>1. CASE FireDeepSleep
      BY <2>1, <3>1 DEF FireDeepSleep, Deep!Fire, ScreenInv, DeepInv
    <3>2. CASE EnterDeepSleep
      <4>1. /\ dsFired /\ ~dsFired' /\ (inDeep' => inDeep \/ ~cancelled)
            /\ UNCHANGED <<dsArmed, cancelled>>
        BY <3>2, Zenon DEF EnterDeepSleep, Deep!Enter
      <4> QED BY <2>1, <4>1 DEF ScreenInv, DeepInv
    <3> QED BY <1>14, <3>1, <3>2
  <2> QED BY <2>1, <2>2 DEF ScreenInv, ScreenOnDisarms
<1>15. ASSUME NEW i \in TimerIds, Fire(i) PROVE ScreenInv'
  BY <1>15, QuietScreen DEF Fire, FireSweep, FireFreeze, FireBackoff, Take
<1>16. CASE EnvStep
  <2>1. CASE Restart
    BY <2>1 DEF Restart, Deep!DsRestart, ScreenInv, ScreenOnDisarms, DeepInv, NoCallback
  <2>2. CASE ~Restart
    <3>1. UNCHANGED <<timers, screenTimer, screen, deepVars>>
      BY <1>16, <2>2 DEF EnvStep, ProcStarts, ProcExits, ThreadExits, SystemThaw,
        SystemMigrates, TopAppChanges, ScreenToggles, EditWhitelist, EditRestrict,
        FreezerReenabled, daemonVars
    <3> QED BY <3>1, QuietScreen
  <2> QED BY <2>1, <2>2
<1>17. CASE UNCHANGED vars
  BY <1>17, QuietScreen DEF vars, deepVars
<1> QED
  BY <1>1, <1>2, <1>3, <1>4, <1>5, <1>6, <1>7, <1>8, <1>9, <1>10, <1>11, <1>12, <1>13,
     <1>14, <1>15, <1>16, <1>17
  DEF Next, BpfStep, WorkerStep, TimerStep, HandlerStep, Threads, Bpf, Tmr

LEMMA ScreenAlways == Spec => []ScreenInv
<1>1. Init => ScreenInv
  BY DEF Init, Deep!DsInit, ScreenInv, ScreenOnDisarms, DeepInv, NoCallback
<1> QED BY <1>1, TypeInit, TypeNext, ScreenNext, PTL DEF Spec

\* An armed sweep is the one screen_off_timer_ names, and the screen is off.
THEOREM SweepDisarmed == Spec => []ScreenOnDisarms
<1>1. ScreenInv => ScreenOnDisarms
  BY DEF ScreenInv
<1> QED BY <1>1, ScreenAlways, PTL

\* in_deep_sleep_ is not set once the screen is on, even by a callback that the worker
\* took before the screen came on and that gets the manager's mutex after it.
THEOREM NoDeepSleepScreenOn == Spec => []DeepOnlyScreenOff
<1>1. ScreenInv => DeepOnlyScreenOff
  BY DEF ScreenInv, DeepInv, DeepOnlyScreenOff
<1> QED BY <1>1, ScreenAlways, PTL

(***************************************************************************)
(* The records follow AppLifecycle                                          *)
(***************************************************************************)
\* What a pending_timer names is that app's delayed freeze, or is no longer there.
PendingOwn ==
  \A p \in Pkgs, i \in TimerIds :
    pending[p] = i => timers[i] \in {FreezeTimer(p), NoCallback}

\* A timer armed under a free id is nobody's pending one but the app's it is for.
LEMMA PendingArm ==
  ASSUME TypeOK, PendingOwn, FreeIds # {}, NEW c \in Callback,
         timers' = [timers EXCEPT ![NewId] = c],
         \/ UNCHANGED pending
         \/ \E p \in Pkgs : c = FreezeTimer(p) /\ pending' = [pending EXCEPT ![p] = NewId]
  PROVE  PendingOwn'
<1>1. NewId \in TimerIds /\ \A p \in Pkgs : pending[p] # NewId
  BY NewIdFree DEF FreeIds
<1>2. CASE UNCHANGED pending
  BY <1>1, <1>2 DEF PendingOwn, TypeOK, FreezeTimer
<1>3. CASE \E p \in Pkgs : c = FreezeTimer(p) /\ pending' = [pending EXCEPT ![p] = NewId]
  <2>1. PICK p \in Pkgs : c = FreezeTimer(p) /\ pending' = [pending EXCEPT ![p] = NewId]
    BY <1>3
  <2> QED BY <1>1, <2>1 DEF PendingOwn, TypeOK, FreezeTimer
<1> QED BY <1>2, <1>3

\* Cancelling, with or without forgetting the id, takes nothing from it.
LEMMA PendingCancel ==
  ASSUME TypeOK, PendingOwn,
         \/ UNCHANGED timers
         \/ \E j : timers' = Cancelled(j),
         \/ UNCHANGED pending
         \/ \E p \in Pkgs : pending' = [pending EXCEPT ![p] = NoTimer]
  PROVE  PendingOwn'
<1>1. ASSUME NEW i \in TimerIds PROVE timers'[i] \in {timers[i], NoCallback}
  BY DEF Cancelled
<1>2. ASSUME NEW p \in Pkgs, NEW i \in TimerIds, pending'[p] = i PROVE pending[p] = i
  BY <1>2, TimersAssumption DEF TypeOK
<1> QED BY <1>1, <1>2 DEF PendingOwn, FreezeTimer

LEMMA PendingNext == TypeOK /\ PendingOwn /\ [Next]_vars => PendingOwn'
<1> SUFFICES ASSUME TypeOK, PendingOwn, [Next]_vars PROVE PendingOwn'
  OBVIOUS
<1> USE DEF appVars, timerVars
<1>1. ASSUME NEW t \in Threads, NEW p \in Pkgs,
             \/ UnfreezeMove(t, p) \/ UnfreezeMark(t, p) \/ UnfreezeSide(t, p)
             \/ Background(t, p) \/ FreezeCheck(t, p) \/ FreezeMove(t, p)
             \/ FreezeMark(t, p) \/ FreezeCount(t, p) \/ FreezeSide(t, p)
      PROVE  PendingOwn'
  BY <1>1, PendingCancel DEF UnfreezeMove, UnfreezeMark, UnfreezeSide, Background,
    FreezeCheck, FreezeMove, FreezeMark, FreezeCount, FreezeSide
<1>2. ASSUME NEW t \in Threads, NEW p \in Pkgs, Foreground(t, p) PROVE PendingOwn'
  BY <1>2, PendingCancel DEF Foreground
<1>3. ASSUME NEW t \in Threads, NEW p \in Pkgs, BackgroundArm(t, p) PROVE PendingOwn'
  <2>1. FreezeTimer(p) \in Callback
    BY DEF Callback, FreezeTimer
  <2>2. timers' = [timers EXCEPT ![NewId] = FreezeTimer(p)]
        /\ pending' = [pending EXCEPT ![p] = NewId] /\ FreeIds # {}
    BY <1>3 DEF BackgroundArm, FreezeTimer
  <2> QED BY <2>1, <2>2, PendingArm
<1>4. ASSUME NEW p \in Pkgs, ProcDied(p) PROVE PendingOwn'
  BY <1>4, PendingCancel DEF ProcDied
<1>5. ASSUME NEW p \in Pkgs, BounceLimitReached(p) PROVE PendingOwn'
  <2>1. [kind |-> "backoff", pkg |-> p] \in Callback
    BY DEF Callback
  <2> QED BY <1>5, <2>1, PendingArm DEF BounceLimitReached
<1>6. ASSUME NEW p \in Pkgs, SystemUnfreeze(p) PROVE PendingOwn'
  BY <1>6, PendingCancel DEF SystemUnfreeze
<1>7. ASSUME NEW q \in Procs, DispatchDied(q) \/ DispatchMove(q) \/ DispatchUnfreeze(q)
      PROVE  PendingOwn'
  BY <1>7, PendingCancel DEF DispatchDied, DispatchMove, DispatchUnfreeze
<1>8. CASE DispatchScreen
  BY <1>8, PendingCancel DEF DispatchScreen
<1>9. CASE ScreenOff
  <2>1. PICK f \in ForegroundRead :
          timers' = [Cancelled(screenTimer) EXCEPT ![NewId] = [kind |-> "sweep", pkg |-> f]]
    BY <1>9 DEF ScreenOff
  <2>2. \A p \in Pkgs : pending[p] # NewId /\ pending'[p] = pending[p]
    BY <1>9, NewIdFree DEF ScreenOff, FreeIds
  <2>3. ASSUME NEW i \in TimerIds, i # NewId PROVE timers'[i] \in {timers[i], NoCallback}
    BY <2>1, <2>3 DEF Cancelled
  <2> QED BY <2>2, <2>3 DEF PendingOwn
<1>10. CASE ScreenOn
  BY <1>10, PendingCancel DEF ScreenOn
<1>11. ASSUME NEW p \in Pkgs,
              FreezeCallback(p) \/ PollBackground(p) \/ PollForeground(p) \/ Poll(p)
       PROVE  PendingOwn'
  BY <1>11, PendingCancel DEF FreezeCallback, PollBackground, PollForeground, Poll
<1>12. ASSUME NEW p \in Pkgs, SweepNext(p) \/ SweepLast(p) PROVE PendingOwn'
  BY <1>12, PendingCancel DEF SweepNext, SweepLast, SweepVisit
<1>13. CASE SweepStart \/ SweepEnd \/ EnterDeepSleep \/ FireDeepSleep \/ FireGuard
            \/ \E answered \in BOOLEAN : FreezerCheck(answered)
  BY <1>13, PendingCancel DEF SweepStart, SweepEnd, EnterDeepSleep, FireDeepSleep,
    FireGuard, FreezerCheck
<1>14. ASSUME NEW i \in TimerIds, Fire(i) PROVE PendingOwn'
  BY <1>14, PendingCancel DEF Fire, FireSweep, FireFreeze, FireBackoff, Take
<1>15. CASE EnvStep
  <2>1. CASE Restart
    BY <2>1 DEF Restart, PendingOwn
  <2>2. CASE ~Restart
    <3>1. UNCHANGED <<timers, pending>>
      BY <1>15, <2>2 DEF EnvStep, ProcStarts, ProcExits, ThreadExits, SystemThaw,
        SystemMigrates, TopAppChanges, ScreenToggles, EditWhitelist, EditRestrict,
        FreezerReenabled, daemonVars
    <3> QED BY <3>1, PendingCancel
  <2> QED BY <2>1, <2>2
<1>16. CASE UNCHANGED vars
  BY <1>16, PendingCancel DEF vars
<1> QED
  BY <1>1, <1>2, <1>3, <1>4, <1>5, <1>6, <1>7, <1>8, <1>9, <1>10, <1>11, <1>12, <1>13,
     <1>14, <1>15, <1>16
  DEF Next, BpfStep, WorkerStep, TimerStep, HandlerStep, Threads, Bpf, Tmr

\* A step that leaves the records and the delayed freezes alone is none of an app's life.
LEMMA LifeStutter ==
  ASSUME UNCHANGED <<state, bounce>>,
         \A i \in TimerIds, p \in Pkgs : timers'[i] = FreezeTimer(p) <=> timers[i] = FreezeTimer(p)
  PROVE  [Life!Next]_(Life!lifeVars)
  BY DEF Life!lifeVars, Armed, FreezeTimer

\* Taking one timer out of the table disarms the one app it may belong to.
LEMMA LifeCancel ==
  ASSUME TypeOK, TimerOwned, NEW j, timers' = Cancelled(j), UNCHANGED <<state, bounce>>
  PROVE  [Life!Next]_(Life!lifeVars)
<1>1. CASE \E p \in Pkgs : j \in TimerIds /\ timers[j] = FreezeTimer(p)
  <2>1. PICK p \in Pkgs : j \in TimerIds /\ timers[j] = FreezeTimer(p)
    BY <1>1
  <2>2. ASSUME NEW r \in Pkgs, r # p PROVE r \in Armed' <=> r \in Armed
    <3>1. \A i \in TimerIds : timers'[i] = FreezeTimer(r) <=> timers[i] = FreezeTimer(r)
      BY <2>1, <2>2 DEF Cancelled, FreezeTimer, NoCallback
    <3> QED BY <3>1 DEF Armed, FreezeTimer
  <2>3. p \in Armed /\ p \notin Armed'
    BY <2>1 DEF Armed, TimerOwned, Cancelled, FreezeTimer, NoCallback
  <2>4. Armed' = Armed \ {p}
    BY <2>2, <2>3 DEF Armed
  <2>5. Life!Disarm(p)
    BY <2>3, <2>4 DEF Life!Disarm
  <2> QED BY <2>5 DEF Life!Next
<1>2. CASE ~ \E p \in Pkgs : j \in TimerIds /\ timers[j] = FreezeTimer(p)
  BY <1>2, LifeStutter DEF Cancelled, FreezeTimer, NoCallback
<1> QED BY <1>1, <1>2

LEMMA LifecycleNext ==
  TypeOK /\ TimerInv /\ PendingOwn /\ [Next]_vars => [Life!Next]_(Life!lifeVars)
<1> SUFFICES ASSUME TypeOK, TimerInv, PendingOwn, [Next]_vars
             PROVE  [Life!Next]_(Life!lifeVars)
  OBVIOUS
<1>0. TimerOwned
  BY DEF TimerInv
<1>a. ASSUME UNCHANGED <<state, bounce, timers>> PROVE [Life!Next]_(Life!lifeVars)
  BY <1>a, LifeStutter
<1>b. ASSUME NEW t \in Threads, NEW p \in Pkgs, pc[t] \in Clearing, arg[t] = p
      PROVE  p \notin Armed
  BY <1>b DEF TimerInv, ClearingInv, NoFreezeTimer, Armed
<1> USE DEF appVars, timerVars
<1>1. ASSUME NEW t \in Threads, NEW p \in Pkgs,
             \/ UnfreezeMove(t, p) \/ UnfreezeSide(t, p)
             \/ FreezeCheck(t, p) \/ FreezeMove(t, p) \/ FreezeSide(t, p)
      PROVE  [Life!Next]_(Life!lifeVars)
  BY <1>1, <1>a DEF UnfreezeMove, UnfreezeSide, FreezeCheck, FreezeMove, FreezeSide
<1>2. ASSUME NEW t \in Threads, NEW p \in Pkgs, Foreground(t, p)
      PROVE  [Life!Next]_(Life!lifeVars)
  BY <1>0, <1>2, LifeCancel DEF Foreground
<1>3. ASSUME NEW t \in Threads, NEW p \in Pkgs, UnfreezeMark(t, p)
      PROVE  [Life!Next]_(Life!lifeVars)
  <2>1. p \notin Armed
    BY <1>3, <1>b DEF UnfreezeMark, At, Clearing
  <2>2. timers' = timers /\ Armed' = Armed
    BY <1>3 DEF UnfreezeMark, Armed, FreezeTimer
  <2>3. Life!Release(p)
    BY <1>3, <2>1, <2>2 DEF UnfreezeMark, Life!Release
  <2> QED BY <2>3 DEF Life!Next
<1>4. ASSUME NEW t \in Threads, NEW p \in Pkgs, Background(t, p)
      PROVE  [Life!Next]_(Life!lifeVars)
  <2>1. CASE state[p] = "RUNNING"
    <3>1. Armed' = Armed
      BY <1>4 DEF Background, Armed, FreezeTimer
    <3>2. Life!Wait(p)
      BY <1>4, <2>1, <3>1 DEF Background, Life!Wait
    <3> QED BY <3>2 DEF Life!Next
  <2>2. CASE state[p] # "RUNNING"
    BY <1>4, <2>2, <1>a DEF Background
  <2> QED BY <2>1, <2>2
<1>5. ASSUME NEW t \in Threads, NEW p \in Pkgs, BackgroundArm(t, p)
      PROVE  [Life!Next]_(Life!lifeVars)
  <2>1. p \notin Armed
    BY <1>5, <1>b DEF BackgroundArm, At, Clearing
  <2>2. state[p] = "PENDING_BG"
    <3>1. t = Tmr
      BY <1>5 DEF BackgroundArm, At, TimerInv, BpfInv, Threads
    <3> QED BY <1>5, <3>1 DEF BackgroundArm, TimerInv, ArmingInv
  <2>3. NewId \in TimerIds /\ timers[NewId] = NoCallback
    BY <1>5, NewIdFree DEF BackgroundArm, FreeIds
  <2>4. timers' = [timers EXCEPT ![NewId] = FreezeTimer(p)] /\ UNCHANGED <<state, bounce>>
    BY <1>5 DEF BackgroundArm, FreezeTimer
  <2>5. p \in Armed'
    BY <2>3, <2>4 DEF Armed, FreezeTimer, TypeOK
  <2>6. ASSUME NEW r \in Pkgs, r # p PROVE r \in Armed' <=> r \in Armed
    <3>1. \A i \in TimerIds : timers'[i] = FreezeTimer(r) <=> timers[i] = FreezeTimer(r)
      BY <2>3, <2>4, <2>6 DEF FreezeTimer, NoCallback, TypeOK
    <3> QED BY <3>1 DEF Armed, FreezeTimer
  <2>7. Armed' = Armed \cup {p}
    BY <2>5, <2>6 DEF Armed
  <2>8. Life!Arm(p)
    BY <2>1, <2>2, <2>4, <2>7 DEF Life!Arm
  <2> QED BY <2>8 DEF Life!Next
<1>6. ASSUME NEW t \in Threads, NEW p \in Pkgs, FreezeMark(t, p)
      PROVE  [Life!Next]_(Life!lifeVars)
  <2>1. p \notin Armed
    BY <1>6, <1>b DEF FreezeMark, At, Clearing
  <2>2. Armed' = Armed
    BY <1>6 DEF FreezeMark, Armed, FreezeTimer
  <2>3. Life!Freeze(p)
    BY <1>6, <2>1, <2>2 DEF FreezeMark, Life!Freeze
  <2> QED BY <2>3 DEF Life!Next
<1>7. ASSUME NEW t \in Threads, NEW p \in Pkgs, FreezeCount(t, p)
      PROVE  [Life!Next]_(Life!lifeVars)
  <2>1. Armed' = Armed
    BY <1>7 DEF FreezeCount, Armed, FreezeTimer
  <2>2. Life!Recount(p)
    BY <1>7, <2>1 DEF FreezeCount, Life!Recount
  <2> QED BY <2>2 DEF Life!Next
<1>8. ASSUME NEW p \in Pkgs, ProcDied(p) PROVE [Life!Next]_(Life!lifeVars)
  <2>1. timers' = Cancelled(pending[p])
    BY <1>8 DEF ProcDied
  <2>2. ASSUME NEW r \in Pkgs, r # p PROVE r \in Armed' <=> r \in Armed
    <3>1. \A i \in TimerIds : timers'[i] = FreezeTimer(r) <=> timers[i] = FreezeTimer(r)
      BY <2>1, <2>2 DEF Cancelled, PendingOwn, FreezeTimer, NoCallback
    <3> QED BY <3>1 DEF Armed, FreezeTimer
  <2>3. p \notin Armed'
    BY <1>0, <2>1 DEF Armed, TimerOwned, Cancelled, FreezeTimer, NoCallback
  <2>4. Armed' = Armed \ {p}
    BY <2>2, <2>3 DEF Armed
  <2>5. Life!Release(p)
    BY <1>8, <2>4 DEF ProcDied, Life!Release
  <2> QED BY <2>5 DEF Life!Next
<1>9. ASSUME NEW p \in Pkgs, SystemUnfreeze(p) PROVE [Life!Next]_(Life!lifeVars)
  <2>1. CASE state[p] = "FROZEN"
    <3>1. Armed' = Armed
      BY <1>9 DEF SystemUnfreeze, Armed, FreezeTimer
    <3>2. Life!Bounce(p)
      BY <1>9, <2>1, <3>1 DEF SystemUnfreeze, Life!Bounce
    <3> QED BY <3>2 DEF Life!Next
  <2>2. CASE state[p] # "FROZEN"
    BY <1>9, <2>2, <1>a DEF SystemUnfreeze
  <2> QED BY <2>1, <2>2
<1>10. ASSUME NEW p \in Pkgs, BounceLimitReached(p) PROVE [Life!Next]_(Life!lifeVars)
  <2>1. NewId \in TimerIds /\ timers[NewId] = NoCallback
    BY <1>10, NewIdFree DEF BounceLimitReached, FreeIds
  <2>2. timers' = [timers EXCEPT ![NewId] = [kind |-> "backoff", pkg |-> p]]
    BY <1>10 DEF BounceLimitReached
  <2>3. Armed' = Armed
    BY <2>1, <2>2 DEF Armed, FreezeTimer, NoCallback, TypeOK
  <2>4. p \notin Armed
    BY <1>0, <1>10 DEF BounceLimitReached, TimerOwned, Armed
  <2>5. Life!Release(p)
    BY <1>10, <2>3, <2>4 DEF BounceLimitReached, Life!Release
  <2> QED BY <2>5 DEF Life!Next
<1>11. ASSUME NEW q \in Procs, DispatchDied(q) \/ DispatchMove(q) \/ DispatchUnfreeze(q)
       PROVE  [Life!Next]_(Life!lifeVars)
  BY <1>11, <1>a DEF DispatchDied, DispatchMove, DispatchUnfreeze
<1>12. CASE DispatchScreen
  BY <1>12, <1>a DEF DispatchScreen
<1>13. CASE ScreenOff
  <2>1. PICK f \in ForegroundRead :
          timers' = [Cancelled(screenTimer) EXCEPT ![NewId] = [kind |-> "sweep", pkg |-> f]]
    BY <1>13 DEF ScreenOff
  <2>2. timers[NewId] = NoCallback /\ NewId \in TimerIds
    BY <1>13, NewIdFree DEF ScreenOff, FreeIds
  <2>3. \A i \in TimerIds : \A p \in Pkgs :
          timers'[i] = FreezeTimer(p) <=> i # screenTimer /\ timers[i] = FreezeTimer(p)
    <3> SUFFICES ASSUME NEW i \in TimerIds, NEW p \in Pkgs
                 PROVE  timers'[i] = FreezeTimer(p)
                          <=> i # screenTimer /\ timers[i] = FreezeTimer(p)
      OBVIOUS
    <3>1. CASE i = NewId
      <4>1. timers'[i].kind = "sweep" /\ timers[i].kind = "none"
        BY <2>1, <2>2, <3>1 DEF Cancelled, NoCallback
      <4> QED BY <4>1 DEF FreezeTimer
    <3>2. CASE i # NewId
      <4>1. timers'[i] = IF i = screenTimer THEN NoCallback ELSE timers[i]
        BY <2>1, <3>2 DEF Cancelled
      <4> QED BY <4>1 DEF FreezeTimer, NoCallback
    <3> QED BY <3>1, <3>2
  <2>4. CASE \E p \in Pkgs : screenTimer \in TimerIds /\ timers[screenTimer] = FreezeTimer(p)
    <3>1. PICK p \in Pkgs : screenTimer \in TimerIds /\ timers[screenTimer] = FreezeTimer(p)
      BY <2>4
    <3>2. ASSUME NEW r \in Pkgs, r # p PROVE r \in Armed' <=> r \in Armed
      <4>1. \A i \in TimerIds : timers'[i] = FreezeTimer(r) <=> timers[i] = FreezeTimer(r)
        BY <2>3, <3>1, <3>2 DEF FreezeTimer
      <4> QED BY <4>1 DEF Armed, FreezeTimer
    <3>3. p \in Armed /\ p \notin Armed'
      <4>1. \A i \in TimerIds : timers'[i] # FreezeTimer(p)
        BY <1>0, <2>3, <3>1 DEF TimerOwned
      <4> QED BY <3>1, <4>1 DEF Armed, FreezeTimer
    <3>4. Life!Disarm(p)
      <4>1. Armed' = Armed \ {p}
        BY <3>2, <3>3 DEF Armed
      <4> QED BY <1>13, <3>3, <4>1 DEF ScreenOff, Life!Disarm
    <3> QED BY <3>4 DEF Life!Next
  <2>5. CASE ~ \E p \in Pkgs : screenTimer \in TimerIds /\ timers[screenTimer] = FreezeTimer(p)
    <3>1. \A i \in TimerIds, p \in Pkgs :
            timers'[i] = FreezeTimer(p) <=> timers[i] = FreezeTimer(p)
      BY <2>3, <2>5
    <3> QED BY <1>13, <3>1, LifeStutter DEF ScreenOff
  <2> QED BY <2>4, <2>5
<1>14. CASE ScreenOn
  BY <1>0, <1>14, LifeCancel DEF ScreenOn
<1>15. ASSUME NEW p \in Pkgs,
              FreezeCallback(p) \/ PollBackground(p) \/ PollForeground(p) \/ Poll(p)
       PROVE  [Life!Next]_(Life!lifeVars)
  BY <1>15, <1>a DEF FreezeCallback, PollBackground, PollForeground, Poll
<1>16. ASSUME NEW p \in Pkgs, SweepNext(p) \/ SweepLast(p) PROVE [Life!Next]_(Life!lifeVars)
  <2>1. CASE p \in exempt
    BY <1>16, <2>1, <1>a DEF SweepNext, SweepLast, SweepVisit
  <2>2. CASE p \notin exempt
    BY <1>0, <1>16, <2>2, LifeCancel DEF SweepNext, SweepLast, SweepVisit
  <2> QED BY <2>1, <2>2
<1>17. CASE SweepStart \/ SweepEnd \/ EnterDeepSleep \/ FireDeepSleep \/ FireGuard
            \/ \E answered \in BOOLEAN : FreezerCheck(answered)
  BY <1>17, <1>a DEF SweepStart, SweepEnd, EnterDeepSleep, FireDeepSleep, FireGuard,
    FreezerCheck
<1>18. ASSUME NEW i \in TimerIds, Fire(i) PROVE [Life!Next]_(Life!lifeVars)
  BY <1>0, <1>18, LifeCancel DEF Fire, FireSweep, FireFreeze, FireBackoff, Take
<1>19. CASE EnvStep
  <2>1. CASE Restart
    <3>1. Armed' = {}
      BY <2>1 DEF Restart, Armed, FreezeTimer, NoCallback
    <3>2. Life!Forget
      BY <2>1, <3>1 DEF Restart, Life!Forget
    <3> QED BY <3>2 DEF Life!Next
  <2>2. CASE ~Restart
    <3>1. UNCHANGED <<state, bounce, timers>>
      BY <1>19, <2>2 DEF EnvStep, ProcStarts, ProcExits, ThreadExits, SystemThaw,
        SystemMigrates, TopAppChanges, ScreenToggles, EditWhitelist, EditRestrict,
        FreezerReenabled, daemonVars
    <3> QED BY <3>1, <1>a
  <2> QED BY <2>1, <2>2
<1>20. CASE UNCHANGED vars
  BY <1>20, <1>a DEF vars
<1> QED
  BY <1>1, <1>2, <1>3, <1>4, <1>5, <1>6, <1>7, <1>8, <1>9, <1>10, <1>11, <1>12, <1>13,
     <1>14, <1>15, <1>16, <1>17, <1>18, <1>19, <1>20
  DEF Next, BpfStep, WorkerStep, TimerStep, HandlerStep, Threads, Bpf, Tmr

\* The engine implements AppLifecycle, with the shipped loader, which attaches no probe
\* that emits background events.
THEOREM RecordsFollowLifecycle ==
  ASSUME "bg" \notin Emits
  PROVE  Spec => ImplementsLifecycle
<1>1. Init => TypeOK /\ TimerInv /\ PendingOwn
  BY TypeInit, TimerInit, TimersAssumption DEF Init, PendingOwn
<1>2. TypeOK /\ TimerInv /\ PendingOwn /\ [Next]_vars =>
        TypeOK' /\ TimerInv' /\ PendingOwn' /\ [Life!Next]_(Life!lifeVars)
  BY TypeNext, TimerNext, PendingNext, LifecycleNext
<1>3. Init => Life!Init
  <2> SUFFICES ASSUME Init PROVE Life!Init
    OBVIOUS
  <2>1. Armed = {}
    BY DEF Init, Armed, FreezeTimer, NoCallback
  <2> QED BY <2>1 DEF Init, Life!Init
<1> QED BY <1>1, <1>2, <1>3, PTL DEF Spec, ImplementsLifecycle, Life!Lifecycle

(***************************************************************************)
(* Delayed freezes                                                          *)
(***************************************************************************)
\* The worker, with the mutex, freezes an app that still waits.
DelayInv ==
  owner = Tmr /\ pc[Tmr] \in {"df_check", "df_move", "df_mark"} =>
    arg[Tmr] \in Pkgs /\ state[arg[Tmr]] = "PENDING_BG"

LockedDelay == LockInv /\ DelayInv

\* A thread without the mutex goes on without it; only the worker, to the sweep's freeze.
LEMMA UnlockedMove ==
  ASSUME TypeOK, LockedDelay, NEW t \in Threads, owner # t,
         UNCHANGED <<state, owner>>,
         \A u \in Threads \ {t} : pc'[u] = pc[u] /\ arg'[u] = arg[u],
         pc'[t] \notin Locked,
         t = Bpf => pc'[t] \notin Freezing
  PROVE  LockedDelay'
  BY DEF LockedDelay, LockInv, DelayInv, Threads, Bpf, Tmr

\* A thread that has the mutex keeps it or gives it back.
LEMMA LockedMove ==
  ASSUME TypeOK, LockedDelay, NEW t \in Threads, owner = t,
         \A u \in Threads \ {t} : pc'[u] = pc[u] /\ arg'[u] = arg[u],
         \/ owner' = NoThread /\ pc'[t] \notin Locked \cup Freezing
         \/ /\ owner' = t /\ pc'[t] \in Locked \cup Freezing
            /\ pc'[t] \in {"df_check", "df_move", "df_mark"} =>
                 /\ pc[t] \in {"df_check", "df_move", "df_mark"}
                 /\ UNCHANGED <<arg, state>>
  PROVE  LockedDelay'
  BY ThreadAssumption DEF LockedDelay, LockInv, DelayInv, Threads, Bpf, Tmr

\* A thread that waits gets the free mutex, or goes on without.
LEMMA WaitingMove ==
  ASSUME TypeOK, LockedDelay, NEW t \in Threads, Free, pc[t] \in Waiting,
         \A u \in Threads \ {t} : pc'[u] = pc[u] /\ arg'[u] = arg[u],
         \/ owner' = NoThread /\ pc'[t] \notin Locked \cup Freezing
         \/ /\ owner' = t /\ pc'[t] \in Locked \cup Freezing
            /\ t = Tmr /\ pc'[t] \in Freezing =>
                 arg'[t] \in Pkgs /\ state'[arg'[t]] = "PENDING_BG"
  PROVE  LockedDelay'
  BY ThreadAssumption DEF LockedDelay, LockInv, DelayInv, Threads, Bpf, Tmr, Free,
    Waiting, Freezing, Locked

LEMMA DelayNext ==
  TypeOK /\ LockedDelay /\ [Next]_vars => LockedDelay'
<1> SUFFICES ASSUME TypeOK, LockedDelay, [Next]_vars PROVE LockedDelay'
  OBVIOUS
<1>0. \A t \in Threads :
        /\ pc[t] \in Locked => owner = t
        /\ owner = t => pc[t] \in Locked \cup Freezing
        /\ t = Bpf /\ pc[t] \in Freezing => owner = t
  BY DEF LockedDelay, LockInv
<1>1. ASSUME NEW t \in Threads, NEW p \in Pkgs,
             \/ UnfreezeMove(t, p) \/ UnfreezeMark(t, p) \/ UnfreezeSide(t, p)
             \/ BackgroundArm(t, p)
      PROVE  LockedDelay'
  <2>1. owner = t
    BY <1>0, <1>1 DEF UnfreezeMove, UnfreezeMark, UnfreezeSide, BackgroundArm, At, Locked
  <2>2. CASE UnfreezeMove(t, p) \/ UnfreezeMark(t, p)
    BY <2>1, <2>2, LockedMove DEF TypeOK, UnfreezeMove, UnfreezeMark, Goto, Locked, Freezing
  <2>3. CASE UnfreezeSide(t, p) \/ BackgroundArm(t, p)
    BY <2>1, <2>3, LeaveShape, LockedMove
    DEF UnfreezeSide, BackgroundArm, Release, Locked, Freezing
  <2> QED BY <1>1, <2>2, <2>3
<1>2. ASSUME NEW t \in Threads, NEW p \in Pkgs, Foreground(t, p) \/ Background(t, p)
      PROVE  LockedDelay'
  <2>1. Free /\ pc[t] \in Waiting
    BY <1>2 DEF Foreground, Background, At, Waiting
  <2>2. CASE Leave(t) /\ UNCHANGED owner
    BY <2>1, <2>2, LeaveShape, WaitingMove DEF Free, Locked, Freezing
  <2>3. CASE Acquire(t) /\ \E l \in {"uf_move", "bg_arm"} : Goto(t, l) /\ UNCHANGED arg
    BY <2>1, <2>3, WaitingMove DEF TypeOK, Acquire, Goto, Locked, Freezing
  <2> QED BY <1>2, <2>2, <2>3 DEF Foreground, Background
<1>3. ASSUME NEW t \in Threads, NEW p \in Pkgs,
             \/ FreezeCheck(t, p) \/ FreezeMove(t, p) \/ FreezeMark(t, p)
             \/ FreezeCount(t, p) \/ FreezeSide(t, p)
      PROVE  LockedDelay'
  <2>1. At(t, "df_mark", p) \/ UNCHANGED state
    BY <1>3 DEF FreezeCheck, FreezeMove, FreezeMark, FreezeCount, FreezeSide, appVars
  <2>2. \/ Return(t) /\ UNCHANGED state
        \/ /\ UNCHANGED <<arg, owner>>
           /\ \E l \in {"df_move", "df_mark"} : Goto(t, l) /\ UNCHANGED state
           /\ pc[t] \in {"df_check", "df_move"}
        \/ UNCHANGED <<arg, owner>> /\ \E l \in {"df_count", "df_side"} : Goto(t, l)
    BY <1>3 DEF FreezeCheck, FreezeMove, FreezeMark, FreezeCount, FreezeSide, appVars, At
  <2>3. \A u \in Threads \ {t} : pc'[u] = pc[u] /\ arg'[u] = arg[u]
    BY <2>2, ReturnShape DEF TypeOK, Goto
  <2>4. CASE owner = t
    BY <2>2, <2>3, <2>4, ReturnShape, LockedMove DEF TypeOK, Goto, Locked, Freezing
  <2>5. CASE owner # t
    <3>1. t = Tmr /\ pc[t] \in Freezing
      BY <1>0, <1>3, <2>5
      DEF FreezeCheck, FreezeMove, FreezeMark, FreezeCount, FreezeSide, At, Freezing,
        Threads
    <3>2. owner' = owner /\ pc'[t] \notin Locked
      BY <2>2, <2>5, ReturnShape DEF TypeOK, Goto, Locked
    <3> QED BY <1>0, <2>3, <2>5, <3>1, <3>2, ThreadAssumption
        DEF LockedDelay, LockInv, DelayInv, Threads, Bpf, Tmr
  <2> QED BY <2>4, <2>5
<1>4. ASSUME NEW p \in Pkgs, FreezeCallback(p) PROVE LockedDelay'
  <2>1. Free /\ pc[Tmr] \in Waiting /\ arg[Tmr] = p /\ Tmr \in Threads /\ state' = state
    BY <1>4 DEF FreezeCallback, At, Waiting, Threads, appVars
  <2>2. CASE Leave(Tmr) /\ UNCHANGED owner
    BY <2>1, <2>2, LeaveShape, WaitingMove DEF Free, Locked, Freezing
  <2>3. CASE /\ Acquire(Tmr) /\ Goto(Tmr, "df_check") /\ UNCHANGED arg
             /\ state[p] = "PENDING_BG"
    BY <2>1, <2>3, WaitingMove DEF TypeOK, Acquire, Goto, Locked, Freezing
  <2> QED BY <1>4, <2>2, <2>3 DEF FreezeCallback
<1>5. ASSUME NEW p \in Pkgs, SystemUnfreeze(p) PROVE LockedDelay'
  <2>1. Free /\ pc[Bpf] \in Waiting /\ Bpf \in Threads
    BY <1>5 DEF SystemUnfreeze, At, Waiting, Threads
  <2>2. CASE Leave(Bpf) /\ UNCHANGED owner
    BY <2>1, <2>2, LeaveShape, WaitingMove DEF Free, Locked, Freezing
  <2>3. CASE Acquire(Bpf) /\ Goto(Bpf, "df_check") /\ UNCHANGED arg
    BY <2>1, <2>3, WaitingMove DEF TypeOK, Acquire, Goto, Locked, Freezing, Bpf, Tmr
  <2> QED BY <1>5, <2>2, <2>3 DEF SystemUnfreeze
<1>6. CASE ScreenOff \/ ScreenOn \/ \E p \in Pkgs : ProcDied(p) \/ BounceLimitReached(p)
  <2>1. Free /\ pc[Bpf] \in Waiting /\ Bpf \in Threads /\ Leave(Bpf) /\ UNCHANGED owner
    BY <1>6 DEF ScreenOff, ScreenOn, ProcDied, BounceLimitReached, At, Waiting, Threads
  <2> QED BY <2>1, LeaveShape, WaitingMove DEF Free, Locked, Freezing
<1>7. CASE \/ \E q \in Procs : DispatchDied(q) \/ DispatchMove(q) \/ DispatchUnfreeze(q)
           \/ DispatchScreen
  <2>1. /\ pc[Bpf] = "idle" /\ UNCHANGED <<state, owner>> /\ Bpf \in Threads
        /\ \/ \E l \in Waiting : Goto(Bpf, l) /\ arg'[Tmr] = arg[Tmr]
           \/ UNCHANGED <<pc, arg>>
    BY <1>7 DEF TypeOK, DispatchDied, DispatchMove, DispatchUnfreeze, DispatchScreen, Receive,
      Enter, Waiting, Threads, appVars, Bpf, Tmr
  <2>2. owner # Bpf
    BY <1>0, <2>1 DEF Locked, Freezing
  <2>3. /\ pc'[Bpf] \notin Locked \cup Freezing
        /\ \A u \in Threads \ {Bpf} : pc'[u] = pc[u] /\ arg'[u] = arg[u]
    BY <2>1 DEF TypeOK, Goto, Waiting, Locked, Freezing, Threads, Bpf, Tmr
  <2> QED BY <2>1, <2>2, <2>3, UnlockedMove
<1>8. CASE \/ \E p \in Pkgs : \/ SweepNext(p) \/ SweepLast(p)
                             \/ PollBackground(p) \/ PollForeground(p) \/ Poll(p)
           \/ SweepStart \/ SweepEnd \/ EnterDeepSleep \/ FireDeepSleep \/ FireGuard
           \/ (\E answered \in BOOLEAN : FreezerCheck(answered))
           \/ \E i \in TimerIds : Fire(i)
  <2>1. /\ pc[Tmr] \in Outside \cup {"gd_wait"} /\ UNCHANGED <<state, owner>>
        /\ \/ \E l \in Labels \ Locked : Goto(Tmr, l)
           \/ UNCHANGED pc
        /\ arg'[Bpf] = arg[Bpf]
    BY <1>8 DEF TypeOK, SweepNext, SweepLast, SweepVisit, PollBackground, PollForeground, Poll,
      SweepStart, SweepEnd, EnterDeepSleep, FireDeepSleep, FireGuard, FreezerCheck, Fire,
      FireSweep, FireFreeze, FireBackoff, WorkerFree, Enter, At, Outside, Labels, Locked,
      Waiting, Freezing, Threads, appVars, Bpf, Tmr
  <2>2. owner # Tmr /\ Tmr \in Threads
    BY <1>0, <2>1 DEF Locked, Freezing, Outside, Threads
  <2>3. /\ pc'[Tmr] \notin Locked
        /\ \A u \in Threads \ {Tmr} : pc'[u] = pc[u] /\ arg'[u] = arg[u]
    BY <2>1 DEF TypeOK, Goto, Outside, Locked, Threads, Bpf, Tmr
  <2> QED BY <2>1, <2>2, <2>3, UnlockedMove DEF Bpf, Tmr
<1>9. CASE EnvStep
  <2>1. CASE Restart
    BY <2>1, ThreadAssumption DEF Restart, LockedDelay, LockInv, DelayInv, Locked, Freezing,
      Threads, Bpf, Tmr
  <2>2. CASE ~Restart
    <3>1. UNCHANGED <<state, owner, pc, arg>>
      BY <1>9, <2>2 DEF EnvStep, ProcStarts, ProcExits, ThreadExits, SystemThaw,
        SystemMigrates, TopAppChanges, ScreenToggles, EditWhitelist, EditRestrict,
        FreezerReenabled, daemonVars, appVars
    <3> QED BY <3>1 DEF LockedDelay, LockInv, DelayInv
  <2> QED BY <2>1, <2>2
<1>10. CASE UNCHANGED vars
  BY <1>10 DEF vars, appVars, LockedDelay, LockInv, DelayInv
<1> QED
  BY <1>1, <1>2, <1>3, <1>4, <1>5, <1>6, <1>7, <1>8, <1>9, <1>10
  DEF Next, BpfStep, WorkerStep, TimerStep, HandlerStep, Threads, Bpf, Tmr

\* A freeze under the mutex finds its app waiting.
LEMMA DelayStep ==
  TypeOK /\ LockedDelay /\ [Next]_vars =>
    [\A p \in Pkgs :
       owner = Tmr /\ state[p] # "FROZEN" /\ state'[p] = "FROZEN"
         => state[p] = "PENDING_BG"]_vars
<1> SUFFICES ASSUME TypeOK, LockedDelay, Next, NEW p \in Pkgs,
                    owner = Tmr, state[p] # "FROZEN", state'[p] = "FROZEN"
             PROVE  state[p] = "PENDING_BG"
  BY DEF vars, appVars
<1>1. PICK t \in Threads, r \in Pkgs : FreezeMark(t, r)
  <2>1. ASSUME NEW t \in Threads, NEW r \in Pkgs,
               Foreground(t, r) \/ UnfreezeMove(t, r) \/ UnfreezeMark(t, r)
                 \/ UnfreezeSide(t, r) \/ Background(t, r) \/ BackgroundArm(t, r)
                 \/ FreezeCheck(t, r) \/ FreezeMove(t, r) \/ FreezeCount(t, r)
                 \/ FreezeSide(t, r) \/ ProcDied(r) \/ BounceLimitReached(r)
                 \/ SystemUnfreeze(r)
        PROVE  FALSE
    BY <2>1 DEF TypeOK, appVars, Foreground, UnfreezeMove, UnfreezeMark, UnfreezeSide,
      Background, BackgroundArm, FreezeCheck, FreezeMove, FreezeCount, FreezeSide, ProcDied,
      BounceLimitReached, SystemUnfreeze
  <2>2. CASE \/ \E q \in Procs : DispatchDied(q) \/ DispatchMove(q) \/ DispatchUnfreeze(q)
             \/ DispatchScreen \/ ScreenOff \/ ScreenOn
    BY <2>2 DEF appVars, DispatchDied, DispatchMove, DispatchUnfreeze, DispatchScreen,
      ScreenOff, ScreenOn
  <2>3. CASE \/ \E r \in Pkgs : \/ FreezeCallback(r) \/ SweepNext(r) \/ SweepLast(r)
                               \/ PollBackground(r) \/ PollForeground(r)
             \/ SweepStart \/ SweepEnd \/ EnterDeepSleep
             \/ (\E answered \in BOOLEAN : FreezerCheck(answered))
             \/ TimerStep
    BY <2>3 DEF appVars, FreezeCallback, SweepNext, SweepLast, SweepVisit, PollBackground,
      PollForeground, SweepStart, SweepEnd, EnterDeepSleep, FreezerCheck, TimerStep, Poll,
      FireDeepSleep, FireGuard, Fire, FireSweep, FireFreeze, FireBackoff
  <2>4. CASE EnvStep
    BY <2>4 DEF appVars, EnvStep, ProcStarts, ProcExits, ThreadExits, SystemThaw,
      SystemMigrates, TopAppChanges, ScreenToggles, EditWhitelist, EditRestrict,
      FreezerReenabled, Restart, daemonVars
  <2> QED BY <2>1, <2>2, <2>3, <2>4 DEF Next, BpfStep, WorkerStep, HandlerStep, Threads, Bpf, Tmr
<1>2. r = p /\ pc[t] = "df_mark" /\ arg[t] = p
  BY <1>1 DEF TypeOK, FreezeMark, At
<1>3. t = Tmr
  BY <1>2 DEF LockedDelay, LockInv, Freezing, Threads, Bpf, Tmr
<1> QED BY <1>2, <1>3 DEF LockedDelay, DelayInv

\* Whatever events are emitted: the delayed freeze, which waited for the mutex, hits only
\* an app that is still to be frozen (freeze_engine.h:201).
THEOREM DelayedFreezeHits == Spec => DelayedFreezeFromPending
<1>1. Init => LockedDelay
  BY ThreadAssumption DEF Init, LockedDelay, LockInv, DelayInv, Locked, Freezing, Threads,
    Bpf, Tmr
<1> QED BY <1>1, TypeInit, TypeNext, DelayNext, DelayStep, PTL DEF Spec, DelayedFreezeFromPending

\* The mutex does what it is for: while the eBPF thread is in a handler's locked part, the
\* worker is in none but the sweep's do_freeze; and who has it never asks for it again,
\* which a std::mutex would not survive (freeze_engine.h:54: every public
\* operation takes it).
THEOREM OneAtATime ==
  Spec => [](/\ ~(pc[Bpf] \in Locked \cup Freezing /\ pc[Tmr] \in Locked)
             /\ \A t \in Threads : owner = t => pc[t] \notin Waiting)
<1>1. Init => LockedDelay
  BY ThreadAssumption DEF Init, LockedDelay, LockInv, DelayInv, Locked, Freezing, Threads,
    Bpf, Tmr
<1>2. LockedDelay =>
        /\ ~(pc[Bpf] \in Locked \cup Freezing /\ pc[Tmr] \in Locked)
        /\ \A t \in Threads : owner = t => pc[t] \notin Waiting
  BY DEF LockedDelay, LockInv, Locked, Freezing, Waiting, Threads, Bpf, Tmr
<1> QED BY <1>1, <1>2, TypeInit, TypeNext, DelayNext, PTL DEF Spec

(***************************************************************************)
(* Handlers end                                                             *)
(***************************************************************************)
\* The number of steps of every label.
LEMMA StepsTable ==
  /\ \A l \in {"idle", "poll_fg", "sw_start", "sw_next"} : StepsFrom(l) = 0
  /\ \A l \in {"uf_side", "bg_arm", "df_side", "ds_enter", "gd_wait", "off_wait",
              "on_wait", "died_wait"} : StepsFrom(l) = 1
  /\ \A l \in {"uf_mark", "bg_wait", "df_count"} : StepsFrom(l) = 2
  /\ \A l \in {"uf_move", "df_mark", "poll_bg"} : StepsFrom(l) = 3
  /\ \A l \in {"fg_wait", "df_move"} : StepsFrom(l) = 4
  /\ StepsFrom("df_check") = 5
  /\ \A l \in {"cb_wait", "unfreeze_wait"} : StepsFrom(l) = 6
  BY DEF StepsFrom

LEMMA StepsType == \A l \in Labels : StepsFrom(l) \in Nat
  BY StepsTable DEF Labels, Waiting, Freezing, Locked, Outside

\* The screen-off sweep and the poll have finitely many packages before them.
LEMMA LeftType ==
  ASSUME TypeOK, IsFiniteSet(Pkgs)
  PROVE  VisitsLeft \in Nat /\ SweepLeft \in Nat /\ PollLeft \in {0, 5}
         /\ Cardinality(Pkgs) \in Nat /\ Cardinality(todo) \in Nat
<1>1. IsFiniteSet(todo)
  BY FS_Subset DEF TypeOK
<1>2. Cardinality(todo) \in Nat /\ Cardinality(Pkgs) \in Nat
  BY <1>1, FS_CardinalityType
<1> QED BY <1>2 DEF VisitsLeft, SweepLeft, PollLeft

\* Where the poll's and the sweep's own labels are: with the worker, and the poll's while
\* a package is still to be reported.
PlaceInv ==
  /\ pc[Bpf] \notin {"poll_bg", "poll_fg", "sw_start", "sw_next"}
  /\ pc[Tmr] \in {"poll_bg", "poll_fg"} => pollNext # NoPkg

\* Back in the loop, nothing but the rest of a poll is left.
LEMMA LeftLeave ==
  ASSUME TypeOK, IsFiniteSet(Pkgs), PlaceInv, NEW t \in Threads, Leave(t), UNCHANGED pollNext,
         StepsFrom(pc[t]) \in Nat \ {0}
  PROVE  Left(t)' < Left(t) /\ PlaceInv'
<1>1. pc'[t] = IF t = Tmr /\ pollNext # NoPkg THEN "poll_fg" ELSE "idle"
  BY DEF TypeOK, Leave, Enter, Goto
<1>2. StepsFrom(pc'[t]) = 0
  BY <1>1, StepsTable
<1>3. t = Tmr => SweepLeft' = 0 /\ PollLeft' = PollLeft
  BY <1>1 DEF SweepLeft, InSweep, PollLeft, Freezing
<1>4. PlaceInv'
  BY <1>1, LeaveShape DEF PlaceInv, Threads, Bpf, Tmr
<1> HIDE DEF PlaceInv
<1> QED BY <1>2, <1>3, <1>4, LeftType DEF Left

\* One step further in a handler.
LEMMA LeftGoto ==
  ASSUME TypeOK, IsFiniteSet(Pkgs), PlaceInv, NEW t \in Threads, NEW l \in Labels,
         Goto(t, l), UNCHANGED sweepVars,
         StepsFrom(pc[t]) \in Nat, StepsFrom(l) < StepsFrom(pc[t]), StepsFrom(l) > 0,
         l \in Freezing => owner' = t \/ (pc[t] \in Freezing /\ UNCHANGED owner),
         l \in {"poll_bg"} => pc[t] = "poll_bg"
  PROVE  Left(t)' < Left(t) /\ PlaceInv'
<1>1. pc'[t] = l /\ \A u \in Threads \ {t} : pc'[u] = pc[u]
  BY DEF TypeOK, Goto
<1>2. l \notin {"poll_fg", "sw_start", "sw_next"} /\ StepsFrom(l) \in Nat
  BY StepsTable, StepsType
<1>3. t = Tmr => SweepLeft' <= SweepLeft /\ SweepLeft' \in Nat /\ PollLeft' = PollLeft
  <2> SUFFICES ASSUME t = Tmr
               PROVE  SweepLeft' <= SweepLeft /\ SweepLeft' \in Nat /\ PollLeft' = PollLeft
    OBVIOUS
  <2>1. PollLeft' = PollLeft
    BY DEF PollLeft, sweepVars
  <2>2. CASE ~InSweep'
    <3>1. SweepLeft' = 0
      BY <1>1, <1>2, <2>2 DEF SweepLeft
    <3> QED BY <2>1, <3>1, LeftType
  <2>3. CASE InSweep'
    <3>1. l \in Freezing /\ owner' # Tmr
      BY <1>1, <1>2, <2>3 DEF InSweep
    <3>2. pc[Tmr] \in Freezing /\ owner # Tmr
      BY <3>1
    <3>3. SweepLeft' = SweepLeft
      BY <1>1, <1>2, <2>3, <3>2 DEF SweepLeft, InSweep, VisitsLeft, sweepVars, Freezing
    <3> QED BY <2>1, <3>3, LeftType
  <2> QED BY <2>2, <2>3
<1>4. PlaceInv'
  BY <1>1, <1>2 DEF PlaceInv, sweepVars, Threads, Bpf, Tmr
<1> HIDE DEF PlaceInv
<1> QED BY <1>1, <1>2, <1>3, <1>4, LeftType DEF Left

\* The end of do_freeze: under the mutex that of the handler, without it that of a visit.
LEMMA LeftReturn ==
  ASSUME TypeOK, IsFiniteSet(Pkgs), PlaceInv, LockInv, NEW t \in Threads, Return(t),
         UNCHANGED sweepVars, pc[t] \in Freezing
  PROVE  Left(t)' < Left(t) /\ PlaceInv'
<1>1. StepsFrom(pc[t]) \in Nat \ {0}
  BY StepsTable DEF Freezing
<1>2. CASE owner = t
  BY <1>1, <1>2, LeftLeave DEF Return, Release, sweepVars
<1>3. CASE owner # t
  <2>1. t = Tmr /\ pc' = [pc EXCEPT ![Tmr] = "sw_next"]
    BY <1>3 DEF LockInv, Return, Enter, Goto, Threads, Bpf, Tmr
  <2>2. pc'[Tmr] = "sw_next" /\ pc'[Bpf] = pc[Bpf] /\ StepsFrom(pc'[Tmr]) = 0
    BY <2>1, StepsTable DEF TypeOK, Threads, Bpf, Tmr
  <2>3. SweepLeft' = SweepLeft /\ PollLeft' = PollLeft
    BY <1>3, <2>1, <2>2 DEF SweepLeft, InSweep, VisitsLeft, PollLeft, sweepVars, Freezing
  <2>4. PlaceInv'
    BY <2>2 DEF PlaceInv
  <2> HIDE DEF PlaceInv
  <2> QED BY <1>1, <2>1, <2>2, <2>3, <2>4, LeftType DEF Left
<1> QED BY <1>2, <1>3

\* What a thread does leaves the other where it is.
LEMMA LeftOther ==
  ASSUME TypeOK, NEW u \in Threads, pc'[u] = pc[u], arg'[u] = arg[u],
         u = Tmr => UNCHANGED sweepVars /\ (owner' = Tmr <=> owner = Tmr)
  PROVE  UNCHANGED <<pc[u], arg[u], Left(u)>>
<1>1. u = Tmr => SweepLeft' = SweepLeft /\ PollLeft' = PollLeft
  BY DEF SweepLeft, InSweep, VisitsLeft, PollLeft, sweepVars
<1>2. StepsFrom(pc'[u]) = StepsFrom(pc[u])
  OBVIOUS
<1> QED BY <1>1, <1>2 DEF Left

Shortens ==
  \A t \in Threads : pc[t] # "idle" =>
    Left(t)' < Left(t) \/ UNCHANGED <<pc[t], arg[t], Left(t)>>

\* One thread acts, from its loop or towards it; the other stays.
LEMMA LeftActor ==
  ASSUME TypeOK, NEW t \in Threads, pc[t] = "idle" \/ Left(t)' < Left(t),
         \A u \in Threads \ {t} : pc'[u] = pc[u] /\ arg'[u] = arg[u],
         t = Bpf => UNCHANGED sweepVars,
         UNCHANGED owner \/ (owner \in {t, NoThread} /\ owner' \in {t, NoThread})
  PROVE  Shortens
<1>1. ASSUME NEW u \in Threads, u # t PROVE UNCHANGED <<pc[u], arg[u], Left(u)>>
  <2>1. u = Tmr => t = Bpf /\ (owner' = Tmr <=> owner = Tmr)
    BY <1>1, ThreadAssumption DEF Threads, Bpf, Tmr
  <2>2. pc'[u] = pc[u] /\ arg'[u] = arg[u]
    BY <1>1
  <2> QED BY <2>1, <2>2, LeftOther
<1> QED BY <1>1 DEF Shortens

\* The first step of a callback or of an event's handler.
LEMMA LeftBegin ==
  ASSUME TypeOK, NEW t \in Threads, pc[t] = "idle",
         \A u \in Threads \ {t} : pc'[u] = pc[u] /\ arg'[u] = arg[u],
         t = Bpf => UNCHANGED sweepVars, UNCHANGED owner
  PROVE  Shortens
  BY LeftActor

LEMMA ShortensHandler ==
  ASSUME TypeOK, IsFiniteSet(Pkgs), LockInv, PlaceInv,
         NEW t \in Threads, NEW p \in Pkgs,
         \/ Foreground(t, p) \/ UnfreezeMove(t, p) \/ UnfreezeMark(t, p) \/ UnfreezeSide(t, p)
         \/ Background(t, p) \/ BackgroundArm(t, p)
         \/ FreezeCheck(t, p) \/ FreezeMove(t, p) \/ FreezeMark(t, p)
         \/ FreezeCount(t, p) \/ FreezeSide(t, p)
  PROVE  PlaceInv' /\ Shortens
<1>1. CASE Foreground(t, p) \/ Background(t, p)
  <2>1. /\ pc[t] \in {"fg_wait", "bg_wait"} /\ owner = NoThread /\ UNCHANGED sweepVars
        /\ StepsFrom(pc[t]) \in Nat \ {0}
    BY <1>1, StepsTable DEF Foreground, Background, At, Free
  <2>2. CASE Leave(t) /\ UNCHANGED owner
    <3>1. Left(t)' < Left(t) /\ PlaceInv'
      BY <2>1, <2>2, LeftLeave DEF sweepVars
    <3> QED BY <2>1, <2>2, <3>1, LeaveShape, LeftActor
  <2>3. CASE /\ Acquire(t) /\ UNCHANGED arg
             /\ \/ Goto(t, "uf_move") /\ pc[t] = "fg_wait"
                \/ Goto(t, "bg_arm") /\ pc[t] = "bg_wait"
    <3>1. PICK l \in {"uf_move", "bg_arm"} : Goto(t, l) /\ StepsFrom(l) < StepsFrom(pc[t])
      BY <2>3, StepsTable
    <3>2. l \in Labels /\ l \notin Freezing /\ StepsFrom(l) > 0
      BY <3>1, StepsTable DEF Labels, Locked, Freezing
    <3>3. Left(t)' < Left(t) /\ PlaceInv'
      BY <2>1, <3>1, <3>2, LeftGoto
    <3>4. \A u \in Threads \ {t} : pc'[u] = pc[u] /\ arg'[u] = arg[u]
      BY <2>3, <3>1 DEF Goto
    <3> QED BY <2>1, <2>3, <3>3, <3>4, LeftActor DEF Acquire
  <2> QED BY <1>1, <2>2, <2>3 DEF Foreground, Background, At
<1>2. CASE UnfreezeMove(t, p) \/ UnfreezeMark(t, p)
  <2>1. PICK l \in {"uf_mark", "uf_side"} : Goto(t, l) /\ StepsFrom(l) < StepsFrom(pc[t])
    BY <1>2, StepsTable DEF UnfreezeMove, UnfreezeMark, At
  <2>2. l \in Labels /\ l \notin Freezing /\ StepsFrom(l) > 0 /\ StepsFrom(pc[t]) \in Nat
    BY <1>2, StepsTable DEF Labels, Locked, Freezing, UnfreezeMove, UnfreezeMark, At
  <2>3. UNCHANGED <<owner, arg>> /\ UNCHANGED sweepVars
    BY <1>2 DEF UnfreezeMove, UnfreezeMark
  <2>4. Left(t)' < Left(t) /\ PlaceInv'
    BY <2>1, <2>2, <2>3, LeftGoto
  <2>5. \A u \in Threads \ {t} : pc'[u] = pc[u] /\ arg'[u] = arg[u]
    BY <2>1, <2>3 DEF Goto
  <2> QED BY <2>3, <2>4, <2>5, LeftActor
<1>3. CASE UnfreezeSide(t, p) \/ BackgroundArm(t, p)
  <2>1. /\ pc[t] \in {"uf_side", "bg_arm"} /\ Leave(t) /\ owner' = NoThread
        /\ UNCHANGED sweepVars
    BY <1>3 DEF UnfreezeSide, BackgroundArm, At, Release
  <2>2. StepsFrom(pc[t]) \in Nat \ {0} /\ owner = t
    BY <2>1, StepsTable DEF LockInv, Locked
  <2>3. Left(t)' < Left(t) /\ PlaceInv'
    BY <2>1, <2>2, LeftLeave DEF sweepVars
  <2> QED BY <2>1, <2>2, <2>3, LeaveShape, LeftActor
<1>4. CASE \/ FreezeCheck(t, p) \/ FreezeMove(t, p) \/ FreezeMark(t, p)
           \/ FreezeCount(t, p) \/ FreezeSide(t, p)
  <2>1. pc[t] \in Freezing /\ UNCHANGED sweepVars
    BY <1>4 DEF FreezeCheck, FreezeMove, FreezeMark, FreezeCount, FreezeSide, At, Freezing
  <2>2. CASE Return(t)
    <3>1. Left(t)' < Left(t) /\ PlaceInv'
      BY <2>1, <2>2, LeftReturn
    <3>2. UNCHANGED owner \/ (owner = t /\ owner' = NoThread)
      BY <2>2, ReturnShape
    <3>3. t = Bpf => UNCHANGED sweepVars
      BY <2>1
    <3> QED BY <2>2, <3>1, <3>2, <3>3, ReturnShape, LeftActor
  <2>3. CASE /\ UNCHANGED <<arg, owner>>
             /\ \/ Goto(t, "df_move") /\ pc[t] = "df_check"
                \/ Goto(t, "df_mark") /\ pc[t] = "df_move"
                \/ Goto(t, "df_count") /\ pc[t] = "df_mark"
                \/ Goto(t, "df_side") /\ pc[t] = "df_count"
    <3>1. PICK l \in Freezing : Goto(t, l) /\ StepsFrom(l) < StepsFrom(pc[t])
      BY <2>3, StepsTable DEF Freezing
    <3>2. /\ l \in Labels /\ l \notin {"poll_bg"}
          /\ StepsFrom(l) > 0 /\ StepsFrom(pc[t]) \in Nat
      BY <2>1, <3>1, StepsTable DEF Labels, Freezing
    <3>3. Left(t)' < Left(t) /\ PlaceInv'
      BY <2>1, <2>3, <3>1, <3>2, LeftGoto
    <3>4. \A u \in Threads \ {t} : pc'[u] = pc[u] /\ arg'[u] = arg[u]
      BY <2>3, <3>1 DEF Goto
    <3> QED BY <2>1, <2>3, <3>3, <3>4, LeftActor
  <2> QED
    BY <1>4, <2>2, <2>3 DEF FreezeCheck, FreezeMove, FreezeMark, FreezeCount, FreezeSide, At
<1> QED BY <1>1, <1>2, <1>3, <1>4

\* The callbacks of the worker, begun and to begin.
LEMMA ShortensWorker ==
  ASSUME TypeOK, IsFiniteSet(Pkgs), LockInv, PlaceInv,
         \/ \E p \in Pkgs : \/ FreezeCallback(p) \/ SweepNext(p) \/ SweepLast(p)
                           \/ PollBackground(p) \/ PollForeground(p) \/ Poll(p)
         \/ SweepStart \/ SweepEnd \/ EnterDeepSleep \/ FireDeepSleep \/ FireGuard
         \/ (\E answered \in BOOLEAN : FreezerCheck(answered))
         \/ \E i \in TimerIds : Fire(i)
  PROVE  PlaceInv' /\ Shortens
<1>0. Tmr \in Threads /\ Bpf \in Threads /\ Tmr # Bpf
  BY DEF Threads, Bpf, Tmr
<1>a. ASSUME pc'[Bpf] = pc[Bpf], arg'[Bpf] = arg[Bpf], Left(Tmr)' < Left(Tmr),
             UNCHANGED owner \/ (owner = NoThread /\ owner' = Tmr)
      PROVE  Shortens
  <2>1. \A u \in Threads \ {Tmr} : pc'[u] = pc[u] /\ arg'[u] = arg[u]
    BY <1>a DEF Threads
  <2> QED BY <1>0, <1>a, <2>1, LeftActor
<1>1. ASSUME NEW p \in Pkgs, FreezeCallback(p) PROVE PlaceInv' /\ Shortens
  <2>1. /\ pc[Tmr] = "cb_wait" /\ owner = NoThread /\ UNCHANGED sweepVars
        /\ StepsFrom(pc[Tmr]) = 6
    BY <1>1, StepsTable DEF FreezeCallback, At, Free
  <2>2. CASE Leave(Tmr) /\ UNCHANGED owner
    <3>1. Left(Tmr)' < Left(Tmr) /\ PlaceInv'
      BY <1>0, <2>1, <2>2, LeftLeave DEF sweepVars
    <3> QED BY <1>0, <1>a, <2>2, <3>1, LeaveShape
  <2>3. CASE Goto(Tmr, "df_check") /\ Acquire(Tmr) /\ UNCHANGED arg
    <3>1. "df_check" \in Labels /\ StepsFrom("df_check") = 5
      BY StepsTable DEF Labels, Freezing
    <3>2. Left(Tmr)' < Left(Tmr) /\ PlaceInv'
      BY <1>0, <2>1, <2>3, <3>1, LeftGoto DEF Acquire
    <3> QED BY <1>0, <1>a, <2>1, <2>3, <3>2 DEF Acquire, Goto
  <2> QED BY <1>1, <2>2, <2>3 DEF FreezeCallback
<1>2. ASSUME NEW p \in Pkgs, SweepNext(p) \/ SweepLast(p) PROVE PlaceInv' /\ Shortens
  <2>1. /\ pc[Tmr] = "sw_next" /\ UNCHANGED <<owner, pollNext>>
        /\ \/ UNCHANGED <<pc, arg>>
           \/ pc' = [pc EXCEPT ![Tmr] = "df_check"] /\ arg' = [arg EXCEPT ![Tmr] = p]
    BY <1>2 DEF SweepNext, SweepLast, SweepVisit, Enter, Goto
  <2>2. /\ pc'[Bpf] = pc[Bpf] /\ arg'[Bpf] = arg[Bpf]
        /\ pc'[Tmr] \in {"sw_next", "df_check"} /\ owner # Tmr
    BY <1>0, <2>1 DEF TypeOK, LockInv, Locked, Freezing
  <2>3. StepsFrom(pc[Tmr]) = 0 /\ StepsFrom(pc'[Tmr]) \in {0, 5} /\ PollLeft' = PollLeft
    BY <2>1, <2>2, StepsTable DEF PollLeft
  <2>4. VisitsLeft' = VisitsLeft - 1
    <3>1. CASE SweepNext(p)
      <4>1. todo' = todo \ {p} /\ p \in todo /\ sweepFg' = sweepFg
        BY <3>1 DEF SweepNext
      <4>2. Cardinality(todo') = Cardinality(todo) - 1
        <5>1. IsFiniteSet(todo)
          BY FS_Subset DEF TypeOK
        <5> QED BY <4>1, <5>1, FS_RemoveElement
      <4> QED BY <4>1, <4>2, LeftType DEF VisitsLeft
    <3>2. CASE SweepLast(p)
      BY <3>2, LeftType, PkgsAssumption DEF SweepLast, VisitsLeft
    <3> QED BY <1>2, <3>1, <3>2
  <2>5. SweepLeft = 1 + 6 * VisitsLeft /\ SweepLeft' = 1 + 6 * VisitsLeft'
    BY <2>1, <2>2 DEF SweepLeft, InSweep, Freezing
  <2>6. Left(Tmr)' < Left(Tmr)
    BY <2>3, <2>4, <2>5, LeftType DEF Left
  <2>7. PlaceInv'
    BY <2>2 DEF PlaceInv
  <2> QED BY <1>a, <2>1, <2>2, <2>6, <2>7
<1>3. ASSUME NEW p \in Pkgs, PollBackground(p) PROVE PlaceInv' /\ Shortens
  <2>1. /\ pc[Tmr] = "poll_bg" /\ Goto(Tmr, "bg_wait") /\ UNCHANGED <<owner, arg>>
        /\ UNCHANGED sweepVars
    BY <1>3 DEF PollBackground, At
  <2>2. "bg_wait" \in Labels \ Freezing /\ StepsFrom("bg_wait") = 2 /\ StepsFrom(pc[Tmr]) = 3
    BY <2>1, StepsTable DEF Labels, Waiting, Freezing
  <2>3. Left(Tmr)' < Left(Tmr) /\ PlaceInv'
    BY <1>0, <2>1, <2>2, LeftGoto
  <2> QED BY <1>0, <1>a, <2>1, <2>3 DEF Goto
<1>4. ASSUME NEW p \in Pkgs, PollForeground(p) PROVE PlaceInv' /\ Shortens
  <2>1. /\ pc[Tmr] = "poll_fg" /\ pc'[Tmr] = "fg_wait" /\ pollNext = p /\ pollNext' = NoPkg
        /\ pc'[Bpf] = pc[Bpf] /\ arg'[Bpf] = arg[Bpf] /\ UNCHANGED <<owner, todo, sweepFg>>
    BY <1>0, <1>4 DEF TypeOK, PollForeground, Enter, Goto
  <2>2. StepsFrom(pc[Tmr]) = 0 /\ StepsFrom(pc'[Tmr]) = 4
    BY <2>1, StepsTable
  <2>3. PollLeft = 5 /\ PollLeft' = 0 /\ SweepLeft' = 0
    BY <2>1, PkgsAssumption DEF PollLeft, SweepLeft, InSweep, Freezing
  <2>4. Left(Tmr)' < Left(Tmr)
    BY <2>2, <2>3, LeftType DEF Left
  <2>5. PlaceInv'
    BY <2>1 DEF PlaceInv
  <2> QED BY <1>a, <2>1, <2>4, <2>5
<1>5. CASE SweepStart
  <2>1. /\ pc[Tmr] = "sw_start" /\ pc'[Tmr] = "sw_next" /\ todo' = running
        /\ pc'[Bpf] = pc[Bpf] /\ arg'[Bpf] = arg[Bpf] /\ UNCHANGED <<owner, sweepFg, pollNext>>
    BY <1>0, <1>5 DEF TypeOK, SweepStart, Goto
  <2>2. StepsFrom(pc[Tmr]) = 0 /\ StepsFrom(pc'[Tmr]) = 0
    BY <2>1, StepsTable
  <2>3. Cardinality(running) \in Nat /\ Cardinality(running) <= Cardinality(Pkgs)
    BY FS_Subset, FS_CardinalityType DEF TypeOK
  <2>4. VisitsLeft' <= Cardinality(Pkgs) + 1 /\ VisitsLeft' \in Nat
    BY <2>1, <2>3, LeftType DEF VisitsLeft
  <2>5. SweepLeft = 8 + 6 * Cardinality(Pkgs) /\ SweepLeft' = 1 + 6 * VisitsLeft'
    BY <2>1 DEF SweepLeft, InSweep
  <2>6. PollLeft' = PollLeft
    BY <2>1 DEF PollLeft
  <2>7. Left(Tmr)' < Left(Tmr)
    BY <2>2, <2>4, <2>5, <2>6, LeftType DEF Left
  <2>8. PlaceInv'
    BY <2>1 DEF PlaceInv
  <2> QED BY <1>a, <2>1, <2>7, <2>8
<1>6. CASE SweepEnd \/ EnterDeepSleep \/ \E answered \in BOOLEAN : FreezerCheck(answered)
  <2>1. /\ pc[Tmr] \in {"sw_next", "ds_enter", "gd_wait"} /\ pc'[Tmr] = "idle"
        /\ pc'[Bpf] = pc[Bpf] /\ arg'[Bpf] = arg[Bpf] /\ UNCHANGED <<owner, pollNext>>
    BY <1>0, <1>6 DEF TypeOK, SweepEnd, EnterDeepSleep, FreezerCheck, Goto, sweepVars
  <2>2. SweepLeft' = 0 /\ PollLeft' = PollLeft /\ StepsFrom(pc'[Tmr]) = 0
    BY <2>1, StepsTable DEF SweepLeft, InSweep, PollLeft, Freezing
  <2>3. Left(Tmr)' < Left(Tmr)
    <3>1. CASE pc[Tmr] = "sw_next"
      <4>1. SweepLeft > 0 /\ StepsFrom(pc[Tmr]) = 0
        BY <3>1, StepsTable, LeftType DEF SweepLeft, InSweep
      <4> QED BY <2>2, <4>1, LeftType DEF Left
    <3>2. CASE pc[Tmr] # "sw_next"
      <4>1. StepsFrom(pc[Tmr]) = 1
        BY <2>1, <3>2, StepsTable
      <4> QED BY <2>2, <4>1, LeftType DEF Left
    <3> QED BY <3>1, <3>2
  <2>4. PlaceInv'
    BY <2>1 DEF PlaceInv
  <2> QED BY <1>a, <2>1, <2>3, <2>4
<1>7. CASE FireDeepSleep \/ FireGuard \/ (\E i \in TimerIds : Fire(i)) \/ \E p \in Pkgs : Poll(p)
  <2>1. /\ pc[Tmr] = "idle" /\ pc'[Bpf] = pc[Bpf] /\ arg'[Bpf] = arg[Bpf] /\ UNCHANGED owner
        /\ pc'[Tmr] \in {"poll_bg", "poll_fg"} => pollNext' # NoPkg
    BY <1>0, <1>7, PkgsAssumption DEF TypeOK, FireDeepSleep, FireGuard, Fire, FireSweep,
      FireFreeze, FireBackoff, Poll, WorkerFree, Enter, Goto
  <2>2. \A u \in Threads \ {Tmr} : pc'[u] = pc[u] /\ arg'[u] = arg[u]
    BY <2>1 DEF Threads
  <2>3. Shortens
    BY <1>0, <2>1, <2>2, LeftBegin
  <2> QED BY <2>1, <2>3 DEF PlaceInv
<1> QED BY <1>1, <1>2, <1>3, <1>4, <1>5, <1>6, <1>7

\* The steps only the eBPF thread takes.
LEMMA ShortensBpf ==
  ASSUME TypeOK, IsFiniteSet(Pkgs), LockInv, PlaceInv,
         \/ \E p \in Pkgs : ProcDied(p) \/ SystemUnfreeze(p) \/ BounceLimitReached(p)
         \/ \E q \in Procs : DispatchDied(q) \/ DispatchMove(q) \/ DispatchUnfreeze(q)
         \/ DispatchScreen \/ ScreenOff \/ ScreenOn
  PROVE  PlaceInv' /\ Shortens
<1>0. Tmr \in Threads /\ Bpf \in Threads /\ Tmr # Bpf
  BY DEF Threads, Bpf, Tmr
<1>1. CASE \/ ScreenOff \/ ScreenOn
           \/ \E p \in Pkgs : ProcDied(p) \/ BounceLimitReached(p)
           \/ \E p \in Pkgs : SystemUnfreeze(p) /\ Leave(Bpf)
  <2>1. /\ pc[Bpf] \in {"off_wait", "on_wait", "died_wait", "unfreeze_wait"}
        /\ Leave(Bpf) /\ UNCHANGED sweepVars
        /\ UNCHANGED owner
    <3>1. CASE ScreenOff \/ ScreenOn \/ \E p \in Pkgs : ProcDied(p) \/ BounceLimitReached(p)
      BY <3>1 DEF ScreenOff, ScreenOn, ProcDied, BounceLimitReached, At
    <3>2. ASSUME NEW p \in Pkgs, SystemUnfreeze(p), Leave(Bpf)
          PROVE  pc[Bpf] = "unfreeze_wait" /\ UNCHANGED sweepVars /\ UNCHANGED owner
      <4>1. pc[Bpf] = "unfreeze_wait" /\ UNCHANGED sweepVars
        BY <3>2 DEF SystemUnfreeze, At
      <4>2. pc'[Bpf] # "df_check"
        BY <1>0, <3>2, LeaveShape
      <4>3. ~Goto(Bpf, "df_check")
        BY <1>0, <4>2 DEF TypeOK, Goto
      <4> QED BY <3>2, <4>1, <4>3 DEF SystemUnfreeze
    <3> QED BY <1>1, <3>1, <3>2
  <2>2. StepsFrom(pc[Bpf]) \in Nat \ {0}
    BY <2>1, StepsTable
  <2>3. Left(Bpf)' < Left(Bpf) /\ PlaceInv'
    BY <1>0, <2>1, <2>2, LeftLeave DEF sweepVars
  <2> HIDE DEF PlaceInv
  <2> QED BY <1>0, <2>1, <2>3, LeaveShape, LeftActor
<1>2. CASE \E p \in Pkgs : SystemUnfreeze(p) /\ Goto(Bpf, "df_check") /\ Acquire(Bpf)
  <2>1. /\ pc[Bpf] = "unfreeze_wait" /\ Goto(Bpf, "df_check") /\ UNCHANGED sweepVars
        /\ owner = NoThread /\ owner' = Bpf
    BY <1>2 DEF SystemUnfreeze, At, Free, Acquire
  <2>2. StepsFrom(pc[Bpf]) = 6 /\ StepsFrom("df_check") = 5 /\ "df_check" \in Labels
    BY <2>1, StepsTable DEF Labels, Freezing
  <2>3. Left(Bpf)' < Left(Bpf) /\ PlaceInv'
    BY <1>0, <2>1, <2>2, LeftGoto
  <2>4. arg' = arg \/ Leave(Bpf)
    BY <1>2 DEF SystemUnfreeze
  <2>5. \A u \in Threads \ {Bpf} : pc'[u] = pc[u] /\ arg'[u] = arg[u]
    BY <1>0, <2>1, <2>4, LeaveShape DEF Goto
  <2> QED BY <1>0, <2>1, <2>3, <2>5, LeftActor
<1>3. CASE \/ \E q \in Procs : DispatchDied(q) \/ DispatchMove(q) \/ DispatchUnfreeze(q)
           \/ DispatchScreen
  <2>1. /\ pc[Bpf] = "idle" /\ UNCHANGED owner /\ UNCHANGED sweepVars
        /\ \/ \E l \in Waiting : Goto(Bpf, l) /\ arg'[Tmr] = arg[Tmr]
           \/ UNCHANGED <<pc, arg>>
    BY <1>3 DEF TypeOK, DispatchDied, DispatchMove, DispatchUnfreeze, DispatchScreen, Receive,
      Enter, Waiting, Threads, appVars, Bpf, Tmr
  <2>2. /\ \A u \in Threads \ {Bpf} : pc'[u] = pc[u] /\ arg'[u] = arg[u]
        /\ pc'[Bpf] \in Waiting \cup {"idle"}
    BY <2>1 DEF TypeOK, Goto, Threads, Bpf, Tmr
  <2>3. Shortens
    BY <1>0, <2>1, <2>2, LeftBegin
  <2>4. PlaceInv'
    BY <2>1, <2>2 DEF PlaceInv, sweepVars, Waiting, Threads, Bpf, Tmr
  <2> QED BY <2>3, <2>4
<1> QED BY <1>1, <1>2, <1>3 DEF SystemUnfreeze

LEMMA StepsPositive ==
  \A l \in Labels \ {"idle", "poll_fg", "sw_start", "sw_next"} : StepsFrom(l) \in Nat \ {0}
  BY StepsTable DEF Labels, Waiting, Freezing, Locked, Outside

\* The world's steps leave the threads where they are; a restart brings both to the loop.
LEMMA ShortensEnv ==
  ASSUME TypeOK, IsFiniteSet(Pkgs), PlaceInv, EnvStep \/ UNCHANGED vars
  PROVE  PlaceInv' /\ Shortens
<1>1. CASE Restart
  <2>1. /\ pc' = [t \in Threads |-> "idle"] /\ pollNext' = NoPkg
    BY <1>1 DEF Restart
  <2>2. \A t \in Threads : Left(t)' = 0
    BY <2>1, StepsTable DEF Left, SweepLeft, PollLeft, InSweep, Freezing, Threads, Tmr, Bpf
  <2>3. ASSUME NEW t \in Threads, pc[t] # "idle" PROVE Left(t) > 0
    <3>1. StepsFrom(pc[t]) \in Nat
      BY StepsType DEF TypeOK
    <3>2. CASE t = Tmr /\ pc[t] \in {"poll_fg", "sw_start", "sw_next"}
      <4>1. SweepLeft + PollLeft > 0
        <5>1. pc[Tmr] = "poll_fg" => PollLeft = 5
          BY <3>2 DEF PollLeft, PlaceInv
        <5>2. pc[Tmr] = "sw_start" => SweepLeft >= 8
          BY LeftType DEF SweepLeft
        <5>3. pc[Tmr] = "sw_next" => SweepLeft >= 1
          BY LeftType DEF SweepLeft, InSweep
        <5> QED BY <3>2, <5>1, <5>2, <5>3, LeftType
      <4> QED BY <3>1, <3>2, <4>1, LeftType DEF Left
    <3>3. CASE pc[t] \notin {"poll_fg", "sw_start", "sw_next"}
      <4>1. StepsFrom(pc[t]) > 0
        BY <2>3, <3>3, StepsPositive DEF TypeOK
      <4> QED BY <4>1, <3>1, LeftType DEF Left
    <3> QED BY <3>2, <3>3 DEF PlaceInv, Threads, Bpf, Tmr
  <2>4. PlaceInv'
    BY <2>1 DEF PlaceInv, Threads, Bpf, Tmr
  <2> HIDE DEF PlaceInv
  <2> QED BY <2>2, <2>3, <2>4 DEF Shortens
<1>2. CASE ~Restart
  <2>1. UNCHANGED <<pc, arg, owner>> /\ UNCHANGED sweepVars
    BY <1>2 DEF vars, EnvStep, ProcStarts, ProcExits, ThreadExits, SystemThaw,
      SystemMigrates, TopAppChanges, ScreenToggles, EditWhitelist, EditRestrict,
      FreezerReenabled, daemonVars, sweepVars
  <2>2. PlaceInv'
    BY <2>1 DEF PlaceInv, sweepVars
  <2>3. \A u \in Threads : UNCHANGED <<pc[u], arg[u], Left(u)>>
    BY <2>1, LeftOther
  <2> QED BY <2>2, <2>3 DEF Shortens
<1> QED BY <1>1, <1>2

LEMMA ShortensNext ==
  ASSUME TypeOK, IsFiniteSet(Pkgs), LockInv, PlaceInv, [Next]_vars
  PROVE  PlaceInv' /\ Shortens
BY ShortensHandler, ShortensWorker, ShortensBpf, ShortensEnv
DEF Next, BpfStep, WorkerStep, TimerStep, HandlerStep, Threads

\* With finitely many packages, every handler and callback ends after so many steps of its
\* thread, the sweep and the poll included: no event, callback or restart between them
\* makes what is left of one longer (the mutex may keep it waiting: that it gets it in the
\* end is HandlersEnd, which takes fairness).
THEOREM HandlersTerminate ==
  ASSUME IsFiniteSet(Pkgs) PROVE Spec => HandlersShorten
<1>1. Init => LockedDelay /\ PlaceInv
  BY ThreadAssumption DEF Init, LockedDelay, LockInv, DelayInv, PlaceInv, Locked, Freezing,
    Threads, Bpf, Tmr
<1>2. TypeOK /\ LockedDelay /\ PlaceInv /\ [Next]_vars => PlaceInv' /\ Shortens
  BY ShortensNext DEF LockedDelay
<1>3. Shortens => [\A t \in Threads : pc[t] # "idle" =>
                    Left(t)' < Left(t) \/ UNCHANGED <<pc[t], arg[t], Left(t)>>]_vars
  BY DEF Shortens
<1> QED BY <1>1, <1>2, <1>3, TypeInit, TypeNext, DelayNext, PTL DEF Spec, HandlersShorten

(***************************************************************************)
(* Where a delayed freeze goes                                              *)
(***************************************************************************)
\* What screen_off_timer_ names is a sweep, or is no longer there.
ScreenOwn ==
  \A i \in TimerIds : screenTimer = i => timers[i].kind \in {"sweep", "none"}

\* What every step makes of the timer table, in the terms of ScreenOwn and of Armed: it
\* takes one entry out, arms one, or both (ScreenOff), or leaves all.
LEMMA ScreenOwnNext == TypeOK /\ ScreenOwn /\ [Next]_vars => ScreenOwn'
<1> SUFFICES ASSUME TypeOK, ScreenOwn, [Next]_vars PROVE ScreenOwn'
  OBVIOUS
<1> USE DEF appVars, timerVars
<1>a. ASSUME UNCHANGED screenTimer, UNCHANGED timers \/ \E j : timers' = Cancelled(j)
      PROVE  ScreenOwn'
  BY <1>a DEF ScreenOwn, Cancelled, NoCallback
<1>b. ASSUME UNCHANGED screenTimer, FreeIds # {},
             \E c \in Callback : timers' = [timers EXCEPT ![NewId] = c]
      PROVE  ScreenOwn'
  <2>1. screenTimer # NewId
    BY <1>b, NewIdFree DEF FreeIds
  <2> QED BY <1>b, <2>1 DEF TypeOK, ScreenOwn
<1>1. ASSUME NEW t \in Threads, NEW p \in Pkgs,
             \/ Foreground(t, p)
             \/ UnfreezeMove(t, p) \/ UnfreezeMark(t, p) \/ UnfreezeSide(t, p)
             \/ Background(t, p) \/ FreezeCheck(t, p) \/ FreezeMove(t, p)
             \/ FreezeMark(t, p) \/ FreezeCount(t, p) \/ FreezeSide(t, p)
      PROVE  ScreenOwn'
  BY <1>1, <1>a DEF Foreground, UnfreezeMove, UnfreezeMark, UnfreezeSide, Background,
    FreezeCheck, FreezeMove, FreezeMark, FreezeCount, FreezeSide
<1>2. ASSUME NEW t \in Threads, NEW p \in Pkgs, BackgroundArm(t, p) PROVE ScreenOwn'
  <2>1. [kind |-> "freeze", pkg |-> p] \in Callback
    BY DEF Callback
  <2> QED BY <1>2, <1>b, <2>1 DEF BackgroundArm
<1>3. ASSUME NEW p \in Pkgs, BounceLimitReached(p) PROVE ScreenOwn'
  <2>1. [kind |-> "backoff", pkg |-> p] \in Callback
    BY DEF Callback
  <2> QED BY <1>3, <1>b, <2>1 DEF BounceLimitReached
<1>4. CASE ScreenOff
  <2>1. FreeIds # {} /\ screenTimer' = NewId /\ \E f : timers'[NewId] = [kind |-> "sweep", pkg |-> f]
    BY <1>4, NewIdFree DEF ScreenOff, FreeIds, Cancelled
  <2> QED BY <2>1 DEF ScreenOwn
<1>5. CASE ScreenOn
  BY <1>5, TimersAssumption DEF ScreenOn, ScreenOwn
<1>6. CASE \/ \E q \in Procs : DispatchDied(q) \/ DispatchMove(q) \/ DispatchUnfreeze(q)
           \/ \E p \in Pkgs : ProcDied(p) \/ SystemUnfreeze(p)
           \/ DispatchScreen
  BY <1>6, <1>a DEF DispatchDied, DispatchMove, DispatchUnfreeze, DispatchScreen, ProcDied,
    SystemUnfreeze
<1>7. CASE \/ \E p \in Pkgs : \/ FreezeCallback(p) \/ SweepNext(p) \/ SweepLast(p)
                             \/ PollBackground(p) \/ PollForeground(p) \/ Poll(p)
           \/ SweepStart \/ SweepEnd \/ EnterDeepSleep \/ FireDeepSleep \/ FireGuard
           \/ (\E answered \in BOOLEAN : FreezerCheck(answered))
           \/ \E i \in TimerIds : Fire(i)
  BY <1>7, <1>a DEF FreezeCallback, SweepNext, SweepLast, SweepVisit, PollBackground,
    PollForeground, Poll, SweepStart, SweepEnd, EnterDeepSleep, FireDeepSleep, FireGuard,
    FreezerCheck, Fire, FireSweep, FireFreeze, FireBackoff, Take
<1>8. CASE EnvStep \/ UNCHANGED vars
  <2>1. CASE Restart
    BY <2>1, TimersAssumption DEF Restart, ScreenOwn
  <2>2. CASE ~Restart
    BY <1>8, <1>a, <2>2 DEF vars, EnvStep, ProcStarts, ProcExits, ThreadExits, SystemThaw,
      SystemMigrates, TopAppChanges, ScreenToggles, EditWhitelist, EditRestrict,
      FreezerReenabled, daemonVars
  <2> QED BY <2>1, <2>2
<1> QED
  BY <1>1, <1>2, <1>3, <1>4, <1>5, <1>6, <1>7, <1>8
  DEF Next, BpfStep, WorkerStep, TimerStep, HandlerStep, Threads, Bpf, Tmr

\* An app that waits for its delay loses it in one of these ways only.
Accounted(p) ==
  \/ At(Tmr, "cb_wait", p)' \/ At(Tmr, "df_check", p)'
  \/ \E t \in Threads : At(t, "uf_move", p)'
  \/ state'[p] = "RUNNING"

LEMMA DelayAccounted ==
  ASSUME TypeOK, TimerOwned, PendingOwn, ScreenOwn, Next, NEW p \in Armed \ Armed'
  PROVE  Accounted(p)
<1> USE DEF appVars, timerVars
<1>0. PICK i \in TimerIds : timers[i] = FreezeTimer(p)
  BY DEF Armed
<1>1. /\ p \in Pkgs /\ timers'[i] # FreezeTimer(p) /\ timers' # timers
      /\ state[p] = "PENDING_BG" /\ pending[p] = i
  BY <1>0 DEF Armed, TimerOwned
<1>2. FreezeTimer(p) # NoCallback /\ FreezeTimer(p).kind = "freeze" /\ i \notin FreeIds
  BY <1>0 DEF FreezeTimer, NoCallback, FreeIds
<1>3. \A j : timers' = Cancelled(j) => i = j
  BY <1>0, <1>1 DEF Cancelled
<1>4. ASSUME NEW c PROVE FreeIds # {} => timers' # [timers EXCEPT ![NewId] = c]
  BY <1>0, <1>1, <1>2, NewIdFree DEF TypeOK
<1>5. \A r \in Pkgs : timers' = Cancelled(pending[r]) => r = p
  <2>1. ASSUME NEW r \in Pkgs, timers' = Cancelled(pending[r]) PROVE r = p
    <3>1. pending[r] = i
      BY <1>3, <2>1
    <3>2. timers[i] \in {FreezeTimer(r), NoCallback}
      BY <3>1 DEF PendingOwn
    <3> QED BY <1>0, <1>2, <3>2 DEF FreezeTimer
  <2> QED BY <2>1
<1>6. screenTimer # i
  BY <1>0, <1>2 DEF ScreenOwn
<1>7. ASSUME NEW t \in Threads, NEW r \in Pkgs, Foreground(t, r) PROVE Accounted(p)
  <2>1. r = p
    BY <1>5, <1>7 DEF Foreground
  <2>2. At(t, "uf_move", p)'
    BY <1>1, <1>7, <2>1 DEF TypeOK, Foreground, At, Goto
  <2> QED BY <2>2 DEF Accounted
<1>8. ASSUME NEW t \in Threads, NEW r \in Pkgs,
             \/ UnfreezeMove(t, r) \/ UnfreezeMark(t, r) \/ UnfreezeSide(t, r)
             \/ Background(t, r) \/ FreezeCheck(t, r) \/ FreezeMove(t, r)
             \/ FreezeMark(t, r) \/ FreezeCount(t, r) \/ FreezeSide(t, r)
             \/ BackgroundArm(t, r)
      PROVE  FALSE
  BY <1>1, <1>4, <1>8 DEF UnfreezeMove, UnfreezeMark, UnfreezeSide, Background,
    FreezeCheck, FreezeMove, FreezeMark, FreezeCount, FreezeSide, BackgroundArm
<1>9. ASSUME NEW r \in Pkgs, ProcDied(r) PROVE Accounted(p)
  <2>1. r = p
    BY <1>5, <1>9 DEF ProcDied
  <2> QED BY <1>9, <2>1 DEF TypeOK, ProcDied, Accounted
<1>10. CASE \/ \E q \in Procs : DispatchDied(q) \/ DispatchMove(q) \/ DispatchUnfreeze(q)
            \/ \E r \in Pkgs : BounceLimitReached(r) \/ SystemUnfreeze(r)
            \/ DispatchScreen \/ ScreenOn
  BY <1>1, <1>3, <1>4, <1>6, <1>10 DEF DispatchDied, DispatchMove, DispatchUnfreeze,
    DispatchScreen, BounceLimitReached, SystemUnfreeze, ScreenOn
<1>11. ~ScreenOff
  <2>1. ScreenOff => timers'[i] = timers[i]
    BY <1>2, <1>6, NewIdFree DEF ScreenOff, Cancelled
  <2> QED BY <1>0, <1>1, <2>1
<1>12. ASSUME NEW r \in Pkgs, SweepNext(r) \/ SweepLast(r) PROVE Accounted(p)
  <2>1. timers' = Cancelled(pending[r]) /\ Enter(Tmr, "df_check", r)
    BY <1>1, <1>12 DEF SweepNext, SweepLast, SweepVisit
  <2>2. r = p
    BY <1>5, <2>1
  <2>3. At(Tmr, "df_check", p)'
    BY <2>1, <2>2 DEF TypeOK, Enter, Goto, At, Threads, Tmr
  <2> QED BY <2>3 DEF Accounted
<1>13. CASE \/ \E r \in Pkgs : \/ FreezeCallback(r) \/ PollBackground(r)
                              \/ PollForeground(r) \/ Poll(r)
            \/ SweepStart \/ SweepEnd \/ EnterDeepSleep \/ FireDeepSleep \/ FireGuard
            \/ \E answered \in BOOLEAN : FreezerCheck(answered)
  BY <1>1, <1>13 DEF FreezeCallback, PollBackground, PollForeground, Poll, SweepStart,
    SweepEnd, EnterDeepSleep, FireDeepSleep, FireGuard, FreezerCheck
<1>14. ASSUME NEW j \in TimerIds, Fire(j) PROVE Accounted(p)
  <2>1. timers' = Cancelled(j)
    BY <1>14 DEF Fire, FireSweep, FireFreeze, FireBackoff, Take
  <2>2. j = i
    BY <1>3, <2>1
  <2>3. FireFreeze(i, p)
    <3>1. timers[i].kind = "freeze" /\ timers[i].pkg = p
      BY <1>0 DEF FreezeTimer
    <3>2. ~FireSweep(i) /\ \A r \in Pkgs : ~FireBackoff(i, r)
      BY <3>1 DEF FireSweep, FireBackoff
    <3>3. PICK r \in Pkgs : FireFreeze(i, r)
      BY <1>14, <2>2, <3>2 DEF Fire
    <3>4. r = p
      BY <3>1, <3>3 DEF FireFreeze
    <3> QED BY <3>3, <3>4
  <2>4. At(Tmr, "cb_wait", p)'
    BY <2>3 DEF TypeOK, FireFreeze, Enter, Goto, At, Threads, Tmr
  <2> QED BY <2>4 DEF Accounted
<1>15. CASE EnvStep
  <2>1. CASE Restart
    BY <1>1, <2>1 DEF Restart, Accounted
  <2>2. CASE ~Restart
    BY <1>1, <1>15, <2>2 DEF EnvStep, ProcStarts, ProcExits, ThreadExits, SystemThaw,
      SystemMigrates, TopAppChanges, ScreenToggles, EditWhitelist, EditRestrict,
      FreezerReenabled, daemonVars
  <2> QED BY <2>1, <2>2
<1> QED
  BY <1>7, <1>8, <1>9, <1>10, <1>11, <1>12, <1>13, <1>14, <1>15
  DEF Next, BpfStep, WorkerStep, TimerStep, HandlerStep, Threads, Bpf, Tmr

\* No delayed freeze is lost: what disarms one is its own firing, the sweep that goes on
\* to freeze the app, the app's unfreeze, or the end of its record; cancelling a sweep or
\* another app's delay never takes it (freeze_engine.h:210, :215 cancel by id).
THEOREM DelaysAccounted ==
  ASSUME "bg" \notin Emits
  PROVE  Spec => DelaysEndInFreeze
<1>1. Init => TypeOK /\ TimerInv /\ PendingOwn /\ ScreenOwn
  BY TypeInit, TimerInit, TimersAssumption DEF Init, PendingOwn, ScreenOwn
<1>2. TypeOK /\ TimerInv /\ PendingOwn /\ ScreenOwn /\ [Next]_vars
        => TypeOK' /\ TimerInv' /\ PendingOwn' /\ ScreenOwn'
  BY TypeNext, TimerNext, PendingNext, ScreenOwnNext
<1>3. TypeOK /\ TimerInv /\ PendingOwn /\ ScreenOwn /\ [Next]_vars =>
        [\A p \in Armed \ Armed' :
           \/ At(Tmr, "cb_wait", p)' \/ At(Tmr, "df_check", p)'
           \/ \E t \in Threads : At(t, "uf_move", p)'
           \/ state'[p] = "RUNNING"]_vars
  BY DelayAccounted DEF TimerInv, Accounted
<1> QED BY <1>1, <1>2, <1>3, PTL DEF Spec, DelaysEndInFreeze

(***************************************************************************)
(* Where the eBPF thread handles screens and deaths only                    *)
(***************************************************************************)
\* The probes of the loader that shows no app's moves: what is in the ring they have
\* emitted, and PidCache is never filled.
FedInv ==
  /\ pc[Bpf] \in {"idle", "off_wait", "on_wait", "died_wait"}
  /\ pc[Bpf] = "died_wait" => Emits \cap {"died", "tdied"} # {}
  /\ \A k \in DOMAIN ring : ring[k].kind \in Emits
  /\ pidCache = {}

\* What the eBPF thread may be made to do, of all it can.
LEMMA FedBpf ==
  ASSUME Emits \subseteq {"off", "on", "died", "tdied"}, TypeOK, FedInv, BpfStep
  PROVE  \/ DispatchScreen \/ ScreenOff \/ ScreenOn
         \/ \E q \in Procs : DispatchDied(q) /\ Emits \cap {"died", "tdied"} # {}
         \/ \E p \in Pkgs : ProcDied(p) /\ Emits \cap {"died", "tdied"} # {}
<1>1. ring # << >> => Oldest.kind \in Emits
  BY DEF TypeOK, FedInv, Oldest
<1>2. ASSUME NEW q \in Procs, DispatchMove(q) \/ DispatchUnfreeze(q) PROVE FALSE
  BY <1>1, <1>2 DEF DispatchMove, DispatchUnfreeze, Receive
<1>3. ASSUME NEW q \in Procs, DispatchDied(q) PROVE Emits \cap {"died", "tdied"} # {}
  BY <1>1, <1>3 DEF DispatchDied, Receive
<1>4. ASSUME NEW p \in Pkgs, SystemUnfreeze(p) \/ BounceLimitReached(p) PROVE FALSE
  BY <1>4 DEF FedInv, SystemUnfreeze, BounceLimitReached, At
<1>5. ASSUME NEW p \in Pkgs, ProcDied(p) PROVE Emits \cap {"died", "tdied"} # {}
  BY <1>5 DEF FedInv, ProcDied, At
<1>6. ~HandlerStep(Bpf)
  BY DEF FedInv, HandlerStep, Foreground, UnfreezeMove, UnfreezeMark, UnfreezeSide, Background,
    BackgroundArm, FreezeCheck, FreezeMove, FreezeMark, FreezeCount, FreezeSide, At
<1> QED BY <1>2, <1>3, <1>4, <1>5, <1>6 DEF BpfStep

\* What the world does to the processes, the knob and the settings.
LEMMA EnvShape ==
  ASSUME TypeOK, EnvStep, "restart" \notin Env
  PROVE  /\ UNCHANGED <<state, timers, pc, arg, curFg, uidKnown, pidCache, mapHas, revoked>>
         /\ \A q \in Procs : cg'[q] \in {cg[q], "dead", "system"}
         /\ Env \cap {"start", "migrate", "thaw"} = {} =>
              knob' = knob /\ \A q \in Procs : cg'[q] \in {cg[q], "dead"}
         /\ "edit" \notin Env => UNCHANGED <<exempt, restrict>>
<1> USE DEF daemonVars, appVars, timerVars, feedVars, confVars, cgVars
<1>1. CASE \E q \in Procs : ProcStarts(q) \/ ProcExits(q) \/ SystemMigrates(q)
  BY <1>1 DEF TypeOK, ProcStarts, ProcExits, SystemMigrates
<1>2. CASE \/ \E q \in Procs : \/ ThreadExits(q) \/ SystemThaw(q)
                              \/ \E k \in {"fg", "bg"} : TopAppChanges(q, k)
           \/ \E k \in {"on", "off"} : ScreenToggles(k)
           \/ FreezerReenabled
  BY <1>2 DEF ThreadExits, SystemThaw, TopAppChanges, ScreenToggles, FreezerReenabled
<1>3. CASE EditRestrict \/ \E p \in Pkgs : EditWhitelist(p)
  BY <1>3 DEF EditRestrict, EditWhitelist
<1> QED BY <1>1, <1>2, <1>3 DEF EnvStep, Restart

\* The probes put nothing into the ring but what they emit.
LEMMA EmitKinds ==
  ASSUME TypeOK, \A k \in DOMAIN ring : ring[k].kind \in Emits,
         \/ \E k \in EventKinds, q \in Procs \cup {NoProc} : Emit(k, q)
         \/ UNCHANGED ring \/ ring' = << >>
         \/ ring # << >> /\ ring' = Tail(ring)
  PROVE  \A k \in DOMAIN ring' : ring'[k].kind \in Emits
<1>0. ring \in Seq(Event)
  BY DEF TypeOK
<1>1. ASSUME NEW k \in EventKinds, NEW q \in Procs \cup {NoProc}, Emit(k, q)
      PROVE  \A j \in DOMAIN ring' : ring'[j].kind \in Emits
  <2>1. [kind |-> k, proc |-> q] \in Event
    BY DEF Event
  <2>2. CASE k \in Emits /\ ring' = Append(ring, [kind |-> k, proc |-> q])
    BY <1>0, <2>1, <2>2
  <2> QED BY <1>1, <2>2 DEF Emit
<1> QED BY <1>0, <1>1

LEMMA FedNext ==
  ASSUME Emits \subseteq {"off", "on", "died", "tdied"}, TypeOK, FedInv, [Next]_vars
  PROVE  FedInv'
<1> USE DEF appVars, timerVars, sweepVars, feedVars, cgVars, asideVars, guardVars, confVars
<1>0. Bpf # Tmr /\ Bpf \in Threads /\ Tmr \in Threads
  BY DEF Threads, Bpf, Tmr
<1>1. CASE BpfStep
  <2>1. \/ Goto(Bpf, "off_wait") \/ Goto(Bpf, "on_wait") \/ Leave(Bpf)
        \/ Goto(Bpf, "died_wait") /\ Emits \cap {"died", "tdied"} # {}
    BY <1>1, FedBpf DEF DispatchScreen, ScreenOff, ScreenOn, DispatchDied, ProcDied, Enter
  <2>2. pidCache' = {} /\ (UNCHANGED ring \/ (ring # << >> /\ ring' = Tail(ring)))
    BY <1>1, FedBpf DEF FedInv, DispatchScreen, ScreenOff, ScreenOn, DispatchDied, ProcDied,
      Receive
  <2>3. \A k \in DOMAIN ring' : ring'[k].kind \in Emits
    BY <2>2, EmitKinds DEF FedInv
  <2>4. CASE Leave(Bpf)
    BY <1>0, <2>2, <2>3, <2>4, LeaveShape DEF FedInv, Leave, Enter, Goto, TypeOK
  <2>5. CASE ~Leave(Bpf)
    BY <1>0, <2>1, <2>2, <2>3, <2>5 DEF FedInv, Goto, TypeOK
  <2> QED BY <2>4, <2>5
<1>2. CASE WorkerStep \/ TimerStep
  <2>1. pc'[Bpf] = pc[Bpf] /\ UNCHANGED <<ring, pidCache>>
    <3>1. CASE HandlerStep(Tmr)
      <4>1. (Leave(Tmr) \/ Return(Tmr) \/ \E l : Goto(Tmr, l)) /\ UNCHANGED <<ring, pidCache>>
        BY <3>1 DEF HandlerStep, Foreground, UnfreezeMove, UnfreezeMark, UnfreezeSide,
          Background, BackgroundArm, FreezeCheck, FreezeMove, FreezeMark, FreezeCount,
          FreezeSide, Release
      <4>2. CASE Leave(Tmr) \/ Return(Tmr)
        BY <1>0, <4>1, <4>2, LeaveShape, ReturnShape
      <4>3. CASE \E l : Goto(Tmr, l)
        BY <1>0, <4>1, <4>3 DEF TypeOK, Goto
      <4> QED BY <4>1, <4>2, <4>3
    <3>2. CASE ~HandlerStep(Tmr)
      <4>1. /\ Leave(Tmr) \/ UNCHANGED pc \/ \E l : Goto(Tmr, l)
            /\ UNCHANGED <<ring, pidCache>>
        BY <1>2, <3>2 DEF WorkerStep, TimerStep, FreezeCallback, SweepNext, SweepLast,
          SweepVisit, PollBackground, PollForeground, Poll, SweepStart, SweepEnd,
          EnterDeepSleep, FireDeepSleep, FireGuard, FreezerCheck, Fire, FireSweep,
          FireFreeze, FireBackoff, Enter
      <4>2. CASE Leave(Tmr)
        BY <1>0, <4>1, <4>2, LeaveShape
      <4>3. CASE UNCHANGED pc \/ \E l : Goto(Tmr, l)
        BY <1>0, <4>1, <4>3 DEF TypeOK, Goto
      <4> QED BY <4>1, <4>2, <4>3
    <3> QED BY <3>1, <3>2
  <2> QED BY <2>1 DEF FedInv
<1>3. CASE EnvStep
  <2>1. CASE Restart
    BY <1>0, <2>1 DEF Restart, FedInv
  <2>2. CASE ~Restart
    <3>1. /\ UNCHANGED <<pc, pidCache>>
          /\ \/ \E k \in EventKinds, q \in Procs \cup {NoProc} : Emit(k, q)
             \/ UNCHANGED ring
      BY <1>3, <2>2 DEF EnvStep, ProcStarts, ProcExits, ThreadExits, SystemThaw,
        SystemMigrates, TopAppChanges, ScreenToggles, EditWhitelist, EditRestrict,
        FreezerReenabled, daemonVars, EventKinds
    <3>2. \A k \in DOMAIN ring' : ring'[k].kind \in Emits
      BY <3>1, EmitKinds DEF FedInv
    <3> QED BY <3>1, <3>2 DEF FedInv
  <2> QED BY <2>1, <2>2
<1>4. CASE UNCHANGED vars
  BY <1>4 DEF vars, FedInv
<1> QED BY <1>1, <1>2, <1>3, <1>4 DEF Next

(***************************************************************************)
(* Records, kernel and AppOps where the worker alone moves processes        *)
(***************************************************************************)
\* The worker has moved the processes of p and not yet noted it, or is about to restore.
Halfway == {"uf_mark", "uf_side", "df_mark", "df_count", "df_side"}

\* What the invariants of this part are about, besides where the worker is.
noted == <<state, cg, knob, mapHas, uidKnown, revoked, exempt, restrict>>

\* A step that is none of theirs, and one that begins a delay.
Aside ==
  /\ UNCHANGED noted
  /\ \/ pc[Tmr] \notin Halfway /\ pc'[Tmr] \notin Halfway
     \/ pc'[Tmr] = pc[Tmr] /\ arg'[Tmr] = arg[Tmr]

BeginsDelay(p) ==
  /\ state[p] = "RUNNING" /\ state' = [state EXCEPT ![p] = "PENDING_BG"]
  /\ UNCHANGED <<cg, knob, mapHas, uidKnown, revoked, exempt, restrict>>
  /\ pc[Tmr] \notin Halfway /\ pc'[Tmr] \notin Halfway

\* The steps of do_unfreeze and do_freeze on the worker, from label to label.
Moves(p) ==
  \/ /\ At(Tmr, "uf_move", p) /\ At(Tmr, "uf_mark", p)' /\ UnfreezeMove(Tmr, p)
  \/ /\ At(Tmr, "uf_mark", p) /\ At(Tmr, "uf_side", p)' /\ UnfreezeMark(Tmr, p)
  \/ /\ At(Tmr, "uf_side", p) /\ pc'[Tmr] \notin Halfway /\ UnfreezeSide(Tmr, p)
  \/ /\ At(Tmr, "df_move", p) /\ At(Tmr, "df_mark", p)' /\ FreezeMove(Tmr, p)
     /\ PidsOf(p) # {}
  \/ /\ At(Tmr, "df_mark", p) /\ At(Tmr, "df_count", p)' /\ FreezeMark(Tmr, p)
  \/ /\ At(Tmr, "df_count", p) /\ At(Tmr, "df_side", p)' /\ FreezeCount(Tmr, p)
  \/ /\ At(Tmr, "df_side", p) /\ pc'[Tmr] \notin Halfway /\ FreezeSide(Tmr, p)

\* If screens are all the eBPF thread is told of, there are no other steps than these.
LEMMA AloneStep ==
  ASSUME Emits \subseteq {"off", "on"}, TypeOK, FedInv, [Next]_vars
  PROVE  \/ Aside
         \/ \E p \in Pkgs : BeginsDelay(p) \/ Moves(p)
         \/ EnvStep
<1> DEFINE Menu == Aside \/ (\E p \in Pkgs : BeginsDelay(p) \/ Moves(p)) \/ EnvStep
<1> SUFFICES Menu
  OBVIOUS
<1>0. Bpf # Tmr /\ Tmr \in Threads /\ Bpf \in Threads
  BY DEF Threads, Bpf, Tmr
<1> USE DEF appVars, timerVars, sweepVars, feedVars, cgVars, asideVars, guardVars, confVars, noted
<1>1. CASE BpfStep
  <2>1. DispatchScreen \/ ScreenOff \/ ScreenOn
    BY <1>1, FedBpf
  <2>2. pc'[Tmr] = pc[Tmr] /\ arg'[Tmr] = arg[Tmr]
    BY <1>0, <2>1, LeaveShape DEF TypeOK, DispatchScreen, ScreenOff, ScreenOn, Goto
  <2> QED BY <2>1, <2>2 DEF Aside, DispatchScreen, ScreenOff, ScreenOn
<1>2. ASSUME NEW p \in Pkgs, Foreground(Tmr, p) \/ BackgroundArm(Tmr, p) \/ FreezeCheck(Tmr, p)
      PROVE  Aside
  <2>1. /\ pc[Tmr] \in {"fg_wait", "bg_arm", "df_check"} /\ UNCHANGED noted
        /\ \/ Leave(Tmr) \/ Return(Tmr) \/ Goto(Tmr, "uf_move") \/ Goto(Tmr, "df_move")
    BY <1>2 DEF Foreground, BackgroundArm, FreezeCheck, At, Release
  <2>2. CASE Leave(Tmr) \/ Return(Tmr)
    BY <1>0, <2>1, <2>2, LeaveShape, ReturnShape DEF Aside, Halfway
  <2>3. CASE Goto(Tmr, "uf_move") \/ Goto(Tmr, "df_move")
    BY <1>0, <2>1, <2>3 DEF Aside, Halfway, TypeOK, Goto
  <2> QED BY <2>1, <2>2, <2>3
<1>3. ASSUME NEW p \in Pkgs, Background(Tmr, p) PROVE Aside \/ BeginsDelay(p)
  <2>1. pc[Tmr] = "bg_wait" /\ (Leave(Tmr) \/ Goto(Tmr, "bg_arm"))
    BY <1>3 DEF Background, At
  <2>2. pc[Tmr] \notin Halfway /\ pc'[Tmr] \notin Halfway
    BY <1>0, <2>1, LeaveShape DEF TypeOK, Goto, Halfway
  <2> QED BY <1>3, <2>2 DEF Background, Aside, BeginsDelay
<1>4. ASSUME NEW p \in Pkgs,
             \/ UnfreezeMove(Tmr, p) \/ UnfreezeMark(Tmr, p) \/ UnfreezeSide(Tmr, p)
             \/ FreezeMark(Tmr, p) \/ FreezeCount(Tmr, p) \/ FreezeSide(Tmr, p)
      PROVE  Moves(p)
  <2>1. CASE \/ UnfreezeMove(Tmr, p) \/ UnfreezeMark(Tmr, p)
             \/ FreezeMark(Tmr, p) \/ FreezeCount(Tmr, p)
    BY <1>0, <2>1 DEF TypeOK, Moves, UnfreezeMove, UnfreezeMark, FreezeMark, FreezeCount, At, Goto
  <2>2. CASE UnfreezeSide(Tmr, p)
    BY <1>0, <2>2, LeaveShape DEF Moves, UnfreezeSide, Release, At, Halfway
  <2>3. CASE FreezeSide(Tmr, p)
    BY <1>0, <2>3, ReturnShape DEF Moves, FreezeSide, At, Halfway
  <2> QED BY <1>4, <2>1, <2>2, <2>3
<1>5. ASSUME NEW p \in Pkgs, FreezeMove(Tmr, p) PROVE Aside \/ Moves(p)
  <2>1. CASE PidsOf(p) = {}
    BY <1>0, <1>5, <2>1, ReturnShape DEF FreezeMove, At, Halfway, Aside
  <2>2. CASE PidsOf(p) # {}
    <3>1. At(Tmr, "df_move", p) /\ At(Tmr, "df_mark", p)'
      BY <1>0, <1>5, <2>2 DEF TypeOK, FreezeMove, At, Goto
    <3> QED BY <1>5, <2>2, <3>1 DEF Moves
  <2> QED BY <2>1, <2>2
<1>6. CASE \/ \E p \in Pkgs : \/ FreezeCallback(p) \/ SweepNext(p) \/ SweepLast(p)
                             \/ PollBackground(p) \/ PollForeground(p) \/ Poll(p)
           \/ SweepStart \/ SweepEnd \/ EnterDeepSleep \/ FireDeepSleep \/ FireGuard
           \/ (\E answered \in BOOLEAN : FreezerCheck(answered))
           \/ \E i \in TimerIds : Fire(i)
  <2>1. /\ \/ Leave(Tmr) /\ pc[Tmr] = "cb_wait"
           \/ /\ UNCHANGED pc \/ \E l \in Labels \ Halfway : Goto(Tmr, l)
              /\ pc[Tmr] \notin Halfway
        /\ UNCHANGED noted
    BY <1>6 DEF FreezeCallback, SweepNext, SweepLast, SweepVisit, PollBackground,
      PollForeground, Poll, SweepStart, SweepEnd, EnterDeepSleep, FireDeepSleep, FireGuard,
      FreezerCheck, Fire, FireSweep, FireFreeze, FireBackoff, WorkerFree, Enter, At,
      Labels, Waiting, Freezing, Locked, Outside, Halfway
  <2>2. CASE Leave(Tmr) /\ pc[Tmr] = "cb_wait"
    BY <1>0, <2>1, <2>2, LeaveShape DEF Halfway, Aside
  <2>3. CASE pc[Tmr] \notin Halfway /\ (UNCHANGED pc \/ \E l \in Labels \ Halfway : Goto(Tmr, l))
    BY <1>0, <2>1, <2>3 DEF TypeOK, Goto, Aside
  <2> QED BY <2>1, <2>2, <2>3
<1>7. CASE UNCHANGED vars
  BY <1>7 DEF vars, Aside
<1> HIDE DEF Menu
<1>8. CASE HandlerStep(Tmr)
  BY <1>2, <1>3, <1>4, <1>5, <1>8 DEF HandlerStep, Menu
<1> HIDE DEF appVars, timerVars, sweepVars, feedVars, cgVars, asideVars, guardVars, confVars, noted
<1>9. Next => BpfStep \/ WorkerStep \/ TimerStep \/ EnvStep
  BY DEF Next
<1>10. TimerStep => Menu
  BY <1>6 DEF TimerStep
<1>11. WorkerStep => Menu
  BY <1>6, <1>8 DEF WorkerStep
<1> QED BY <1>1, <1>7, <1>9, <1>10, <1>11 DEF Menu

(***************************************************************************)
(* The parts of the invariant                                               *)
(***************************************************************************)
\* do_freeze has noted what it counts and denies for.
MarkInv ==
  \A p \in Pkgs : At(Tmr, "df_count", p) \/ At(Tmr, "df_side", p) => state[p] = "FROZEN"

\* A process in the frozen group is of an app on record as FROZEN, or of one that the
\* worker has moved and is about to note; and such an app's uid is not known, so that
\* do_unfreeze will look for its processes in /proc.
StillInv ==
  /\ \A p \in Pkgs, q \in Procs : PkgOf[q] = p /\ cg[q] = "frozen" =>
       ~At(Tmr, "uf_mark", p) /\ (state[p] = "FROZEN" \/ At(Tmr, "df_mark", p))
  /\ \A p \in uidKnown : state[p] # "FROZEN" /\ ~At(Tmr, "df_mark", p)

\* The other way round: a process that runs is of an app that is not FROZEN, or is just
\* being released.
HeldInv ==
  /\ knob
  /\ \A p \in Pkgs, q \in Procs : PkgOf[q] = p /\ cg[q] \in {"system", "active"} =>
       At(Tmr, "uf_mark", p) \/ ~(state[p] = "FROZEN" \/ At(Tmr, "df_mark", p))

\* AppOps are denied to apps on record as FROZEN, and to the one about to get them back.
DeniedInv ==
  restrict /\ \A p \in revoked : p \notin exempt /\ (state[p] = "FROZEN" \/ At(Tmr, "uf_side", p))

\* The map's one key is there for some app, and goes with the first that is unfrozen.
MapInv ==
  mapHas => HasMap /\ (pc[Tmr] = "uf_side" \/ \E p \in Pkgs : state[p] = "FROZEN")

\* The migrations of an app whose uid is not known: all its processes.
LEMMA MovesShape ==
  ASSUME TypeOK, FedInv, NEW p \in Pkgs, NEW q \in Procs,
         UnfreezeMove(Tmr, p) \/ (FreezeMove(Tmr, p) /\ PidsOf(p) # {})
  PROVE  /\ cg'[q] = "dead" <=> cg[q] = "dead"
         /\ PkgOf[q] # p => cg'[q] = cg[q]
         /\ UnfreezeMove(Tmr, p) /\ p \in uidKnown => cg'[q] = cg[q]
         /\ UnfreezeMove(Tmr, p) /\ p \notin uidKnown /\ PkgOf[q] = p /\ cg[q] # "dead" =>
              cg'[q] = "active"
         /\ PidsOf(p) # {} => p \notin uidKnown
         /\ FreezeMove(Tmr, p) /\ PidsOf(p) # {} /\ PkgOf[q] = p /\ cg[q] # "dead" =>
              cg'[q] = "frozen"
<1>1. PidsOf(p) # {} => p \notin uidKnown
  BY DEF PidsOf, FedInv
<1>2. UnfreezeMove(Tmr, p) => cg' = Moved(PidsOf(p), "active")
  BY DEF UnfreezeMove
<1>3. FreezeMove(Tmr, p) /\ PidsOf(p) # {} => cg' = Moved(PidsOf(p), "frozen")
  BY DEF FreezeMove
<1>4. ASSUME p \notin uidKnown
      PROVE  /\ PkgOf[q] = p /\ cg[q] # "dead" => q \in PidsOf(p)
             /\ q \in PidsOf(p) => PkgOf[q] = p
  BY <1>4 DEF PidsOf, Live
<1>5. p \in uidKnown => PidsOf(p) = {}
  BY <1>1
<1>6. CASE UnfreezeMove(Tmr, p) /\ ~(FreezeMove(Tmr, p) /\ PidsOf(p) # {})
  BY <1>1, <1>2, <1>4, <1>5, <1>6 DEF Moved
<1>7. CASE FreezeMove(Tmr, p) /\ PidsOf(p) # {} /\ ~UnfreezeMove(Tmr, p)
  BY <1>1, <1>3, <1>4, <1>5, <1>7 DEF Moved
<1>8. ~(FreezeMove(Tmr, p) /\ UnfreezeMove(Tmr, p))
  BY DEF FreezeMove, UnfreezeMove, At
<1> QED BY <1>6, <1>7, <1>8

LEMMA MarkNext ==
  ASSUME Emits \subseteq {"off", "on"}, TypeOK, FedInv, MarkInv, [Next]_vars
  PROVE  MarkInv'
<1>1. CASE Aside \/ \E p \in Pkgs : BeginsDelay(p)
  BY <1>1 DEF MarkInv, Aside, BeginsDelay, noted, Halfway, At
<1>2. ASSUME NEW p \in Pkgs, Moves(p) PROVE MarkInv'
  BY <1>2 DEF TypeOK, MarkInv, Moves, At, FreezeMark, FreezeCount, appVars, Halfway
<1>3. CASE EnvStep
  <2>1. CASE Restart
    BY <2>1 DEF MarkInv, Restart, At, Threads, Tmr
  <2>2. CASE ~Restart
    <3>1. UNCHANGED <<state, pc, arg>>
      BY <1>3, <2>2 DEF EnvStep, ProcStarts, ProcExits, ThreadExits, SystemThaw,
        SystemMigrates, TopAppChanges, ScreenToggles, EditWhitelist, EditRestrict,
        FreezerReenabled, daemonVars, appVars
    <3> QED BY <3>1 DEF MarkInv, At
  <2> QED BY <2>1, <2>2
<1> QED BY <1>1, <1>2, <1>3, AloneStep

LEMMA StillNext ==
  ASSUME Emits \subseteq {"off", "on"}, "restart" \notin Env,
         TypeOK, FedInv, MarkInv, StillInv, [Next]_vars
  PROVE  StillInv'
<1>1. CASE Aside
  BY <1>1 DEF StillInv, Aside, noted, Halfway, At
<1>2. ASSUME NEW p \in Pkgs, BeginsDelay(p) PROVE StillInv'
  <2>1. \A r \in Pkgs : state'[r] = "FROZEN" <=> state[r] = "FROZEN"
    BY <1>2 DEF BeginsDelay, TypeOK
  <2> QED BY <1>2, <2>1 DEF TypeOK, StillInv, BeginsDelay, Halfway, At
<1>3. ASSUME NEW p \in Pkgs, Moves(p) PROVE StillInv'
  <2>1. CASE At(Tmr, "uf_move", p) /\ At(Tmr, "uf_mark", p)' /\ UnfreezeMove(Tmr, p)
    BY <2>1, MovesShape DEF TypeOK, StillInv, At, UnfreezeMove, appVars, feedVars
  <2>2. CASE At(Tmr, "uf_mark", p) /\ At(Tmr, "uf_side", p)' /\ UnfreezeMark(Tmr, p)
    BY <2>2 DEF TypeOK, StillInv, At, UnfreezeMark, feedVars, cgVars
  <2>3. CASE /\ At(Tmr, "df_move", p) /\ At(Tmr, "df_mark", p)' /\ FreezeMove(Tmr, p)
             /\ PidsOf(p) # {}
    <3>1. p \notin uidKnown
      BY <2>3 DEF PidsOf, FedInv
    <3> QED BY <2>3, <3>1, MovesShape DEF TypeOK, StillInv, At, FreezeMove, appVars, feedVars
  <2>4. CASE At(Tmr, "df_mark", p) /\ At(Tmr, "df_count", p)' /\ FreezeMark(Tmr, p)
    BY <2>4 DEF TypeOK, StillInv, At, FreezeMark, feedVars, cgVars
  <2>5. CASE At(Tmr, "df_count", p) /\ At(Tmr, "df_side", p)' /\ FreezeCount(Tmr, p)
    BY <2>5 DEF StillInv, At, FreezeCount, feedVars, cgVars
  <2>6. CASE /\ At(Tmr, "uf_side", p) \/ At(Tmr, "df_side", p)
             /\ pc'[Tmr] \notin Halfway /\ UNCHANGED <<state, cg, uidKnown>>
    BY <2>6 DEF StillInv, At, Halfway
  <2> QED BY <1>3, <2>1, <2>2, <2>3, <2>4, <2>5, <2>6
          DEF Moves, UnfreezeSide, FreezeSide, appVars, feedVars
<1>4. CASE EnvStep
  BY <1>4, EnvShape DEF TypeOK, StillInv, At
<1> QED BY <1>1, <1>2, <1>3, <1>4, AloneStep

LEMMA HeldNext ==
  ASSUME Emits \subseteq {"off", "on"}, Env \subseteq {"exit", "thread", "edit", "reenable"},
         TypeOK, FedInv, StillInv, HeldInv, [Next]_vars
  PROVE  HeldInv'
<1>1. CASE Aside
  BY <1>1 DEF HeldInv, Aside, noted, Halfway, At
<1>2. ASSUME NEW p \in Pkgs, BeginsDelay(p) PROVE HeldInv'
  <2>1. \A r \in Pkgs : state'[r] = "FROZEN" <=> state[r] = "FROZEN"
    BY <1>2 DEF BeginsDelay, TypeOK
  <2> QED BY <1>2, <2>1 DEF HeldInv, BeginsDelay, Halfway, At
<1>3. ASSUME NEW p \in Pkgs, Moves(p) PROVE HeldInv'
  <2>1. CASE At(Tmr, "uf_move", p) /\ At(Tmr, "uf_mark", p)' /\ UnfreezeMove(Tmr, p)
    BY <2>1, MovesShape DEF TypeOK, HeldInv, At, UnfreezeMove, appVars
  <2>2. CASE At(Tmr, "uf_mark", p) /\ At(Tmr, "uf_side", p)' /\ UnfreezeMark(Tmr, p)
    BY <2>2 DEF TypeOK, HeldInv, At, UnfreezeMark, cgVars
  <2>3. CASE /\ At(Tmr, "df_move", p) /\ At(Tmr, "df_mark", p)' /\ FreezeMove(Tmr, p)
             /\ PidsOf(p) # {}
    <3>1. ASSUME NEW r \in Pkgs, NEW q \in Procs, PkgOf[q] = r, cg'[q] \in {"system", "active"}
          PROVE  ~(state'[r] = "FROZEN" \/ At(Tmr, "df_mark", r)')
      <4>1. r # p /\ cg'[q] = cg[q]
        BY <2>3, <3>1, MovesShape DEF TypeOK
      <4>2. ~(state[r] = "FROZEN" \/ At(Tmr, "df_mark", r))
        BY <2>3, <3>1, <4>1 DEF HeldInv, At
      <4> QED BY <2>3, <4>1, <4>2 DEF FreezeMove, appVars, At
    <3> QED BY <2>3, <3>1 DEF HeldInv, FreezeMove
  <2>4. CASE At(Tmr, "df_mark", p) /\ At(Tmr, "df_count", p)' /\ FreezeMark(Tmr, p)
    BY <2>4 DEF TypeOK, HeldInv, At, FreezeMark, cgVars
  <2>5. CASE At(Tmr, "df_count", p) /\ At(Tmr, "df_side", p)' /\ FreezeCount(Tmr, p)
    BY <2>5 DEF HeldInv, At, FreezeCount, cgVars
  <2>6. CASE /\ At(Tmr, "uf_side", p) \/ At(Tmr, "df_side", p)
             /\ pc'[Tmr] \notin Halfway /\ UNCHANGED <<state, cg, knob>>
    BY <2>6 DEF HeldInv, At, Halfway
  <2> QED BY <1>3, <2>1, <2>2, <2>3, <2>4, <2>5, <2>6
          DEF Moves, UnfreezeSide, FreezeSide, appVars
<1>4. CASE EnvStep
  <2>1. /\ UNCHANGED <<state, pc, arg, knob>>
        /\ \A q \in Procs : cg'[q] \in {cg[q], "dead"}
    BY <1>4, EnvShape
  <2> QED BY <2>1 DEF HeldInv, At
<1> QED BY <1>1, <1>2, <1>3, <1>4, AloneStep

LEMMA DeniedNext ==
  ASSUME Emits \subseteq {"off", "on"}, Env \cap {"restart", "edit"} = {},
         TypeOK, FedInv, MarkInv, DeniedInv, [Next]_vars
  PROVE  DeniedInv'
<1>1. CASE Aside
  BY <1>1 DEF DeniedInv, Aside, noted, Halfway, At
<1>2. ASSUME NEW p \in Pkgs, BeginsDelay(p) PROVE DeniedInv'
  BY <1>2 DEF TypeOK, DeniedInv, BeginsDelay, Halfway, At
<1>3. ASSUME NEW p \in Pkgs, Moves(p) PROVE DeniedInv'
  <2> USE DEF appVars, asideVars, confVars
  <2>1. UNCHANGED <<exempt, restrict>>
    BY <1>3 DEF Moves, UnfreezeMove, UnfreezeMark, UnfreezeSide, FreezeMove, FreezeMark,
      FreezeCount, FreezeSide
  <2>2. CASE \/ At(Tmr, "uf_move", p) /\ UnfreezeMove(Tmr, p)
             \/ At(Tmr, "df_move", p) /\ FreezeMove(Tmr, p)
             \/ At(Tmr, "df_count", p) /\ FreezeCount(Tmr, p)
    BY <2>1, <2>2 DEF DeniedInv, At, UnfreezeMove, FreezeMove, FreezeCount
  <2>3. CASE At(Tmr, "uf_mark", p) /\ At(Tmr, "uf_side", p)' /\ UnfreezeMark(Tmr, p)
    BY <2>1, <2>3 DEF TypeOK, DeniedInv, At, UnfreezeMark
  <2>4. CASE At(Tmr, "df_mark", p) /\ At(Tmr, "df_count", p)' /\ FreezeMark(Tmr, p)
    BY <2>1, <2>4 DEF TypeOK, DeniedInv, At, FreezeMark
  <2>5. CASE At(Tmr, "uf_side", p) /\ pc'[Tmr] \notin Halfway /\ UnfreezeSide(Tmr, p)
    <3>1. revoked' = IF p \notin exempt THEN revoked \ {p} ELSE revoked
      BY <2>5 DEF UnfreezeSide, DeniedInv
    <3> QED BY <2>1, <2>5, <3>1 DEF DeniedInv, At, UnfreezeSide
  <2>6. CASE At(Tmr, "df_side", p) /\ pc'[Tmr] \notin Halfway /\ FreezeSide(Tmr, p)
    <3>1. revoked' \subseteq revoked \cup ({p} \ exempt) /\ state[p] = "FROZEN"
      BY <2>6 DEF FreezeSide, MarkInv
    <3> QED BY <2>1, <2>6, <3>1 DEF DeniedInv, At, FreezeSide
  <2> QED BY <1>3, <2>2, <2>3, <2>4, <2>5, <2>6 DEF Moves
<1>4. CASE EnvStep
  BY <1>4, EnvShape DEF DeniedInv, At
<1> QED BY <1>1, <1>2, <1>3, <1>4, AloneStep

LEMMA MapNext ==
  ASSUME Emits \subseteq {"off", "on"}, TypeOK, FedInv, MarkInv, MapInv, [Next]_vars
  PROVE  MapInv'
<1>1. CASE Aside
  BY <1>1 DEF MapInv, Aside, noted, Halfway
<1>2. ASSUME NEW p \in Pkgs, BeginsDelay(p) PROVE MapInv'
  <2>1. \A r \in Pkgs : state'[r] = "FROZEN" <=> state[r] = "FROZEN"
    BY <1>2 DEF BeginsDelay, TypeOK
  <2> QED BY <1>2, <2>1 DEF MapInv, BeginsDelay, Halfway
<1>3. ASSUME NEW p \in Pkgs, Moves(p) PROVE MapInv'
  <2> USE DEF appVars, cgVars
  <2>1. CASE \/ At(Tmr, "uf_move", p) /\ UnfreezeMove(Tmr, p)
             \/ At(Tmr, "df_move", p) /\ FreezeMove(Tmr, p)
             \/ At(Tmr, "df_count", p) /\ FreezeCount(Tmr, p)
    BY <2>1 DEF MapInv, At, UnfreezeMove, FreezeMove, FreezeCount
  <2>2. CASE At(Tmr, "uf_mark", p) /\ At(Tmr, "uf_side", p)' /\ UnfreezeMark(Tmr, p)
    BY <2>2 DEF MapInv, At, UnfreezeMark
  <2>3. CASE At(Tmr, "df_mark", p) /\ FreezeMark(Tmr, p)
    BY <2>3 DEF TypeOK, MapInv, FreezeMark
  <2>4. CASE At(Tmr, "uf_side", p) /\ UnfreezeSide(Tmr, p)
    BY <2>4 DEF MapInv, UnfreezeSide
  <2>5. CASE At(Tmr, "df_side", p) /\ FreezeSide(Tmr, p)
    BY <2>5 DEF MapInv, MarkInv, FreezeSide
  <2> QED BY <1>3, <2>1, <2>2, <2>3, <2>4, <2>5 DEF Moves
<1>4. CASE EnvStep
  <2>1. CASE Restart
    BY <2>1 DEF MapInv, Restart
  <2>2. CASE ~Restart
    BY <1>4, <2>2 DEF MapInv, EnvStep, ProcStarts, ProcExits, ThreadExits, SystemThaw,
      SystemMigrates, TopAppChanges, ScreenToggles, EditWhitelist, EditRestrict,
      FreezerReenabled, daemonVars, appVars, cgVars
  <2> QED BY <2>1, <2>2
<1> QED BY <1>1, <1>2, <1>3, <1>4, AloneStep

LEMMA AloneInit ==
  Init => FedInv /\ MarkInv /\ StillInv /\ HeldInv /\ DeniedInv /\ MapInv
BY PkgsAssumption DEF Init, FedInv, MarkInv, StillInv, HeldInv, DeniedInv, MapInv, At, Threads,
  Bpf, Tmr

LEMMA MarkAlways ==
  ASSUME Emits \subseteq {"off", "on"}
  PROVE  Spec => [](TypeOK /\ FedInv /\ MarkInv)
<1>1. TypeOK /\ FedInv /\ MarkInv /\ [Next]_vars => FedInv' /\ MarkInv'
  BY FedNext, MarkNext
<1> QED BY <1>1, TypeInit, TypeNext, AloneInit, PTL DEF Spec

\* As long as the daemon is not restarted, at rest nothing of an app on record as RUNNING
\* or PENDING_BG stands in the frozen group, whatever the system does to processes, knob
\* and settings: it is do_unfreeze without PidCache that finds them all.
THEOREM ThawedUnlessFrozen ==
  ASSUME Emits \subseteq {"off", "on"}, "restart" \notin Env
  PROVE  Spec => []RunningIsThawed
<1>1. StillInv => RunningIsThawed
  BY DEF StillInv, RunningIsThawed, Quiescent, Live, Stopped, At
<1>2. TypeOK /\ FedInv /\ MarkInv /\ StillInv /\ [Next]_vars => StillInv'
  BY StillNext
<1> QED BY <1>1, <1>2, AloneInit, MarkAlways, PTL DEF Spec

\* With the poll, delayed freezes and sweeps, and processes that may exit but that nobody
\* else starts or moves: at rest, the apps on record as FROZEN are those that stand still.
THEOREM RecordsAgree ==
  ASSUME Emits \subseteq {"off", "on"}, Env \subseteq {"exit", "thread", "edit", "reenable"}
  PROVE  Spec => []RecordsMatchKernel
<1>1. TypeOK /\ StillInv /\ HeldInv => RecordsMatchKernel
  BY DEF TypeOK, StillInv, HeldInv, RecordsMatchKernel, Quiescent, Live, Stopped, At
<1>2. TypeOK /\ FedInv /\ MarkInv /\ StillInv /\ HeldInv /\ [Next]_vars => StillInv' /\ HeldInv'
  BY StillNext, HeldNext
<1> QED BY <1>1, <1>2, AloneInit, MarkAlways, PTL DEF Spec

\* As long as nobody edits the list of exempt apps and the daemon is not restarted, AppOps
\* are denied at rest to apps on record as FROZEN only.
THEOREM RevokedAgree ==
  ASSUME Emits \subseteq {"off", "on"}, Env \cap {"restart", "edit"} = {}
  PROVE  Spec => []RevokedIsFrozen
<1>1. DeniedInv => RevokedIsFrozen
  BY DEF DeniedInv, RevokedIsFrozen, Quiescent, At
<1>2. TypeOK /\ FedInv /\ MarkInv /\ DeniedInv /\ [Next]_vars => DeniedInv'
  BY DeniedNext
<1> QED BY <1>1, <1>2, AloneInit, MarkAlways, PTL DEF Spec

\* our_frozen_cgroups never names the frozen group at rest without an app that is frozen
\* (freeze_engine.h:282): no thaw of the knob is reported for nothing.
THEOREM MapForFrozen ==
  ASSUME Emits \subseteq {"off", "on"}
  PROVE  Spec => []MapOnlyFrozen
<1>1. MapInv => MapOnlyFrozen
  BY DEF MapInv, MapOnlyFrozen, Quiescent
<1>2. TypeOK /\ FedInv /\ MarkInv /\ MapInv /\ [Next]_vars => MapInv'
  BY MapNext
<1> QED BY <1>1, <1>2, AloneInit, MarkAlways, PTL DEF Spec

(***************************************************************************)
(* Who waits is in the background                                           *)
(***************************************************************************)
\* Nothing is given up for a while, as no system thaw is reported.
NoBackoff == \A i \in TimerIds : timers[i].kind # "backoff"

\* An app that waits is not the one in front, but while the worker is about to release it;
\* and the worker does not take an app for gone that came back meanwhile.
BackInv ==
  /\ \A p \in Pkgs : state[p] = "PENDING_BG" /\ curFg = p =>
       \E l \in {"fg_wait", "uf_move", "uf_mark"} : At(Tmr, l, p)
  /\ \A p \in Pkgs : At(Tmr, "bg_wait", p) => curFg # p

\* A step by which no app begins to wait or comes to the front.
LEMMA BackQuiet ==
  ASSUME BackInv, curFg' \in {curFg, NoPkg},
         \A p \in Pkgs : state'[p] = "PENDING_BG" => state[p] = "PENDING_BG",
         \/ pc'[Tmr] = pc[Tmr] /\ arg'[Tmr] = arg[Tmr]
         \/ pc[Tmr] \notin {"fg_wait", "uf_move", "uf_mark"} /\ pc'[Tmr] # "bg_wait"
  PROVE  BackInv'
  BY PkgsAssumption DEF BackInv, At

LEMMA NoBackoffNext ==
  ASSUME Emits \subseteq {"off", "on", "died", "tdied"}, TypeOK, FedInv, NoBackoff, [Next]_vars
  PROVE  NoBackoff'
<1> USE DEF appVars, timerVars
<1>a. ASSUME UNCHANGED timers \/ \E j : timers' = Cancelled(j) PROVE NoBackoff'
  BY <1>a DEF NoBackoff, Cancelled, NoCallback
<1>1. ASSUME NEW p \in Pkgs,
             \/ Foreground(Tmr, p)
             \/ UnfreezeMove(Tmr, p) \/ UnfreezeMark(Tmr, p) \/ UnfreezeSide(Tmr, p)
             \/ Background(Tmr, p) \/ FreezeCheck(Tmr, p) \/ FreezeMove(Tmr, p)
             \/ FreezeMark(Tmr, p) \/ FreezeCount(Tmr, p) \/ FreezeSide(Tmr, p)
      PROVE  NoBackoff'
  BY <1>1, <1>a DEF Foreground, UnfreezeMove, UnfreezeMark, UnfreezeSide, Background,
    FreezeCheck, FreezeMove, FreezeMark, FreezeCount, FreezeSide
<1>2. ASSUME NEW p \in Pkgs, BackgroundArm(Tmr, p) PROVE NoBackoff'
  BY <1>2 DEF TypeOK, BackgroundArm, NoBackoff
<1>3. CASE \/ \E p \in Pkgs : \/ FreezeCallback(p) \/ SweepNext(p) \/ SweepLast(p)
                             \/ PollBackground(p) \/ PollForeground(p) \/ Poll(p)
           \/ SweepStart \/ SweepEnd \/ EnterDeepSleep \/ FireDeepSleep \/ FireGuard
           \/ (\E answered \in BOOLEAN : FreezerCheck(answered))
           \/ \E i \in TimerIds : Fire(i)
  BY <1>3, <1>a DEF FreezeCallback, SweepNext, SweepLast, SweepVisit, PollBackground,
    PollForeground, Poll, SweepStart, SweepEnd, EnterDeepSleep, FireDeepSleep, FireGuard,
    FreezerCheck, Fire, FireSweep, FireFreeze, FireBackoff, Take
<1>4. CASE BpfStep
  <2>1. CASE ScreenOff
    BY <2>1 DEF ScreenOff, NoBackoff, Cancelled, NoCallback
  <2>2. CASE ~ScreenOff
    BY <1>4, <1>a, <2>2, FedBpf DEF DispatchScreen, ScreenOn, DispatchDied, ProcDied
  <2> QED BY <2>1, <2>2
<1>5. CASE EnvStep \/ UNCHANGED vars
  <2>1. CASE Restart
    BY <2>1 DEF Restart, NoBackoff, NoCallback
  <2>2. CASE ~Restart
    BY <1>5, <1>a, <2>2 DEF vars, EnvStep, ProcStarts, ProcExits, ThreadExits, SystemThaw,
      SystemMigrates, TopAppChanges, ScreenToggles, EditWhitelist, EditRestrict,
      FreezerReenabled, daemonVars
  <2> QED BY <2>1, <2>2
<1>6. CASE HandlerStep(Tmr)
  BY <1>1, <1>2, <1>6 DEF HandlerStep
<1> QED BY <1>3, <1>4, <1>5, <1>6 DEF Next, WorkerStep, TimerStep

LEMMA BackNext ==
  ASSUME Emits \subseteq {"off", "on", "died", "tdied"}, TypeOK, FedInv, NoBackoff, BackInv,
         [Next]_vars
  PROVE  BackInv'
<1>0. Bpf # Tmr /\ Tmr \in Threads /\ Bpf \in Threads
  BY DEF Threads, Bpf, Tmr
<1> USE DEF appVars, timerVars, feedVars
<1>1. CASE BpfStep
  <2>1. pc'[Tmr] = pc[Tmr] /\ arg'[Tmr] = arg[Tmr]
    <3>1. Leave(Bpf) \/ (\E l : Goto(Bpf, l) /\ (UNCHANGED arg \/ \E p : Enter(Bpf, l, p)))
      BY <1>1, FedBpf DEF DispatchScreen, ScreenOff, ScreenOn, DispatchDied, ProcDied, Enter
    <3>2. CASE Leave(Bpf)
      BY <1>0, <3>2, LeaveShape
    <3>3. CASE \E l : Goto(Bpf, l) /\ (UNCHANGED arg \/ \E p : Enter(Bpf, l, p))
      BY <1>0, <3>3 DEF TypeOK, Goto, Enter
    <3> QED BY <3>1, <3>2, <3>3
  <2>2. curFg' \in {curFg, NoPkg}
    BY <1>1, FedBpf DEF DispatchScreen, ScreenOff, ScreenOn, DispatchDied, ProcDied, NoteGone
  <2>3. \A p \in Pkgs : state'[p] = "PENDING_BG" => state[p] = "PENDING_BG"
    BY <1>1, FedBpf DEF TypeOK, DispatchScreen, ScreenOff, ScreenOn, DispatchDied, ProcDied
  <2> QED BY <2>1, <2>2, <2>3, BackQuiet
<1>2. ASSUME NEW p \in Pkgs, Foreground(Tmr, p) PROVE BackInv'
  <2>1. At(Tmr, "fg_wait", p) /\ UNCHANGED <<state, curFg>>
    BY <1>2 DEF Foreground
  <2>2. CASE state[p] = "RUNNING"
    <3>1. pc'[Tmr] \in {"idle", "poll_fg"}
      BY <1>0, <1>2, <2>2, LeaveShape DEF Foreground
    <3> QED BY <2>1, <2>2, <3>1 DEF BackInv, At
  <2>3. CASE state[p] # "RUNNING"
    BY <1>0, <1>2, <2>1, <2>3 DEF TypeOK, Foreground, BackInv, At, Goto
  <2> QED BY <2>2, <2>3
<1>3. ASSUME NEW p \in Pkgs, UnfreezeMove(Tmr, p) PROVE BackInv'
  BY <1>0, <1>3 DEF TypeOK, UnfreezeMove, BackInv, At, Goto
<1>4. ASSUME NEW p \in Pkgs, UnfreezeMark(Tmr, p) PROVE BackInv'
  BY <1>0, <1>4 DEF TypeOK, UnfreezeMark, BackInv, At, Goto
<1>5. ASSUME NEW p \in Pkgs, Background(Tmr, p) PROVE BackInv'
  <2>1. At(Tmr, "bg_wait", p) /\ curFg # p /\ curFg' = curFg
    BY <1>5 DEF Background, BackInv
  <2>2. pc'[Tmr] # "bg_wait"
    BY <1>0, <1>5, LeaveShape DEF TypeOK, Background, Goto
  <2>3. \A r \in Pkgs \ {p} : state'[r] = state[r]
    BY <1>5 DEF TypeOK, Background
  <2> QED BY <2>1, <2>2, <2>3 DEF BackInv, At
<1>6. ASSUME NEW p \in Pkgs,
             \/ UnfreezeSide(Tmr, p) \/ BackgroundArm(Tmr, p) \/ FreezeCheck(Tmr, p)
             \/ FreezeMove(Tmr, p) \/ FreezeMark(Tmr, p) \/ FreezeCount(Tmr, p)
             \/ FreezeSide(Tmr, p)
      PROVE  BackInv'
  <2>1. /\ curFg' = curFg
        /\ pc[Tmr] \notin {"fg_wait", "uf_move", "uf_mark"}
        /\ \A r \in Pkgs : state'[r] = "PENDING_BG" => state[r] = "PENDING_BG"
    BY <1>6 DEF TypeOK, UnfreezeSide, BackgroundArm, FreezeCheck, FreezeMove, FreezeMark,
      FreezeCount, FreezeSide, At
  <2>2. \/ Leave(Tmr) \/ Return(Tmr)
        \/ \E l \in {"df_move", "df_mark", "df_count", "df_side"} : Goto(Tmr, l)
    BY <1>6 DEF UnfreezeSide, BackgroundArm, FreezeCheck, FreezeMove, FreezeMark,
      FreezeCount, FreezeSide, Release
  <2>3. pc'[Tmr] # "bg_wait"
    BY <1>0, <2>2, LeaveShape, ReturnShape DEF TypeOK, Goto
  <2> QED BY <2>1, <2>3, BackQuiet
<1>7. ASSUME NEW p \in Pkgs, PollBackground(p) PROVE BackInv'
  <2>1. pc[Tmr] = "poll_bg" /\ arg[Tmr] = p /\ UNCHANGED <<state, arg>>
        /\ curFg' = IF curFg = p THEN NoPkg ELSE curFg
    BY <1>7 DEF PollBackground, At, NoteGone
  <2> QED BY <2>1, PkgsAssumption DEF BackInv, At
<1>8. ASSUME NEW p \in Pkgs, PollForeground(p) PROVE BackInv'
  BY <1>0, <1>8 DEF TypeOK, PollForeground, NoteForeground, BackInv, At, Enter, Goto
<1>9. CASE \/ \E p \in Pkgs : \/ FreezeCallback(p) \/ SweepNext(p) \/ SweepLast(p) \/ Poll(p)
           \/ SweepStart \/ SweepEnd \/ EnterDeepSleep \/ FireDeepSleep \/ FireGuard
           \/ (\E answered \in BOOLEAN : FreezerCheck(answered))
           \/ \E i \in TimerIds : Fire(i)
  <2>1. \A i \in TimerIds, p \in Pkgs : ~FireBackoff(i, p)
    BY DEF NoBackoff, FireBackoff
  <2>2. /\ UNCHANGED <<state, curFg>>
        /\ pc[Tmr] \notin {"fg_wait", "uf_move", "uf_mark", "bg_wait"}
        /\ \/ Leave(Tmr) \/ UNCHANGED pc
           \/ \E l \in Labels \ {"bg_wait"} : Goto(Tmr, l)
    BY <1>9, <2>1 DEF FreezeCallback, SweepNext, SweepLast, SweepVisit, Poll, SweepStart,
      SweepEnd, EnterDeepSleep, FireDeepSleep, FireGuard, FreezerCheck, Fire, FireSweep,
      FireFreeze, WorkerFree, Enter, At, Labels, Waiting, Freezing, Outside
  <2>3. pc'[Tmr] # "bg_wait"
    BY <1>0, <2>2, LeaveShape DEF TypeOK, Goto
  <2> QED BY <2>2, <2>3, BackQuiet
<1>10. CASE EnvStep \/ UNCHANGED vars
  <2>1. CASE Restart
    BY <2>1 DEF Restart, BackInv, At, Threads, Tmr
  <2>2. CASE ~Restart
    <3>1. UNCHANGED <<state, curFg, pc, arg>>
      BY <1>10, <2>2 DEF vars, EnvStep, ProcStarts, ProcExits, ThreadExits, SystemThaw,
        SystemMigrates, TopAppChanges, ScreenToggles, EditWhitelist, EditRestrict,
        FreezerReenabled, daemonVars
    <3> QED BY <3>1, BackQuiet
  <2> QED BY <2>1, <2>2
<1>11. CASE HandlerStep(Tmr)
  BY <1>2, <1>3, <1>4, <1>5, <1>6, <1>11 DEF HandlerStep
<1> QED BY <1>1, <1>7, <1>8, <1>9, <1>10, <1>11 DEF Next, WorkerStep, TimerStep

\* Where no probe shows apps come and go and only the poll does, whatever else happens: at
\* rest, an app that waits for its freeze is not the one in front (app_state.h:11).  It is
\* the eBPF thread's "fg" or a back-off over an app in front that breaks this.
THEOREM WaitsInBackground ==
  ASSUME Emits \subseteq {"off", "on", "died", "tdied"}
  PROVE  Spec => []PendingIsBackground
<1>1. Init => FedInv /\ NoBackoff /\ BackInv
  BY AloneInit DEF Init, NoBackoff, NoCallback, BackInv, At, Threads, Tmr
<1>2. TypeOK /\ FedInv /\ NoBackoff /\ BackInv /\ [Next]_vars => FedInv' /\ NoBackoff' /\ BackInv'
  BY FedNext, NoBackoffNext, BackNext
<1>3. BackInv => PendingIsBackground
  BY DEF BackInv, PendingIsBackground, Quiescent, At
<1> QED BY <1>1, <1>2, <1>3, TypeInit, TypeNext, PTL DEF Spec

(***************************************************************************)
(* Doze                                                                     *)
(***************************************************************************)
\* The phone is in Doze exactly when in_deep_sleep_ says so, and cancel_and_exit leaves
\* neither behind.
DozeInv == (idleForced <=> inDeep) /\ (cancelled => ~inDeep)

LEMMA DozeNext ==
  ASSUME "restart" \notin Env, TypeOK, DozeInv, [Next]_vars
  PROVE  DozeInv'
<1> USE DEF deepVars, asideVars
<1>0. Deep!DsTypeOK
  BY DEF TypeOK
<1>a. ASSUME \/ UNCHANGED deepVars \/ Deep!Schedule \/ Deep!CancelAndExit \/ Deep!Fire
             \/ Deep!Enter
      PROVE  DozeInv'
  <2>1. CASE UNCHANGED deepVars \/ Deep!Fire
    BY <2>1 DEF DozeInv, Deep!Fire
  <2>2. CASE Deep!Schedule
    BY <2>2 DEF DozeInv, Deep!Schedule
  <2>3. CASE Deep!CancelAndExit
    BY <2>3, Zenon DEF DozeInv, Deep!CancelAndExit
  <2>4. CASE Deep!Enter
    BY <2>4, Zenon DEF DozeInv, Deep!Enter
  <2> QED BY <1>a, <2>1, <2>2, <2>3, <2>4
<1>1. ASSUME NEW t \in Threads, NEW p \in Pkgs,
             \/ Foreground(t, p) \/ UnfreezeMove(t, p) \/ UnfreezeMark(t, p) \/ UnfreezeSide(t, p)
             \/ Background(t, p) \/ BackgroundArm(t, p)
             \/ FreezeCheck(t, p) \/ FreezeMove(t, p) \/ FreezeMark(t, p)
             \/ FreezeCount(t, p) \/ FreezeSide(t, p)
      PROVE  UNCHANGED deepVars
  <2>1. UNCHANGED asideVars
    <3> HIDE DEF asideVars
    <3> QED
      BY <1>1 DEF Foreground, UnfreezeMove, UnfreezeMark, UnfreezeSide, Background,
        BackgroundArm, FreezeCheck, FreezeMove, FreezeMark, FreezeCount, FreezeSide
  <2> QED BY <2>1
<1>2. CASE \/ \E p \in Pkgs : \/ FreezeCallback(p) \/ SweepNext(p) \/ SweepLast(p)
                             \/ PollBackground(p) \/ PollForeground(p) \/ Poll(p)
           \/ SweepStart \/ SweepEnd \/ FireGuard
           \/ (\E answered \in BOOLEAN : FreezerCheck(answered))
           \/ \E i \in TimerIds : Fire(i)
  <2>1. UNCHANGED deepVars
    BY <1>2 DEF FreezeCallback, SweepNext, SweepLast, SweepVisit, PollBackground,
      PollForeground, Poll, SweepStart, SweepEnd, FireGuard, FreezerCheck, Fire, FireSweep,
      FireFreeze, FireBackoff
  <2> QED BY <1>a, <2>1
<1>3. CASE \/ \E q \in Procs : DispatchDied(q) \/ DispatchMove(q) \/ DispatchUnfreeze(q)
           \/ \E p \in Pkgs : ProcDied(p) \/ SystemUnfreeze(p) \/ BounceLimitReached(p)
           \/ DispatchScreen
  <2>1. UNCHANGED deepVars
    BY <1>3 DEF DispatchDied, DispatchMove, DispatchUnfreeze, DispatchScreen, ProcDied,
      SystemUnfreeze, BounceLimitReached
  <2> QED BY <1>a, <2>1
<1>4. CASE ScreenOff \/ ScreenOn \/ FireDeepSleep \/ EnterDeepSleep
  <2>1. \/ UNCHANGED deepVars \/ Deep!Schedule \/ Deep!CancelAndExit \/ Deep!Fire \/ Deep!Enter
    BY <1>4 DEF ScreenOff, ScreenOn, FireDeepSleep, EnterDeepSleep
  <2> QED BY <1>a, <2>1
<1>5. CASE EnvStep \/ UNCHANGED vars
  <2>1. UNCHANGED deepVars
    BY <1>5 DEF vars, EnvStep, ProcStarts, ProcExits, ThreadExits, SystemThaw,
      SystemMigrates, TopAppChanges, ScreenToggles, EditWhitelist, EditRestrict,
      FreezerReenabled, Restart, daemonVars
  <2> QED BY <1>a, <2>1
<1>6. CASE \E t \in Threads : HandlerStep(t)
  BY <1>1, <1>6, <1>a DEF HandlerStep
<1> QED BY <1>2, <1>3, <1>4, <1>5, <1>6 DEF Next, BpfStep, WorkerStep, TimerStep, Threads

\* As long as the daemon is not restarted, Doze ends when the screen comes on, whatever
\* callback of the deep sleep is on its way (README.md:61, deep_sleep_manager.h:44); what
\* breaks it is that nobody reads deep_sleep.lock after a restart.
THEOREM DozeEnds ==
  ASSUME "restart" \notin Env
  PROVE  Spec => []DozeEndsWithScreenOn
<1>1. Init => DozeInv
  BY DEF Init, Deep!DsInit, DozeInv
<1>2. TypeOK /\ DozeInv /\ [Next]_vars => DozeInv'
  BY DozeNext
<1>3. TypeOK /\ DozeInv => DozeEndsWithScreenOn
  BY DEF TypeOK, Deep!DsTypeOK, DozeInv, DozeEndsWithScreenOn
<1> QED BY <1>1, <1>2, <1>3, TypeInit, TypeNext, PTL DEF Spec

(***************************************************************************)
(* The exempt apps                                                          *)
(***************************************************************************)
\* Only do_freeze and do_unfreeze touch AppOps, and only the settings' editor the list.
LEMMA ExemptNext ==
  ASSUME "edit" \notin Env, TypeOK, exempt \cap revoked = {}, [Next]_vars
  PROVE  exempt' \cap revoked' = {}
<1> USE DEF asideVars, confVars
<1>1. ASSUME NEW t \in Threads, NEW p \in Pkgs,
             \/ Foreground(t, p) \/ UnfreezeMove(t, p) \/ UnfreezeMark(t, p)
             \/ Background(t, p) \/ BackgroundArm(t, p)
             \/ FreezeCheck(t, p) \/ FreezeMove(t, p) \/ FreezeMark(t, p)
             \/ FreezeCount(t, p)
      PROVE  UNCHANGED <<exempt, revoked>>
  BY <1>1 DEF Foreground, UnfreezeMove, UnfreezeMark, Background,
    BackgroundArm, FreezeCheck, FreezeMove, FreezeMark, FreezeCount
<1>2. ASSUME NEW t \in Threads, NEW p \in Pkgs, UnfreezeSide(t, p) \/ FreezeSide(t, p)
      PROVE  exempt' \cap revoked' = {}
  <2>1. exempt' = exempt /\ revoked' \subseteq revoked \cup ({p} \ exempt)
    BY <1>2 DEF UnfreezeSide, FreezeSide
  <2> QED BY <2>1
<1>3. CASE \/ \E p \in Pkgs : \/ FreezeCallback(p) \/ SweepNext(p) \/ SweepLast(p)
                             \/ PollBackground(p) \/ PollForeground(p) \/ Poll(p)
           \/ SweepStart \/ SweepEnd \/ EnterDeepSleep \/ FireDeepSleep \/ FireGuard
           \/ (\E answered \in BOOLEAN : FreezerCheck(answered))
           \/ \E i \in TimerIds : Fire(i)
  BY <1>3 DEF FreezeCallback, SweepNext, SweepLast, SweepVisit, PollBackground,
    PollForeground, Poll, SweepStart, SweepEnd, EnterDeepSleep, FireDeepSleep, FireGuard,
    FreezerCheck, Fire, FireSweep, FireFreeze, FireBackoff
<1>4. CASE \/ \E q \in Procs : DispatchDied(q) \/ DispatchMove(q) \/ DispatchUnfreeze(q)
           \/ \E p \in Pkgs : ProcDied(p) \/ SystemUnfreeze(p) \/ BounceLimitReached(p)
           \/ DispatchScreen \/ ScreenOff \/ ScreenOn
  BY <1>4 DEF DispatchDied, DispatchMove, DispatchUnfreeze, DispatchScreen, ProcDied,
    SystemUnfreeze, BounceLimitReached, ScreenOff, ScreenOn
<1>5. CASE EnvStep \/ UNCHANGED vars
  BY <1>5 DEF vars, EnvStep, ProcStarts, ProcExits, ThreadExits, SystemThaw,
    SystemMigrates, TopAppChanges, ScreenToggles, EditWhitelist, EditRestrict,
    FreezerReenabled, Restart, daemonVars
<1>6. CASE \E t \in Threads : HandlerStep(t)
  BY <1>1, <1>2, <1>6 DEF HandlerStep
<1> QED BY <1>3, <1>4, <1>5, <1>6 DEF Next, BpfStep, WorkerStep, TimerStep, Threads

\* As long as nobody edits the list, an exempt app never loses its AppOps, not even to the
\* delayed freeze that does not look at the list (uninstall.sh:136).
THEOREM ExemptKeep ==
  ASSUME "edit" \notin Env
  PROVE  Spec => []ExemptKeepsAppOps
<1>1. Init => exempt \cap revoked = {}
  BY DEF Init
<1>2. TypeOK /\ exempt \cap revoked = {} /\ [Next]_vars => (exempt \cap revoked = {})'
  BY ExemptNext
<1>3. exempt \cap revoked = {} => ExemptKeepsAppOps
  BY DEF ExemptKeepsAppOps
<1> QED BY <1>1, <1>2, <1>3, TypeInit, TypeNext, PTL DEF Spec

=============================================================================
