---------------------------- MODULE FreezeEngine ----------------------------
(***************************************************************************)
(* The core of freeze_daemon: core/freeze_engine.h on the per-app records  *)
(* of core/app_state.h, driven by                                           *)
(*   - the eBPF ring-buffer thread (Bpf), which runs                        *)
(*     EventDispatcher::dispatch on one event at a time, and                *)
(*   - the one worker thread of TimerManager (Tmr), which runs every timer  *)
(*     callback: delayed freeze, screen-off sweep, back-off, deep sleep,    *)
(*     freezer guard and the 30 s foreground poll of main.cpp.              *)
(*                                                                          *)
(* A step is what happens between two points where the other thread, the    *)
(* kernel or the user can be noticed.  Time is abstracted: an armed timer   *)
(* may fire at any moment at which the worker is free.                      *)
(***************************************************************************)
EXTENDS Integers, Sequences, FiniteSets

CONSTANTS
  Pkgs,             \* managed packages
  Procs,            \* process ids
  PkgOf,            \* [Procs -> Pkgs]
  Cached,           \* packages read from packages.list when the daemon starts
  Whitelist,        \* user_whitelist.txt when the daemon starts
  BounceLimit,      \* bounce_limit
  SuspectThreshold, \* FREEZER_SUSPECT_THRESHOLD
  DeepSleepOn,      \* deep_sleep_on
  HasMap,           \* BPF loaded and cgroup.id readable
  Emits,            \* the event kinds the attached probes produce
  Env,              \* what the system and the user do in this instance
  TimerIds,         \* BOUND: timers that exist at one time
  MaxBackoffs,      \* BOUND: back-off timers among them
  RingSize,         \* BOUND: events the ring buffer holds
  NoPkg, NoProc, NoTimer, NoThread

EventKinds == {"fg", "bg", "off", "on", "died", "tdied", "unfreeze"}
EnvKinds ==
  {"start", "exit", "thread", "thaw", "migrate", "edit", "reenable", "restart"}

ASSUME PkgsAssumption == NoPkg \notin Pkgs /\ Cached \subseteq Pkgs /\ Whitelist \subseteq Pkgs
ASSUME ProcsAssumption == NoProc \notin Procs /\ PkgOf \in [Procs -> Pkgs]
ASSUME TimersAssumption == NoTimer \notin TimerIds
ASSUME ThreadAssumption == NoThread \notin {"bpf", "timer"}
ASSUME NumbersAssumption ==
  /\ BounceLimit \in Int
  /\ SuspectThreshold \in Nat \ {0}
  /\ RingSize \in Nat /\ MaxBackoffs \in Nat
ASSUME FlagsAssumption == DeepSleepOn \in BOOLEAN /\ HasMap \in BOOLEAN
ASSUME KindsAssumption == Emits \subseteq EventKinds /\ Env \subseteq EnvKinds

Bpf == "bpf"
Tmr == "timer"
Threads == {Bpf, Tmr}

VARIABLES
  \* AppStateStore: an absent entry reads as RUNNING, 0, INVALID_TIMER
  state,       \* [Pkgs -> {"RUNNING", "PENDING_BG", "FROZEN"}]
  bounce,      \* bounce_count
  pending,     \* pending_timer
  \* TimerManager, as the engine sees it
  timers,      \* the callback in timers_ under each id, or NoCallback
  screenTimer, \* screen_off_timer_
  \* the two threads
  owner,       \* who holds FreezeEngine::mutex_
  pc, arg,     \* where each thread is, and the package it works on
  todo,        \* the snapshot of freeze_all_managed still to visit
  sweepFg,     \* its last_foreground, until visited
  pollNext,    \* the foreground package a poll has yet to report
  \* RunningCache, EventDispatcher, PidCache, main.cpp's SharedState
  running, curFg, lastFg,
  uidKnown,    \* packages in uid_to_pkg_ and pkg_to_uid_
  pidCache,    \* pids in PidCache
  \* freezer guard
  suspect,     \* freezer_suspect_count_
  sysFreezer,  \* device_config use_freezer
  \* the kernel
  cg,          \* each process: "dead", or the cgroup it is in
  knob,        \* cgroup.freeze of the frozen group
  mapHas,      \* our_frozen_cgroups holds the id of the frozen group
  ring,        \* the ring buffer, oldest event first
  \* AppOps and settings
  revoked, exempt, restrict,
  \* DeepSleepManager
  dsArmed, dsFired, dsStale, inDeep, cancelled, idleForced,
  screen       \* history: the screen event handled last

Deep == INSTANCE DeepSleepManager

appVars    == <<state, bounce, pending>>
timerVars  == <<timers, screenTimer>>
sweepVars  == <<todo, sweepFg, pollNext>>
feedVars   == <<running, curFg, lastFg, uidKnown, pidCache>>
guardVars  == <<suspect, sysFreezer>>
cgVars     == <<cg, knob, mapHas>>
confVars   == <<exempt, restrict>>
deepVars   == <<dsArmed, dsFired, dsStale, inDeep, cancelled, idleForced>>
\* What the handlers of one app's state leave alone.
asideVars  == <<guardVars, ring, confVars, deepVars, screen>>

vars == <<state, bounce, pending, timers, screenTimer, owner, pc, arg, todo,
          sweepFg, pollNext, running, curFg, lastFg, uidKnown, pidCache,
          suspect, sysFreezer, cg, knob, mapHas, ring, revoked, exempt, restrict,
          dsArmed, dsFired, dsStale, inDeep, cancelled, idleForced, screen>>

(***************************************************************************)
(* Types                                                                    *)
(***************************************************************************)
Callback == [kind : {"none", "freeze", "sweep", "backoff"}, pkg : Pkgs \cup {NoPkg}]
NoCallback == [kind |-> "none", pkg |-> NoPkg]

Event == [kind : EventKinds, proc : Procs \cup {NoProc}]

\* Labels at which a thread waits for the engine's mutex ...
Waiting == {"fg_wait", "bg_wait", "cb_wait", "gd_wait",
            "off_wait", "on_wait", "died_wait", "unfreeze_wait"}
\* ... at which it holds it, unless it is the screen-off sweep that got there ...
Freezing == {"df_check", "df_move", "df_mark", "df_count", "df_side"}
\* ... at which it always holds it, and at which it never does.
Locked   == {"uf_move", "uf_mark", "uf_side", "bg_arm"}
Outside  == {"idle", "poll_bg", "poll_fg", "sw_start", "sw_next", "ds_enter"}

Labels == Waiting \cup Freezing \cup Locked \cup Outside

TypeOK ==
  /\ state \in [Pkgs -> {"RUNNING", "PENDING_BG", "FROZEN"}]
  /\ bounce \in [Pkgs -> Nat]
  /\ pending \in [Pkgs -> TimerIds \cup {NoTimer}]
  /\ timers \in [TimerIds -> Callback]
  /\ screenTimer \in TimerIds \cup {NoTimer}
  /\ owner \in Threads \cup {NoThread}
  /\ pc \in [Threads -> Labels]
  /\ arg \in [Threads -> Pkgs \cup {NoPkg}]
  /\ todo \subseteq Pkgs
  /\ sweepFg \in Pkgs \cup {NoPkg}
  /\ pollNext \in Pkgs \cup {NoPkg}
  /\ running \subseteq Pkgs
  /\ curFg \in Pkgs \cup {NoPkg}
  /\ lastFg \in Pkgs \cup {NoPkg}
  /\ uidKnown \subseteq Pkgs
  /\ pidCache \subseteq Procs
  /\ suspect \in 0 .. (SuspectThreshold - 1)
  /\ sysFreezer \in BOOLEAN
  /\ cg \in [Procs -> {"dead", "system", "frozen", "active"}]
  /\ knob \in BOOLEAN
  /\ mapHas \in BOOLEAN
  /\ ring \in Seq(Event)
  /\ revoked \subseteq Pkgs
  /\ exempt \subseteq Pkgs
  /\ restrict \in BOOLEAN
  /\ Deep!DsTypeOK
  /\ screen \in {"on", "off"}

(***************************************************************************)
(* Start                                                                    *)
(***************************************************************************)
\* main() has just run up to its pause() loop, on a phone no daemon ran on before.
Init ==
  /\ state = [p \in Pkgs |-> "RUNNING"]
  /\ bounce = [p \in Pkgs |-> 0]
  /\ pending = [p \in Pkgs |-> NoTimer]
  /\ timers = [i \in TimerIds |-> NoCallback]
  /\ screenTimer = NoTimer
  /\ owner = NoThread
  /\ pc = [t \in Threads |-> "idle"]
  /\ arg = [t \in Threads |-> NoPkg]
  /\ todo = {} /\ sweepFg = NoPkg /\ pollNext = NoPkg
  /\ running = {} /\ curFg = NoPkg /\ lastFg = NoPkg
  /\ uidKnown = Cached /\ pidCache = {}
  /\ suspect = 0
  /\ knob = TRUE          \* init_cgroup_tree writes 1 to cgroup.freeze
  /\ mapHas = FALSE
  /\ ring = << >>
  /\ screen = "on"
  /\ cg \in [Procs -> {"dead", "system"}]
  /\ revoked = {} /\ exempt = Whitelist /\ restrict = TRUE
  /\ sysFreezer = FALSE
  /\ Deep!DsInit

(***************************************************************************)
(* Helpers                                                                  *)
(***************************************************************************)
Live(p) == {q \in Procs : PkgOf[q] = p /\ cg[q] # "dead"}

\* The pids do_freeze and do_unfreeze work on: PidCache once the uid is known,
\* a scan of /proc before that.
PidsOf(p) == IF p \in uidKnown THEN {q \in pidCache : PkgOf[q] = p} ELSE Live(p)

\* Write pids into a group's cgroup.procs; a pid that is gone is refused.
Moved(pids, group) ==
  [q \in Procs |-> IF q \in pids /\ cg[q] # "dead" THEN group ELSE cg[q]]

\* Ids are never reused in the code: an id is free once nothing mentions it.
FreeIds == {i \in TimerIds : /\ timers[i] = NoCallback
                             /\ screenTimer # i
                             /\ \A p \in Pkgs : pending[p] # i}
NewId == CHOOSE i \in FreeIds : TRUE

\* Mutant of Cancelled: the entry's slot goes with the entry.
CancelledShrinks(i) == [j \in TimerIds \ {i} |-> timers[j]]

\* The timer table without entry i (TimerManager::cancel).
Cancelled(i) == [j \in TimerIds |-> IF j = i THEN NoCallback ELSE timers[j]]

\* The worker is free for the next callback.
WorkerFree == pc[Tmr] = "idle"

Goto(t, label) == pc' = [pc EXCEPT ![t] = label]
Enter(t, label, p) == Goto(t, label) /\ arg' = [arg EXCEPT ![t] = p]

\* Back to the loop; a poll that reported the background app goes on with the
\* foreground one.
Leave(t) ==
  Enter(t, IF t = Tmr /\ pollNext # NoPkg THEN "poll_fg" ELSE "idle", NoPkg)

\* Mutant of Release: one return path of the handlers forgets to unlock.
ReleaseForgotten(t) == UNCHANGED owner /\ Leave(t)

\* The lock_guard taken, and released at the end of its scope.
Free == owner = NoThread
Acquire(t) == owner' = t
Release(t) == owner' = NoThread /\ Leave(t)

\* Return from do_freeze: into a handler that holds the mutex, or into
\* freeze_all_managed, which does not.
Return(t) ==
  IF owner = t THEN Release(t)
  ELSE Enter(t, "sw_next", NoPkg) /\ UNCHANGED owner

\* emit_ev: a full ring drops the event.
Emit(kind, q) ==
  ring' = IF kind \in Emits /\ Len(ring) < RingSize
          THEN Append(ring, [kind |-> kind, proc |-> q]) ELSE ring

At(t, label, p) == pc[t] = label /\ arg[t] = p

(***************************************************************************)
(* on_app_foreground, do_unfreeze                                           *)
(***************************************************************************)
Foreground(t, p) ==
  /\ At(t, "fg_wait", p) /\ Free
  /\ timers' = Cancelled(pending[p])
  /\ pending' = [pending EXCEPT ![p] = NoTimer]
  /\ IF state[p] = "RUNNING"
     THEN Leave(t) /\ UNCHANGED owner
     ELSE Goto(t, "uf_move") /\ Acquire(t) /\ UNCHANGED arg
  /\ UNCHANGED <<state, bounce, screenTimer, sweepVars, feedVars, cgVars, revoked,
                 asideVars>>

\* Mutant of UnfreezeMove: asks PidCache only, without the scan of /proc.
UnfreezeMoveCached(t, p) ==
  /\ At(t, "uf_move", p)
  /\ cg' = Moved({q \in pidCache : PkgOf[q] = p}, "active")
  /\ Goto(t, "uf_mark")
  /\ UNCHANGED <<appVars, timerVars, owner, arg, sweepVars, feedVars, knob, mapHas,
                 revoked, asideVars>>

UnfreezeMove(t, p) ==
  /\ At(t, "uf_move", p)
  /\ cg' = Moved(PidsOf(p), "active")
  /\ Goto(t, "uf_mark")
  /\ UNCHANGED <<appVars, timerVars, owner, arg, sweepVars, feedVars, knob, mapHas,
                 revoked, asideVars>>

\* Mutant of UnfreezeMark: keeps the count of bounces.
UnfreezeMarkKeepsCount(t, p) ==
  /\ At(t, "uf_mark", p)
  /\ state' = [state EXCEPT ![p] = "RUNNING"]
  /\ Goto(t, "uf_side")
  /\ UNCHANGED <<bounce, pending, timerVars, owner, arg, sweepVars, feedVars, cgVars,
                 revoked, asideVars>>

UnfreezeMark(t, p) ==
  /\ At(t, "uf_mark", p)
  /\ state' = [state EXCEPT ![p] = "RUNNING"]
  /\ bounce' = [bounce EXCEPT ![p] = 0]
  /\ Goto(t, "uf_side")
  /\ UNCHANGED <<pending, timerVars, owner, arg, sweepVars, feedVars, cgVars,
                 revoked, asideVars>>

\* Mutant of UnfreezeSide: the test of the whitelist the wrong way round.
UnfreezeSideInverted(t, p) ==
  /\ At(t, "uf_side", p)
  /\ mapHas' = (mapHas /\ ~HasMap)
  /\ revoked' = IF restrict /\ p \in exempt THEN revoked \ {p} ELSE revoked
  /\ Release(t)
  /\ UNCHANGED <<appVars, timerVars, sweepVars, feedVars, cg, knob, asideVars>>

\* update_frozen_cgroups_map(pkg, false) deletes the one key of the map,
\* whoever else is frozen; then restore_all.
UnfreezeSide(t, p) ==
  /\ At(t, "uf_side", p)
  /\ mapHas' = (mapHas /\ ~HasMap)
  /\ revoked' = IF restrict /\ p \notin exempt THEN revoked \ {p} ELSE revoked
  /\ Release(t)
  /\ UNCHANGED <<appVars, timerVars, sweepVars, feedVars, cg, knob, asideVars>>

(***************************************************************************)
(* on_app_background, schedule_freeze                                       *)
(***************************************************************************)
\* Mutant of Background: whatever the app's state.
BackgroundAnyway(t, p) ==
  /\ At(t, "bg_wait", p) /\ Free
  /\ FreeIds # {}
  /\ state' = [state EXCEPT ![p] = "PENDING_BG"]
  /\ Goto(t, "bg_arm") /\ Acquire(t) /\ UNCHANGED arg
  /\ UNCHANGED <<bounce, pending, timerVars, sweepVars, feedVars, cgVars, revoked,
                 asideVars>>

Background(t, p) ==
  /\ At(t, "bg_wait", p) /\ Free
  /\ IF state[p] = "RUNNING"
     THEN /\ FreeIds # {}                           \* BOUND
          /\ state' = [state EXCEPT ![p] = "PENDING_BG"]
          /\ Goto(t, "bg_arm") /\ Acquire(t) /\ UNCHANGED arg
     ELSE Leave(t) /\ UNCHANGED <<state, owner>>
  /\ UNCHANGED <<bounce, pending, timerVars, sweepVars, feedVars, cgVars, revoked,
                 asideVars>>

BackgroundArm(t, p) ==
  /\ At(t, "bg_arm", p)
  /\ FreeIds # {}                                   \* seen to by Background
  /\ timers' = [timers EXCEPT ![NewId] = [kind |-> "freeze", pkg |-> p]]
  /\ pending' = [pending EXCEPT ![p] = NewId]
  /\ Release(t)
  /\ UNCHANGED <<state, bounce, screenTimer, sweepVars, feedVars, cgVars, revoked,
                 asideVars>>

(***************************************************************************)
(* The timer callbacks.  TimerManager::fire takes the entry out of the      *)
(* table first and calls it afterwards, with no lock held: from here on     *)
(* cancel no longer reaches it.                                             *)
(***************************************************************************)
Take(i) == timers' = Cancelled(i)

FireFreeze(i, p) ==
  /\ WorkerFree /\ timers[i] = [kind |-> "freeze", pkg |-> p]
  /\ Take(i)
  /\ Enter(Tmr, "cb_wait", p)
  /\ UNCHANGED <<appVars, screenTimer, owner, sweepVars, feedVars, cgVars, revoked,
                 asideVars>>

\* Mutant of FireBackoff: the back-off callback is the delayed freeze's.
FireBackoffAsFreeze(i, p) ==
  /\ WorkerFree /\ timers[i] = [kind |-> "backoff", pkg |-> p]
  /\ Take(i)
  /\ Enter(Tmr, "cb_wait", p)
  /\ UNCHANGED <<appVars, screenTimer, owner, sweepVars, feedVars, cgVars, revoked,
                 asideVars>>

\* The back-off callback is on_app_background.
FireBackoff(i, p) ==
  /\ WorkerFree /\ timers[i] = [kind |-> "backoff", pkg |-> p]
  /\ Take(i)
  /\ Enter(Tmr, "bg_wait", p)
  /\ UNCHANGED <<appVars, screenTimer, owner, sweepVars, feedVars, cgVars, revoked,
                 asideVars>>

\* The foreground package was captured when the timer was armed.
FireSweep(i) ==
  /\ WorkerFree /\ timers[i].kind = "sweep"
  /\ Take(i)
  /\ sweepFg' = timers[i].pkg
  /\ Goto(Tmr, "sw_start")
  /\ UNCHANGED <<appVars, screenTimer, owner, arg, todo, pollNext, feedVars,
                 cgVars, revoked, asideVars>>

\* Mutant of FreezeCallback: freezes without a second look.
FreezeCallbackBlind(p) ==
  /\ At(Tmr, "cb_wait", p) /\ Free
  /\ Goto(Tmr, "df_check") /\ Acquire(Tmr) /\ UNCHANGED arg
  /\ UNCHANGED <<appVars, timerVars, sweepVars, feedVars, cgVars, revoked,
                 asideVars>>

\* The delayed freeze: locks, and looks again whether the app still waits.
FreezeCallback(p) ==
  /\ At(Tmr, "cb_wait", p) /\ Free
  /\ IF state[p] = "PENDING_BG"
     THEN Goto(Tmr, "df_check") /\ Acquire(Tmr) /\ UNCHANGED arg
     ELSE Leave(Tmr) /\ UNCHANGED owner
  /\ UNCHANGED <<appVars, timerVars, sweepVars, feedVars, cgVars, revoked,
                 asideVars>>

(***************************************************************************)
(* do_freeze                                                                *)
(***************************************************************************)
\* is_safe_to_freeze asks dumpsys: any answer.
FreezeCheck(t, p) ==
  /\ At(t, "df_check", p)
  /\ \/ Return(t)
     \/ state[p] # "FROZEN" /\ Goto(t, "df_move") /\ UNCHANGED <<arg, owner>>
  /\ UNCHANGED <<appVars, timerVars, sweepVars, feedVars, cgVars, revoked,
                 asideVars>>

FreezeMove(t, p) ==
  /\ At(t, "df_move", p)
  /\ IF PidsOf(p) = {}
     THEN Return(t) /\ UNCHANGED cg
     ELSE /\ cg' = Moved(PidsOf(p), "frozen")
          /\ Goto(t, "df_mark") /\ UNCHANGED <<arg, owner>>
  /\ UNCHANGED <<appVars, timerVars, sweepVars, feedVars, knob, mapHas, revoked,
                 asideVars>>

FreezeMark(t, p) ==
  /\ At(t, "df_mark", p)
  /\ state' = [state EXCEPT ![p] = "FROZEN"]
  /\ Goto(t, "df_count")
  /\ UNCHANGED <<bounce, pending, timerVars, owner, arg, sweepVars, feedVars, cgVars,
                 revoked, asideVars>>

\* The sweep may be overtaken here by on_system_unfreeze: the bounce it counted
\* is lost.
FreezeCount(t, p) ==
  /\ At(t, "df_count", p)
  /\ bounce' = [bounce EXCEPT ![p] = 0]
  /\ Goto(t, "df_side")
  /\ UNCHANGED <<state, pending, timerVars, owner, arg, sweepVars, feedVars, cgVars,
                 revoked, asideVars>>

FreezeSide(t, p) ==
  /\ At(t, "df_side", p)
  /\ mapHas' = (mapHas \/ HasMap)
  /\ revoked' = IF restrict /\ p \notin exempt THEN revoked \cup {p} ELSE revoked
  /\ Return(t)
  /\ UNCHANGED <<appVars, timerVars, sweepVars, feedVars, cg, knob, asideVars>>

(***************************************************************************)
(* freeze_all_managed: the screen-off sweep, on the worker, without the     *)
(* engine's mutex                                                           *)
(***************************************************************************)
SweepStart ==
  /\ pc[Tmr] = "sw_start"
  /\ todo' = running
  /\ Goto(Tmr, "sw_next")
  /\ UNCHANGED <<appVars, timerVars, owner, arg, sweepFg, pollNext, feedVars,
                 cgVars, revoked, asideVars>>

\* Mutant of SweepVisit: cancels before it looks at the whitelist.
SweepVisitCancelFirst(p) ==
  /\ timers' = Cancelled(pending[p])
  /\ pending' = [pending EXCEPT ![p] = NoTimer]
  /\ IF p \in exempt THEN UNCHANGED <<pc, arg>> ELSE Enter(Tmr, "df_check", p)
  /\ UNCHANGED <<state, bounce, screenTimer, owner, pollNext, feedVars, cgVars,
                 revoked, asideVars>>

\* One package: skipped if whitelisted, else cancel_pending_timer; do_freeze.
SweepVisit(p) ==
  /\ IF p \in exempt
     THEN UNCHANGED <<pc, arg, timers, pending>>
     ELSE /\ timers' = Cancelled(pending[p])
          /\ pending' = [pending EXCEPT ![p] = NoTimer]
          /\ Enter(Tmr, "df_check", p)
  /\ UNCHANGED <<state, bounce, screenTimer, owner, pollNext, feedVars, cgVars,
                 revoked, asideVars>>

\* Mutant of SweepNext: asks the running apps again after each one.
SweepNextLive(p) ==
  /\ pc[Tmr] = "sw_next" /\ p \in todo
  /\ todo' = running \ {p} /\ UNCHANGED sweepFg
  /\ SweepVisit(p)

SweepNext(p) ==
  /\ pc[Tmr] = "sw_next" /\ p \in todo
  /\ todo' = todo \ {p} /\ UNCHANGED sweepFg
  /\ SweepVisit(p)

SweepLast(p) ==
  /\ pc[Tmr] = "sw_next" /\ todo = {} /\ sweepFg = p
  /\ sweepFg' = NoPkg /\ UNCHANGED todo
  /\ SweepVisit(p)

SweepEnd ==
  /\ pc[Tmr] = "sw_next" /\ todo = {} /\ sweepFg = NoPkg
  /\ Goto(Tmr, "idle")
  /\ UNCHANGED <<appVars, timerVars, owner, arg, sweepVars, feedVars, cgVars,
                 revoked, asideVars>>

(***************************************************************************)
(* The 30 s poll of main.cpp, when eBPF events look stale: the app that was *)
(* in front goes to the background, then the one now in front is reported.  *)
(* Whether the poll acts, and what dumpsys answers, is the environment's.   *)
(***************************************************************************)
Poll(cur) ==
  /\ WorkerFree /\ cur # lastFg /\ Live(cur) # {}
  /\ pollNext' = cur
  /\ IF lastFg = NoPkg THEN Goto(Tmr, "poll_fg") /\ UNCHANGED arg
                       ELSE Enter(Tmr, "poll_bg", lastFg)
  /\ UNCHANGED <<appVars, timerVars, owner, todo, sweepFg, feedVars, cgVars,
                 revoked, asideVars>>

\* EventDispatcher::on_background and on_foreground, up to the engine's mutex.
NoteGone(p) == curFg' = IF curFg = p THEN NoPkg ELSE curFg
NoteForeground(p) == curFg' = p /\ running' = running \cup {p}

PollBackground(p) ==
  /\ At(Tmr, "poll_bg", p)
  /\ NoteGone(p)
  /\ Goto(Tmr, "bg_wait")
  /\ UNCHANGED <<appVars, timerVars, owner, arg, sweepVars, running, lastFg,
                 uidKnown, pidCache, cgVars, revoked, asideVars>>

PollForeground(p) ==
  /\ pc[Tmr] = "poll_fg" /\ pollNext = p
  /\ NoteForeground(p)
  /\ lastFg' = p
  /\ pollNext' = NoPkg
  /\ Enter(Tmr, "fg_wait", p)
  /\ UNCHANGED <<appVars, timerVars, owner, todo, sweepFg, uidKnown, pidCache,
                 cgVars, revoked, asideVars>>

(***************************************************************************)
(* EventDispatcher::dispatch: take an event, keep PidCache and the uid maps *)
(* and the foreground name, then call the engine.                           *)
(***************************************************************************)
Oldest == Head(ring)
Receive == pc[Bpf] = "idle" /\ ring # << >> /\ ring' = Tail(ring)

DispatchScreen ==
  /\ Receive /\ Oldest.kind \in {"off", "on"}
  /\ Goto(Bpf, IF Oldest.kind = "off" THEN "off_wait" ELSE "on_wait")
  /\ UNCHANGED <<appVars, timerVars, owner, arg, sweepVars, feedVars, guardVars,
                 cgVars, revoked, confVars, deepVars, screen>>

\* "tdied" is a PROC_DIED whose pid is that of a thread other than the first:
\* the probe sits on a tracepoint every thread passes.
DispatchDied(q) ==
  /\ Receive /\ Oldest.kind \in {"died", "tdied"} /\ Oldest.proc = q
  /\ pidCache' = IF Oldest.kind = "died" THEN pidCache \ {q} ELSE pidCache
  /\ uidKnown' = uidKnown \cup {PkgOf[q]}
  /\ NoteGone(PkgOf[q])
  /\ Enter(Bpf, "died_wait", PkgOf[q])
  /\ UNCHANGED <<appVars, timerVars, owner, sweepVars, running, lastFg, guardVars,
                 cgVars, revoked, confVars, deepVars, screen>>

DispatchMove(q) ==
  /\ Receive /\ Oldest.kind \in {"fg", "bg"} /\ Oldest.proc = q
  /\ pidCache' = pidCache \cup {q}
  /\ uidKnown' = uidKnown \cup {PkgOf[q]}
  /\ IF Oldest.kind = "fg"
     THEN NoteForeground(PkgOf[q]) /\ Enter(Bpf, "fg_wait", PkgOf[q])
     ELSE NoteGone(PkgOf[q]) /\ UNCHANGED running /\ Enter(Bpf, "bg_wait", PkgOf[q])
  /\ UNCHANGED <<appVars, timerVars, owner, sweepVars, lastFg, guardVars, cgVars,
                 revoked, confVars, deepVars, screen>>

\* SYS_UNFREEZE carries no uid, only the pid of the writer of cgroup.freeze:
\* it is resolved in PidCache or in /proc, else the event is dropped.
DispatchUnfreeze(q) ==
  /\ Receive /\ Oldest.kind = "unfreeze" /\ Oldest.proc = q
  /\ IF q \in pidCache \/ cg[q] # "dead"
     THEN /\ pidCache' = pidCache \cup {q}
          /\ uidKnown' = uidKnown \cup {PkgOf[q]}
          /\ Enter(Bpf, "unfreeze_wait", PkgOf[q])
     ELSE UNCHANGED <<pidCache, uidKnown, pc, arg>>
  /\ UNCHANGED <<appVars, timerVars, owner, sweepVars, running, curFg, lastFg,
                 guardVars, cgVars, revoked, confVars, deepVars, screen>>

(***************************************************************************)
(* on_proc_died, on_system_unfreeze                                         *)
(***************************************************************************)
\* Mutant of ProcDied: the record is reset, its timer is not.
ProcDiedKeepsTimer(p) ==
  /\ At(Bpf, "died_wait", p) /\ Free
  /\ running' = running \ {p}
  /\ pending' = [pending EXCEPT ![p] = NoTimer]
  /\ state' = [state EXCEPT ![p] = "RUNNING"]
  /\ bounce' = [bounce EXCEPT ![p] = 0]
  /\ Leave(Bpf)
  /\ UNCHANGED <<timerVars, owner, sweepVars, curFg, lastFg, uidKnown, pidCache,
                 cgVars, revoked, asideVars>>

ProcDied(p) ==
  /\ At(Bpf, "died_wait", p) /\ Free
  /\ running' = running \ {p}
  /\ timers' = Cancelled(pending[p])
  /\ pending' = [pending EXCEPT ![p] = NoTimer]
  /\ state' = [state EXCEPT ![p] = "RUNNING"]
  /\ bounce' = [bounce EXCEPT ![p] = 0]
  /\ Leave(Bpf)
  /\ UNCHANGED <<screenTimer, owner, sweepVars, curFg, lastFg, uidKnown, pidCache,
                 cgVars, revoked, asideVars>>

\* The bounce is counted and do_freeze called, which finds the app FROZEN.
SystemUnfreeze(p) ==
  /\ At(Bpf, "unfreeze_wait", p) /\ Free
  /\ IF state[p] = "FROZEN"
     THEN /\ bounce[p] + 1 < BounceLimit
          /\ bounce' = [bounce EXCEPT ![p] = @ + 1]
          /\ Goto(Bpf, "df_check") /\ Acquire(Bpf) /\ UNCHANGED arg
     ELSE Leave(Bpf) /\ UNCHANGED <<bounce, owner>>
  /\ UNCHANGED <<state, pending, timerVars, sweepVars, feedVars, cgVars, revoked,
                 asideVars>>

\* on_bounce_limit_reached: given up for a while; nothing keeps the timer's id.
BounceLimitReached(p) ==
  /\ At(Bpf, "unfreeze_wait", p) /\ Free
  /\ state[p] = "FROZEN" /\ bounce[p] + 1 >= BounceLimit
  /\ FreeIds # {}                                   \* BOUND
  /\ Cardinality({i \in TimerIds : timers[i].kind = "backoff"}) < MaxBackoffs
  /\ state' = [state EXCEPT ![p] = "RUNNING"]
  /\ bounce' = [bounce EXCEPT ![p] = 0]
  /\ timers' = [timers EXCEPT ![NewId] = [kind |-> "backoff", pkg |-> p]]
  /\ suspect' = (suspect + 1) % SuspectThreshold
  /\ sysFreezer' = (sysFreezer /\ suspect + 1 < SuspectThreshold)
  /\ Leave(Bpf)
  /\ UNCHANGED <<pending, screenTimer, owner, sweepVars, feedVars, cgVars, ring,
                 revoked, confVars, deepVars, screen>>

(***************************************************************************)
(* on_screen_off, on_screen_on                                              *)
(***************************************************************************)
\* The name is copied with no lock while a poll may be assigning it: a torn
\* copy names no package.
ForegroundRead == {curFg} \cup IF pc[Tmr] \in {"poll_bg", "poll_fg"} THEN {NoPkg} ELSE {}

ScreenOff ==
  /\ pc[Bpf] = "off_wait" /\ Free
  /\ FreeIds # {}                                   \* BOUND
  /\ \E f \in ForegroundRead :
       timers' = [Cancelled(screenTimer) EXCEPT ![NewId] = [kind |-> "sweep", pkg |-> f]]
  /\ screenTimer' = NewId
  /\ IF DeepSleepOn THEN Deep!Schedule ELSE UNCHANGED deepVars
  /\ Leave(Bpf)
  /\ screen' = "off"
  /\ UNCHANGED <<appVars, owner, sweepVars, feedVars, guardVars, cgVars, ring,
                 revoked, confVars>>

\* Mutant of ScreenOn: leaves the sweep of the last screen-off armed.
ScreenOnKeepsSweep ==
  /\ pc[Bpf] = "on_wait" /\ Free
  /\ Deep!CancelAndExit
  /\ Leave(Bpf)
  /\ screen' = "on"
  /\ UNCHANGED <<appVars, timerVars, owner, sweepVars, feedVars, guardVars, cgVars,
                 ring, revoked, confVars>>

ScreenOn ==
  /\ pc[Bpf] = "on_wait" /\ Free
  /\ timers' = Cancelled(screenTimer)
  /\ screenTimer' = NoTimer
  /\ Deep!CancelAndExit
  /\ Leave(Bpf)
  /\ screen' = "on"
  /\ UNCHANGED <<appVars, owner, sweepVars, feedVars, guardVars, cgVars, ring,
                 revoked, confVars>>

FireDeepSleep ==
  /\ WorkerFree /\ Deep!Fire
  /\ Goto(Tmr, "ds_enter")
  /\ UNCHANGED <<appVars, timerVars, owner, arg, sweepVars, feedVars, guardVars,
                 cgVars, ring, revoked, confVars, screen>>

EnterDeepSleep ==
  /\ pc[Tmr] = "ds_enter" /\ Deep!Enter
  /\ Goto(Tmr, "idle")
  /\ UNCHANGED <<appVars, timerVars, owner, arg, sweepVars, feedVars, guardVars,
                 cgVars, ring, revoked, confVars, screen>>

(***************************************************************************)
(* The freezer guard: every three minutes, forever                          *)
(***************************************************************************)
FireGuard ==
  /\ WorkerFree
  /\ Goto(Tmr, "gd_wait")
  /\ UNCHANGED <<appVars, timerVars, owner, arg, sweepVars, feedVars, cgVars,
                 revoked, asideVars>>

\* Mutant of FreezerCheck: finds the freezer enabled and only notes it.
FreezerCheckNotes(answered) ==
  /\ pc[Tmr] = "gd_wait" /\ Free
  /\ Goto(Tmr, "idle")
  /\ UNCHANGED <<appVars, timerVars, owner, arg, sweepVars, feedVars, guardVars,
                 cgVars, ring, revoked, confVars, deepVars, screen>>

\* The answer of device_config may be missing: then nothing is noticed.
FreezerCheck(answered) ==
  /\ pc[Tmr] = "gd_wait" /\ Free
  /\ sysFreezer' = (sysFreezer /\ ~answered)
  /\ Goto(Tmr, "idle")
  /\ UNCHANGED <<appVars, timerVars, owner, arg, sweepVars, feedVars, suspect,
                 cgVars, ring, revoked, confVars, deepVars, screen>>

(***************************************************************************)
(* The kernel, the system and the user, as far as the daemon notices them   *)
(***************************************************************************)
daemonVars == <<appVars, timerVars, owner, pc, arg, sweepVars, feedVars, suspect,
                deepVars, screen>>

\* A process in the frozen group stands still while the group's knob is set.
Stopped(q) == cg[q] = "frozen" /\ knob

ProcStarts(q) ==
  /\ "start" \in Env /\ cg[q] = "dead"
  /\ cg' = [cg EXCEPT ![q] = "system"]
  /\ UNCHANGED <<daemonVars, sysFreezer, knob, mapHas, ring, revoked, confVars>>

ProcExits(q) ==
  /\ "exit" \in Env /\ cg[q] # "dead"
  /\ cg' = [cg EXCEPT ![q] = "dead"]
  /\ Emit("died", q)
  /\ UNCHANGED <<daemonVars, sysFreezer, knob, mapHas, revoked, confVars>>

ThreadExits(q) ==
  /\ "thread" \in Env /\ cg[q] # "dead" /\ ~Stopped(q)
  /\ Emit("tdied", q)
  /\ UNCHANGED <<daemonVars, sysFreezer, cgVars, revoked, confVars>>

\* Process q writes 0 to cgroup.freeze of the frozen group.
SystemThaw(q) ==
  /\ "thaw" \in Env /\ cg[q] # "dead" /\ ~Stopped(q)
  /\ knob' = FALSE
  /\ IF mapHas THEN Emit("unfreeze", q) ELSE UNCHANGED ring
  /\ UNCHANGED <<daemonVars, sysFreezer, cg, mapHas, revoked, confVars>>

SystemMigrates(q) ==
  /\ "migrate" \in Env /\ cg[q] \in {"frozen", "active"}
  /\ cg' = [cg EXCEPT ![q] = "system"]
  /\ UNCHANGED <<daemonVars, sysFreezer, knob, mapHas, ring, revoked, confVars>>

\* The activity manager moves a process into or out of the top-app group.
TopAppChanges(q, kind) ==
  /\ kind \in Emits /\ cg[q] # "dead"
  /\ Emit(kind, q)
  /\ UNCHANGED <<daemonVars, sysFreezer, cgVars, revoked, confVars>>

ScreenToggles(kind) ==
  /\ kind \in Emits
  /\ Emit(kind, NoProc)
  /\ UNCHANGED <<daemonVars, sysFreezer, cgVars, revoked, confVars>>

\* The whitelist and the AppOps switch, edited through the HTTP interface.
EditWhitelist(p) ==
  /\ "edit" \in Env
  /\ exempt' = IF p \in exempt THEN exempt \ {p} ELSE exempt \cup {p}
  /\ UNCHANGED <<daemonVars, sysFreezer, cgVars, ring, revoked, restrict>>

EditRestrict ==
  /\ "edit" \in Env
  /\ restrict' = ~restrict
  /\ UNCHANGED <<daemonVars, sysFreezer, cgVars, ring, revoked, exempt>>

FreezerReenabled ==
  /\ "reenable" \in Env
  /\ sysFreezer' = TRUE
  /\ UNCHANGED <<daemonVars, cgVars, ring, revoked, confVars>>

\* The daemon is killed at any point and started again: its memory and the
\* BPF maps are new, init_cgroup_tree sets the knob; where the processes are,
\* the AppOps, the settings and the Doze state are as they were.  packages.list
\* is read again and may name every package by now.
Restart ==
  /\ "restart" \in Env
  /\ state' = [p \in Pkgs |-> "RUNNING"]
  /\ bounce' = [p \in Pkgs |-> 0]
  /\ pending' = [p \in Pkgs |-> NoTimer]
  /\ timers' = [i \in TimerIds |-> NoCallback]
  /\ screenTimer' = NoTimer
  /\ owner' = NoThread
  /\ pc' = [t \in Threads |-> "idle"]
  /\ arg' = [t \in Threads |-> NoPkg]
  /\ todo' = {} /\ sweepFg' = NoPkg /\ pollNext' = NoPkg
  /\ running' = {} /\ curFg' = NoPkg /\ lastFg' = NoPkg
  /\ uidKnown' \in {Cached, Pkgs} /\ pidCache' = {}
  /\ suspect' = 0
  /\ knob' = TRUE
  /\ mapHas' = FALSE
  /\ ring' = << >>
  /\ Deep!DsRestart
  /\ screen' = "on"
  /\ UNCHANGED <<cg, revoked, confVars, sysFreezer>>

(***************************************************************************)
(* The specification                                                        *)
(***************************************************************************)
\* The part of a handler that either thread may be in.
HandlerStep(t) ==
  \E p \in Pkgs :
    \/ Foreground(t, p) \/ UnfreezeMove(t, p) \/ UnfreezeMark(t, p) \/ UnfreezeSide(t, p)
    \/ Background(t, p) \/ BackgroundArm(t, p)
    \/ FreezeCheck(t, p) \/ FreezeMove(t, p) \/ FreezeMark(t, p)
    \/ FreezeCount(t, p) \/ FreezeSide(t, p)

BpfStep ==
  \/ HandlerStep(Bpf)
  \/ \E p \in Pkgs : ProcDied(p) \/ SystemUnfreeze(p) \/ BounceLimitReached(p)
  \/ \E q \in Procs : DispatchDied(q) \/ DispatchMove(q) \/ DispatchUnfreeze(q)
  \/ DispatchScreen \/ ScreenOff \/ ScreenOn

\* A callback the worker has begun.
WorkerStep ==
  \/ HandlerStep(Tmr)
  \/ \E p \in Pkgs : \/ FreezeCallback(p) \/ SweepNext(p) \/ SweepLast(p)
                     \/ PollBackground(p) \/ PollForeground(p)
  \/ SweepStart \/ SweepEnd \/ EnterDeepSleep
  \/ \E answered \in BOOLEAN : FreezerCheck(answered)

Fire(i) == FireSweep(i) \/ \E p \in Pkgs : FireFreeze(i, p) \/ FireBackoff(i, p)

TimerStep == FireDeepSleep \/ FireGuard \/ (\E i \in TimerIds : Fire(i)) \/ (\E p \in Pkgs : Poll(p))

EnvStep ==
  \/ \E q \in Procs : \/ ProcStarts(q) \/ ProcExits(q) \/ ThreadExits(q)
                      \/ SystemThaw(q) \/ SystemMigrates(q)
                      \/ \E k \in {"fg", "bg"} : TopAppChanges(q, k)
  \/ \E k \in {"on", "off"} : ScreenToggles(k)
  \/ \E p \in Pkgs : EditWhitelist(p)
  \/ EditRestrict \/ FreezerReenabled \/ Restart

Next == BpfStep \/ WorkerStep \/ TimerStep \/ EnvStep

Spec == Init /\ [][Next]_vars

\* Both threads keep running and, whatever they contend for with the other, get
\* the mutex in the end; a timer that stays armed is served in the end, whatever
\* else the worker has to do (epoll_wait returns every descriptor that is ready).
\* device_config answers again and again.  Nothing is assumed of EnvStep, nor of
\* the poll.
Fairness ==
  /\ SF_vars(BpfStep) /\ SF_vars(WorkerStep)
  /\ \A i \in TimerIds : SF_vars(Fire(i))
  /\ SF_vars(FireDeepSleep) /\ SF_vars(FireGuard) /\ SF_vars(FreezerCheck(TRUE))

FairSpec == Spec /\ Fairness

(***************************************************************************)
(* Safety                                                                   *)
(***************************************************************************)
\* Neither thread is in a handler.
Quiescent == pc[Bpf] = "idle" /\ pc[Tmr] = "idle"

FreezeTimer(p) == [kind |-> "freeze", pkg |-> p]

\* An armed delayed freeze belongs to an app that waits for it and can cancel it:
\* schedule_freeze, cancel_pending_timer and fire never leave a freeze timer that
\* no record names or that would hit an app in another state.
TimerOwned ==
  \A i \in TimerIds, p \in Pkgs :
    timers[i] = FreezeTimer(p) => state[p] = "PENDING_BG" /\ pending[p] = i

\* on_screen_on leaves no sweep behind, and on_screen_off never arms a second one
\* next to one it no longer knows.
ScreenOnDisarms ==
  \A i \in TimerIds :
    timers[i].kind = "sweep" => screen = "off" /\ screenTimer = i

\* Bounces are counted only while an app is frozen, and never up to the limit:
\* every way out of FROZEN resets them.
BounceOnlyFrozen ==
  \A p \in Pkgs : bounce[p] > 0 => state[p] = "FROZEN" /\ bounce[p] < BounceLimit

\* in_deep_sleep_ is never set once the screen is on, although enter() may be on
\* its way when cancel_and_exit runs.
DeepOnlyScreenOff == inDeep => screen = "off"

\* What the records say of an app at rest is what the kernel does to it: RUNNING
\* or PENDING_BG, nothing of it stands still; FROZEN, all of it does.
RecordsMatchKernel ==
  Quiescent =>
    \A p \in Pkgs : \A q \in Live(p) : Stopped(q) <=> state[p] = "FROZEN"

\* AppOps are taken only from apps on record as FROZEN, and given back with the
\* thaw (do_freeze's revoke_all against do_unfreeze's restore_all).
RevokedIsFrozen ==
  Quiescent => \A p \in revoked : state[p] = "FROZEN"

\* The records follow AppLifecycle, step by step: an app that is frozen is never made to
\* wait again, one that is released takes its delayed freeze and its bounces with it, and
\* none is frozen with a delay still running (app_state.h:8).
Armed == {p \in Pkgs : \E i \in TimerIds : timers[i] = FreezeTimer(p)}
Life == INSTANCE AppLifecycle WITH armed <- Armed

ImplementsLifecycle == Life!Lifecycle

\* A delayed freeze, the one do_freeze that runs under the mutex and gets past its
\* first test, hits only an app still waiting for it, whatever the eBPF thread did
\* while the callback waited for the mutex.
DelayedFreezeFromPending ==
  [][\A p \in Pkgs :
       owner = Tmr /\ state[p] # "FROZEN" /\ state'[p] = "FROZEN"
         => state[p] = "PENDING_BG"]_vars

\* A delayed freeze that was armed is not lost: it goes when it fires, when a sweep goes
\* on to freeze its app, when the app is being unfrozen, or when its record is RUNNING
\* again; cancelling the sweep's or another app's timer never takes it.
DelaysEndInFreeze ==
  [][\A p \in Armed \ Armed' :
       \/ At(Tmr, "cb_wait", p)' \/ At(Tmr, "df_check", p)'
       \/ \E t \in Threads : At(t, "uf_move", p)'
       \/ state'[p] = "RUNNING"]_vars

\* our_frozen_cgroups names the group only while some app is frozen (the converse,
\* MapTracksFrozen below, fails).
MapOnlyFrozen ==
  Quiescent /\ mapHas => \E p \in Pkgs : state[p] = "FROZEN"

(***************************************************************************)
(* How far a thread is from its loop                                        *)
(***************************************************************************)
\* At most so many steps of the handler a label is in.
StepsFrom(label) ==
  CASE label \in {"idle", "poll_fg", "sw_start", "sw_next"} -> 0
    [] label \in {"uf_side", "bg_arm", "df_side", "ds_enter", "gd_wait", "off_wait",
                  "on_wait", "died_wait"} -> 1
    [] label \in {"uf_mark", "bg_wait", "df_count"} -> 2
    [] label \in {"uf_move", "df_mark", "poll_bg"} -> 3
    [] label \in {"fg_wait", "df_move"} -> 4
    [] label = "df_check" -> 5
    [] label \in {"cb_wait", "unfreeze_wait"} -> 6

\* The sweep still has these packages to visit, each in six steps, and an end.
VisitsLeft == Cardinality(todo) + (IF sweepFg = NoPkg THEN 0 ELSE 1)
InSweep == pc[Tmr] = "sw_next" \/ (pc[Tmr] \in Freezing /\ owner # Tmr)
SweepLeft == IF pc[Tmr] = "sw_start" THEN 8 + 6 * Cardinality(Pkgs)
             ELSE IF InSweep THEN 1 + 6 * VisitsLeft ELSE 0

\* The poll has on_foreground to run after on_background.
PollLeft == IF pollNext = NoPkg THEN 0 ELSE 5

Left(t) == StepsFrom(pc[t]) + (IF t = Tmr THEN SweepLeft + PollLeft ELSE 0)

\* Every handler and callback is of bounded length, the sweep and the poll included:
\* whatever the two threads do between, a step either brings a thread nearer to its loop
\* or leaves it where it is.
HandlersShorten ==
  [][\A t \in Threads : pc[t] # "idle" =>
       Left(t)' < Left(t) \/ UNCHANGED <<pc[t], arg[t], Left(t)>>]_vars

(***************************************************************************)
(* What makes TimerOwned inductive (proved in FreezeEngineProofs)           *)
(***************************************************************************)
\* The mutex: whoever is at a Locked label holds it, and only one that is at a
\* Locked or Freezing label does; the eBPF thread never freezes without it.
LockInv ==
  \A t \in Threads :
    /\ pc[t] \in Locked => owner = t
    /\ owner = t => pc[t] \in Locked \cup Freezing
    /\ t = Bpf /\ pc[t] \in Freezing => owner = t

\* From these labels a thread goes on to change the state of its package.
Clearing == {"uf_move", "uf_mark", "bg_arm", "cb_wait", "df_check", "df_move", "df_mark"}

NoFreezeTimer(p) == \A i \in TimerIds : timers[i] # FreezeTimer(p)

ClearingInv == \A t \in Threads, p \in Pkgs :
  pc[t] \in Clearing /\ arg[t] = p => NoFreezeTimer(p)

ArmingInv == \A p \in Pkgs : At(Tmr, "bg_arm", p) => state[p] = "PENDING_BG"

\* The re-freeze of on_system_unfreeze ends at do_freeze's first test, and no
\* background event reaches the eBPF thread.
BpfInv ==
  /\ pc[Bpf] \notin {"bg_wait", "bg_arm", "cb_wait",
                     "df_move", "df_mark", "df_count", "df_side"}
  /\ \A p \in Pkgs : At(Bpf, "df_check", p) => state[p] = "FROZEN"
  /\ \A k \in DOMAIN ring : ring[k].kind # "bg"

TimerInv == LockInv /\ TimerOwned /\ ClearingInv /\ ArmingInv /\ BpfInv

(***************************************************************************)
(* Liveness                                                                 *)
(***************************************************************************)
\* A handler that was begun ends: the two threads never wait for each other.
HandlersEnd == \A t \in Threads : pc[t] # "idle" ~> pc[t] = "idle"

\* An app the engine gave up on comes back under management when its back-off
\* is over.
BackoffEnds ==
  \A p \in Pkgs :
    (\E i \in TimerIds : timers[i] = [kind |-> "backoff", pkg |-> p])
      ~> (state[p] # "RUNNING")

\* A system freezer that was re-enabled is disabled again.
FreezerKeptOff == sysFreezer ~> ~sysFreezer

(***************************************************************************)
(* What the project's comments and documents say, and the code does not do  *)
(***************************************************************************)
\* freeze_engine.h:221: the sweep's caller holds the lock.
SweepHoldsLock == pc[Tmr] \in Freezing => owner = Tmr

\* user_whitelist.txt:1: a whitelisted app is exempt from freezing.
WhitelistRespected == \A p \in Pkgs : p \in exempt => state[p] # "FROZEN"

\* app_state.h:11: PENDING_BG is waiting for its delay to run out.
PendingHasTimer ==
  Quiescent => \A p \in Pkgs : state[p] = "PENDING_BG" =>
                  \E i \in TimerIds : timers[i] = FreezeTimer(p)

\* app_state.h:11: PENDING_BG has gone to the background.
PendingIsBackground ==
  Quiescent => \A p \in Pkgs : state[p] = "PENDING_BG" => curFg # p

\* app_state.h:10: RUNNING is running.
RunningIsThawed ==
  Quiescent => \A p \in Pkgs : state[p] = "RUNNING" => \A q \in Live(p) : ~Stopped(q)

\* freeze_engine.h:116: an app unfrozen by the system is frozen again.
BouncedIsRefrozen == Quiescent /\ (\E p \in Pkgs : bounce[p] > 0) => knob

\* freeze_monitor.bpf.c:53: the map holds the frozen group while it is in use.
MapTracksFrozen ==
  Quiescent /\ HasMap /\ (\E p \in Pkgs : state[p] = "FROZEN") => mapHas

\* pid_cache.h:8: the cache is kept up to date by process events.
LookupFindsLive ==
  \A t \in Threads, p \in Pkgs : At(t, "df_move", p) => Live(p) \subseteq PidsOf(p)

\* uninstall.sh:136: what is on the whitelist never lost its AppOps.
ExemptKeepsAppOps == Quiescent => exempt \cap revoked = {}

\* README.md:14: the batch freeze is for when the screen is off.
SweepOnlyScreenOff == pc[Tmr] = "sw_start" => screen = "off"

\* README.md:61: deep Doze is left at once when the screen comes on (cancelled_ is
\* what on_screen_on leaves behind).
DozeEndsWithScreenOn == cancelled => ~idleForced

\* deep_sleep_manager.h:46: a callback whose schedule was cancelled before it got
\* into enter() does not enter.
CancelledDoesNotEnter == [][~inDeep /\ inDeep' => ~dsStale]_vars

\* main.cpp:137: an app in front need not be reported again.
FrontIsThawed ==
  \A p \in Pkgs :
    (screen = "on" /\ lastFg = p /\ state[p] = "FROZEN")
      ~> (state[p] # "FROZEN" \/ lastFg # p \/ screen = "off")

=============================================================================
