-------------------------- MODULE DeepSleepManager --------------------------
(***************************************************************************)
(* core/deep_sleep_manager.h: the delayed entry into Android's deep Doze    *)
(* after the screen goes off, and its exit when the screen comes on.        *)
(*                                                                          *)
(* Every operation runs under the manager's own mutex, so each is one step. *)
(* What is not one step is the way of the timer: the worker thread takes    *)
(* the callback out of the timer table (Fire) and only later gets the       *)
(* manager's mutex (Enter).  schedule and cancel_and_exit, called by the    *)
(* engine from the eBPF thread, may come between the two.                   *)
(***************************************************************************)

VARIABLES
  dsArmed,     \* timer_id_ names an entry of the timer table
  dsFired,     \* the worker took the callback and is on its way into enter()
  dsStale,     \* history: what the worker took was cancelled in the meantime
  inDeep,      \* in_deep_sleep_
  cancelled,   \* cancelled_
  idleForced   \* the phone is in `deviceidle force-idle deep`

dsVars == <<dsArmed, dsFired, dsStale, inDeep, cancelled, idleForced>>

DsTypeOK ==
  /\ dsArmed \in BOOLEAN   /\ dsFired \in BOOLEAN   /\ dsStale \in BOOLEAN
  /\ inDeep \in BOOLEAN    /\ cancelled \in BOOLEAN /\ idleForced \in BOOLEAN

\* A manager just constructed, on a phone no earlier daemon left in Doze.
DsInit ==
  /\ dsArmed = FALSE /\ dsFired = FALSE /\ dsStale = FALSE
  /\ inDeep = FALSE  /\ cancelled = FALSE
  /\ idleForced = FALSE

\* The daemon dies and starts again.  enter() writes deep_sleep.lock and
\* exit_locked() removes it, but nothing reads it: the phone stays as it is.
DsRestart ==
  /\ dsArmed' = FALSE /\ dsFired' = FALSE /\ dsStale' = FALSE
  /\ inDeep' = FALSE  /\ cancelled' = FALSE
  /\ UNCHANGED idleForced

\* cancel_pending_locked, then a new timer.  A callback already taken by the
\* worker is out of cancel's reach.
Schedule ==
  /\ dsArmed' = TRUE
  /\ cancelled' = FALSE
  /\ dsStale' = dsFired
  /\ UNCHANGED <<dsFired, inDeep, idleForced>>

\* Mutant of CancelAndExit: relies on the timer's cancellation alone.
CancelAndExitUnmarked ==
  /\ dsArmed' = FALSE
  /\ dsStale' = dsFired
  /\ inDeep' = FALSE
  /\ idleForced' = (idleForced /\ ~inDeep)
  /\ UNCHANGED <<dsFired, cancelled>>

CancelAndExit ==
  /\ dsArmed' = FALSE
  /\ cancelled' = TRUE
  /\ dsStale' = dsFired
  /\ inDeep' = FALSE
  /\ idleForced' = (idleForced /\ ~inDeep)
  /\ UNCHANGED dsFired

\* The worker takes the callback (the caller checks that the worker is free).
Fire ==
  /\ dsArmed
  /\ dsArmed' = FALSE
  /\ dsFired' = TRUE
  /\ UNCHANGED <<dsStale, inDeep, cancelled, idleForced>>

Enter ==
  /\ dsFired
  /\ dsFired' = FALSE
  /\ dsStale' = FALSE
  /\ inDeep' = (inDeep \/ ~cancelled)
  /\ idleForced' = (idleForced \/ (~cancelled /\ ~inDeep))
  /\ UNCHANGED <<dsArmed, cancelled>>

=============================================================================
