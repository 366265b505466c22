---------------------------- MODULE TimerService ----------------------------
(***************************************************************************)
(* What util/timer.h promises its callers: each id names one callback, and  *)
(* that callback has one fate.  It is called once, or cancelled and never   *)
(* called, or dropped when the manager stops.  When a callback is called is *)
(* left open: FreezeEngine relies on nothing more.                          *)
(***************************************************************************)
CONSTANT Ids

VARIABLES
  live,      \* scheduled, its fate open
  called,    \* its callback has begun
  cancelled  \* cancelled in time

serviceVars == <<live, called, cancelled>>

ServiceInit == live = {} /\ called = {} /\ cancelled = {}

Schedule(i) ==
  /\ i \notin live \cup called \cup cancelled
  /\ live' = live \cup {i}
  /\ UNCHANGED <<called, cancelled>>

Call(i) ==
  /\ i \in live
  /\ live' = live \ {i}
  /\ called' = called \cup {i}
  /\ UNCHANGED cancelled

Cancel(i) ==
  /\ i \in live
  /\ live' = live \ {i}
  /\ cancelled' = cancelled \cup {i}
  /\ UNCHANGED called

Drop == live' = {} /\ UNCHANGED <<called, cancelled>>

ServiceNext == Drop \/ \E i \in Ids : Schedule(i) \/ Call(i) \/ Cancel(i)

ServiceSpec == ServiceInit /\ [][ServiceNext]_serviceVars

=============================================================================
