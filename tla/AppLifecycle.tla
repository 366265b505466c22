---------------------------- MODULE AppLifecycle ----------------------------
(***************************************************************************)
(* What the engine promises of its records (core/app_state.h), whatever its  *)
(* two threads do: an app's way between RUNNING, PENDING_BG and FROZEN, its   *)
(* delayed freeze, and its count of bounces.  FreezeEngine implements it.    *)
(***************************************************************************)
EXTENDS Integers

CONSTANTS Pkgs, BounceLimit

VARIABLES
  state, bounce,  \* as in the records
  armed           \* apps with a delayed freeze in the timer table

lifeVars == <<state, bounce, armed>>

Init ==
  /\ state = [p \in Pkgs |-> "RUNNING"]
  /\ bounce = [p \in Pkgs |-> 0]
  /\ armed = {}

\* In the background: only of an app that runs.
Wait(p) ==
  /\ state[p] = "RUNNING"
  /\ state' = [state EXCEPT ![p] = "PENDING_BG"]
  /\ UNCHANGED <<bounce, armed>>

\* At most one delayed freeze, and only of an app that waits.
Arm(p) ==
  /\ state[p] = "PENDING_BG" /\ p \notin armed
  /\ armed' = armed \cup {p}
  /\ UNCHANGED <<state, bounce>>

\* It fires, or is cancelled.
Disarm(p) ==
  /\ p \in armed
  /\ armed' = armed \ {p}
  /\ UNCHANGED <<state, bounce>>

\* After the delay, or by the sweep, and then no delay is left to run out.
Freeze(p) ==
  /\ p \notin armed
  /\ state' = [state EXCEPT ![p] = "FROZEN"]
  /\ UNCHANGED <<bounce, armed>>

\* The system thaws a frozen app: one more bounce, up to the limit.
Bounce(p) ==
  /\ state[p] = "FROZEN" /\ bounce[p] + 1 < BounceLimit
  /\ bounce' = [bounce EXCEPT ![p] = @ + 1]
  /\ UNCHANGED <<state, armed>>

\* A freeze that is just being recorded starts the count again.
Recount(p) ==
  /\ bounce' = [bounce EXCEPT ![p] = 0]
  /\ UNCHANGED <<state, armed>>

\* In front, dead, or given up: nothing of the app is left.
Release(p) ==
  /\ state' = [state EXCEPT ![p] = "RUNNING"]
  /\ bounce' = [bounce EXCEPT ![p] = 0]
  /\ armed' = armed \ {p}

\* The daemon starts anew.
Forget ==
  /\ state' = [p \in Pkgs |-> "RUNNING"]
  /\ bounce' = [p \in Pkgs |-> 0]
  /\ armed' = {}

Next ==
  \/ \E p \in Pkgs : \/ Wait(p) \/ Arm(p) \/ Disarm(p) \/ Freeze(p)
                     \/ Bounce(p) \/ Recount(p) \/ Release(p)
  \/ Forget

Lifecycle == Init /\ [][Next]_lifeVars

=============================================================================
