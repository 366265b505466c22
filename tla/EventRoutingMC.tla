--------------------------- MODULE EventRoutingMC ---------------------------
(***************************************************************************)
(* Instances of EventRouting for TLC: two pids, two packages, uids that     *)
(* have or do not have each other's digits in front.                        *)
(***************************************************************************)
EXTENDS EventRouting, TLC

CONSTANTS pid1, pid2,
          a, b,            \* packages
          u1, u2, u3, sys  \* uids

\* 1000 and 10001, in the digits of which it comes first.
Digits == [u \in Uids |-> IF u = SysUid THEN Uids ELSE {u}]

Alike == Permutations(Pids) \cup Permutations(AppUids)

=============================================================================
