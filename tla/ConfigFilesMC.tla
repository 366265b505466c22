---------------------------- MODULE ConfigFilesMC ----------------------------
(***************************************************************************)
(* Instances of ConfigFiles for TLC: two workers, two packages, a delay, a  *)
(* switch and a key that only the file has.                                 *)
(***************************************************************************)
EXTENDS ConfigFiles

CONSTANTS w1, w2,              \* workers
          p1, p2,              \* packages
          delay, switch, limit \* bg_freeze_delay_ms, deep_sleep_on, bounce_limit

Whole == {1000, 2000}
Fraction == {1000, 1500}
AllThousand == [k \in Keys |-> 1000]
Never == {}
WhenDown == {FALSE}
Running == {TRUE}

=============================================================================
