------------------------- MODULE ForegroundSourceMC -------------------------
(***************************************************************************)
(* Instances of ForegroundSource for TLC: two apps, a top-app group at a     *)
(* known path and one that has to be searched for.                           *)
(***************************************************************************)
EXTENDS ForegroundSource

CONSTANTS a, b,         \* packages
          known, apps,  \* /sys/fs/cgroup/top-app, /sys/fs/cgroup/apps/top-app
          i1, i2        \* cgroup ids

JustKnown == <<known>>

=============================================================================
