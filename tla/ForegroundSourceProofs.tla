----------------------- MODULE ForegroundSourceProofs -----------------------
(***************************************************************************)
(* Theorems about ForegroundSource, for any packages, cgroup directories     *)
(* and ids, and any staleness threshold: its types, and what the dispatcher  *)
(* takes for the app in front while the poll reports alone.                  *)
(***************************************************************************)
EXTENDS ForegroundSource, TLAPS

\* Time only makes the last event older, up to the threshold.
LEMMA OlderInRange ==
  ASSUME NEW x \in 0 .. StaleAfter
  PROVE  Older(x) \in 0 .. StaleAfter /\ Older(x) .. StaleAfter \subseteq 0 .. StaleAfter
BY StaleAssumption DEF Older

\* refresh_top_app_cgroup keeps a directory as path and an id in the map, whatever
\* cgroup.id holds.
LEMMA RefreshTypes ==
  ASSUME TypeOK, RefreshTopApp
  PROVE  path' \in Dirs \cup {NoDir} /\ mapId' \in Ids \cup {NoId}
<1>1. \A d : IdAt(d) \in Ids \cup {NoId}
  BY DEF IdAt
<1>2. Found \subseteq Dirs
  BY DirsAssumption DEF Found
<1> QED BY <1>1, <1>2 DEF RefreshTopApp, TypeOK, topVars

\* Every reachable state is of the declared types; in particular the poll reports no
\* app that it did not detect (main.cpp:118).
THEOREM SourceTypes == Spec => []TypeOK
<1> DEFINE Named == pc \in {"bg", "fg"} => cur \in Pkgs
<1>1. Init => TypeOK /\ Named
  <2> SUFFICES ASSUME Init PROVE TypeOK /\ Named
    OBVIOUS
  <2>1. StaleAfter \in 0 .. StaleAfter
    BY StaleAssumption
  <2>2. bpfOk \in BOOLEAN /\ attached \in BOOLEAN
    BY Zenon DEF Init
  <2>3. dir \in [Dirs -> {"none", "blind"} \cup Ids]
    BY Zenon DEF Init
  <2> QED BY <2>1, <2>2, <2>3 DEF Init, TypeOK
<1>2. TypeOK /\ Named /\ [Next]_vars => TypeOK' /\ Named'
  <2> SUFFICES ASSUME TypeOK, Named, [Next]_vars PROVE TypeOK' /\ Named'
    OBVIOUS
  <2>1. ASSUME Poll PROVE TypeOK' /\ Named'
    <3>1. path' \in Dirs \cup {NoDir} /\ mapId' \in Ids \cup {NoId}
      BY <2>1, RefreshTypes DEF Poll
    <3> QED BY <2>1, <3>1 DEF Poll, TypeOK, reportVars
  <2>2. ASSUME DetectNone PROVE TypeOK' /\ Named'
    BY <2>2 DEF DetectNone, TypeOK, reportVars, topVars
  <2>3. ASSUME Detect PROVE TypeOK' /\ Named'
    BY <2>3 DEF Detect, TypeOK, reportVars, topVars
  <2>4. ASSUME PollBackground PROVE TypeOK' /\ Named'
    BY <2>4 DEF PollBackground, TypeOK, topVars
  <2>5. ASSUME PollForeground PROVE TypeOK' /\ Named'
    <3>1. cur \in Pkgs
      BY <2>5 DEF PollForeground
    <3> QED BY <2>5, <3>1 DEF PollForeground, TypeOK, topVars
  <2>6. ASSUME Elapse PROVE TypeOK' /\ Named'
    BY <2>6, OlderInRange DEF Elapse, TypeOK, reportVars, topVars
  <2>7. ASSUME OtherEvent PROVE TypeOK' /\ Named'
    BY <2>7, StaleAssumption DEF OtherEvent, TypeOK, reportVars, pollVars, topVars
  <2>8. ASSUME NEW p \in Pkgs, ThreadExits(p) PROVE TypeOK' /\ Named'
    BY <2>8, StaleAssumption DEF ThreadExits, TypeOK, pollVars, topVars
  <2>9. ASSUME NEW p \in Pkgs \cup {NoPkg}, Switch(p) PROVE TypeOK' /\ Named'
    BY <2>9, StaleAssumption DEF Switch, TypeOK, reportVars, pollVars, topVars
  <2>10. ASSUME NEW d \in Dirs, NEW what \in {"none", "blind"} \cup Ids,
                DirChanges(d, what)
         PROVE  TypeOK' /\ Named'
    BY <2>10 DEF DirChanges, TypeOK, reportVars, pollVars, topVars
  <2>11. ASSUME UNCHANGED vars PROVE TypeOK' /\ Named'
    BY <2>11 DEF vars, TypeOK, reportVars, pollVars, topVars
  <2> QED
    BY <2>1, <2>2, <2>3, <2>4, <2>5, <2>6, <2>7, <2>8, <2>9, <2>10, <2>11
    DEF Next, PollStep, PhoneStep
<1> QED BY <1>1, <1>2, PTL DEF Spec

\* Nothing but the poll names an app to the dispatcher, at whatever step it is, and the
\* probe stays away once it is not attached.
FallbackInv == ~attached => curFg \in {NoPkg, lastFg}

\* main.cpp:135: without the probe's reports the dispatcher has the app the poll
\* reported last, or none; FallbackInv holds in the middle of a poll as well.
THEOREM FallbackAgreed == Spec => []FallbackAgrees
<1>1. Init => FallbackInv
  BY DEF Init, FallbackInv
<1>2. FallbackInv /\ [Next]_vars => FallbackInv'
  <2> SUFFICES ASSUME FallbackInv, [Next]_vars PROVE FallbackInv'
    OBVIOUS
  <2>1. CASE PollStep
    BY <2>1 DEF PollStep, Poll, DetectNone, Detect, PollBackground, PollForeground,
       FallbackInv, reportVars
  <2>2. ASSUME NEW p \in Pkgs, ThreadExits(p) PROVE FallbackInv'
    BY <2>2 DEF ThreadExits, FallbackInv, pollVars
  <2>3. ASSUME NEW p \in Pkgs \cup {NoPkg}, Switch(p) PROVE FallbackInv'
    BY <2>3 DEF Switch, Seen, FallbackInv, reportVars, pollVars
  <2>4. ASSUME Elapse \/ OtherEvent PROVE FallbackInv'
    BY <2>4 DEF Elapse, OtherEvent, FallbackInv, reportVars, pollVars
  <2>5. ASSUME NEW d \in Dirs, NEW what \in {"none", "blind"} \cup Ids,
               DirChanges(d, what)
        PROVE  FallbackInv'
    BY <2>5 DEF DirChanges, FallbackInv, reportVars, pollVars
  <2>6. ASSUME UNCHANGED vars PROVE FallbackInv'
    BY <2>6 DEF vars, FallbackInv, reportVars, pollVars
  <2> QED BY <2>1, <2>2, <2>3, <2>4, <2>5, <2>6 DEF Next, PhoneStep
<1>3. FallbackInv => FallbackAgrees
  BY DEF FallbackInv, FallbackAgrees
<1> QED BY <1>1, <1>2, <1>3, PTL DEF Spec

=============================================================================
