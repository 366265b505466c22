-------------------------- MODULE ForegroundSource --------------------------
(***************************************************************************)
(* Who tells the daemon which app is in front: the probe on_cgroup_migrate   *)
(* where it is attached, and otherwise the poll of main.cpp, which takes     *)
(* over when the last event of any kind is too long ago.  The poll also      *)
(* keeps the map top_app_cgroup_id, by which the probe knows the top-app     *)
(* group, up to date (platform/bpf_loader.h).                                *)
(*                                                                          *)
(* Time passes in steps of REFRESH_INTERVAL_MS.  What the engine does with a *)
(* report is in FreezeEngine, how an event finds its package in              *)
(* EventRouting.                                                             *)
(***************************************************************************)
EXTENDS Naturals, Sequences

CONSTANTS
  Pkgs,
  StaleAfter,  \* EBPF_STALE_THRESHOLD_MS / REFRESH_INTERVAL_MS
  Dirs,        \* where a cgroup of name top-app may be
  Known,       \* the known_paths among them, a sequence
  Near,        \* those that find_top_app_dir's depth reaches
  Ids,         \* cgroup ids
  NoPkg, NoDir, NoId

ASSUME PkgsAssumption == NoPkg \notin Pkgs
ASSUME StaleAssumption == StaleAfter \in Nat \ {0}
ASSUME DirsAssumption ==
  NoDir \notin Dirs /\ Known \in Seq(Dirs) /\ Near \subseteq Dirs
ASSUME IdsAssumption == NoId \notin Ids /\ "none" \notin Ids /\ "blind" \notin Ids

VARIABLES
  bpfOk,     \* the probes are loaded and at least one is attached
  attached,  \* on_cgroup_migrate is; as shipped it is not
  front,     \* the app in front, or NoPkg for none that dumpsys names
  age,       \* of the last event; StaleAfter when there was none
  curFg,     \* current_foreground_pkg_
  running,   \* RunningCache
  lastFg,    \* SharedState::last_foreground
  pc,        \* the poll: "wait", "due", "detect", "bg", "fg"
  cur,       \* what it detected
  dir,       \* each directory: "none", "blind" (no cgroup.id to read), or its id
  path,      \* discovered_top_app_path_
  mapId      \* top_app_cgroup_id

reportVars == <<curFg, running>>
pollVars == <<lastFg, pc, cur>>
topVars == <<path, mapId>>
vars == <<bpfOk, attached, front, age, reportVars, pollVars, dir, topVars>>

TypeOK ==
  /\ bpfOk \in BOOLEAN /\ attached \in BOOLEAN
  /\ front \in Pkgs \cup {NoPkg} /\ age \in 0 .. StaleAfter
  /\ curFg \in Pkgs \cup {NoPkg} /\ running \subseteq Pkgs
  /\ lastFg \in Pkgs \cup {NoPkg} /\ cur \in Pkgs \cup {NoPkg}
  /\ pc \in {"wait", "due", "detect", "bg", "fg"}
  /\ dir \in [Dirs -> {"none", "blind"} \cup Ids]
  /\ path \in Dirs \cup {NoDir} /\ mapId \in Ids \cup {NoId}

\* main calls the poll once before it arms its timer.
Init ==
  /\ bpfOk \in BOOLEAN /\ attached \in {FALSE, bpfOk}
  /\ front = NoPkg /\ age = StaleAfter
  /\ curFg = NoPkg /\ running = {}
  /\ lastFg = NoPkg /\ pc = "due" /\ cur = NoPkg
  /\ dir = [d \in Dirs |-> "none"] /\ path = NoDir /\ mapId = NoId

(***************************************************************************)
(* The phone, and the events of the probes                                  *)
(***************************************************************************)
Older(a) == IF a < StaleAfter THEN a + 1 ELSE StaleAfter

\* The next poll is due; when the worker is slow, more time has passed.
Elapse ==
  /\ pc = "wait" /\ pc' = "due"
  /\ age' \in Older(age) .. StaleAfter
  /\ UNCHANGED <<bpfOk, attached, front, reportVars, lastFg, cur, dir, topVars>>

\* on_cgroup_migrate knows top-app by its id.
Seen == attached /\ \E d \in Dirs : dir[d] = mapId

\* Another app comes to the front: APP_BACKGROUND and APP_FOREGROUND, if they are seen.
Switch(p) ==
  /\ p # front /\ front' = p
  /\ IF Seen
       THEN /\ age' = 0
            /\ curFg' = IF p # NoPkg THEN p ELSE IF curFg = front THEN NoPkg ELSE curFg
            /\ running' = running \cup ({p} \ {NoPkg})
       ELSE UNCHANGED <<age, reportVars>>
  /\ UNCHANGED <<bpfOk, attached, pollVars, dir, topVars>>

\* A thread of a package exits: PROC_DIED.
ThreadExits(p) ==
  /\ bpfOk
  /\ age' = 0
  /\ curFg' = IF curFg = p THEN NoPkg ELSE curFg
  /\ running' = running \ {p}
  /\ UNCHANGED <<bpfOk, attached, front, pollVars, dir, topVars>>

\* Any other event.
OtherEvent ==
  /\ bpfOk
  /\ age' = 0
  /\ UNCHANGED <<bpfOk, attached, front, reportVars, pollVars, dir, topVars>>

\* Cgroups are made, removed and made again under another id.
DirChanges(d, what) ==
  /\ dir[d] # what
  /\ dir' = [dir EXCEPT ![d] = what]
  /\ UNCHANGED <<bpfOk, attached, front, age, reportVars, pollVars, topVars>>

(***************************************************************************)
(* refresh_top_app_cgroup                                                   *)
(***************************************************************************)
\* read_cgroup_id_at.
IdAt(d) == IF dir[d] \in Ids THEN dir[d] ELSE NoId

\* The first of the known paths that has an id, in its singleton.
KnownDir ==
  {Known[i] : i \in {j \in DOMAIN Known :
     IdAt(Known[j]) # NoId /\ \A k \in 1 .. j - 1 : IdAt(Known[k]) = NoId}}

\* find_top_app_dir stops at the first directory of that name, in the order in which
\* the directories are listed.
Found == {d \in Near : dir[d] # "none"}

\* Mutant of RefreshTopApp: a path that was discovered is kept for good.
RefreshTopAppForGood ==
  IF ~bpfOk THEN UNCHANGED topVars
  ELSE IF path # NoDir
    THEN mapId' = (IF IdAt(path) # NoId THEN IdAt(path) ELSE mapId) /\ UNCHANGED path
  ELSE IF KnownDir # {}
    THEN /\ path' = NoDir
         /\ \E d \in KnownDir : mapId' = IdAt(d)
  ELSE IF Found # {}
    THEN \E d \in Found :
           IF IdAt(d) # NoId
             THEN path' = d /\ mapId' = IdAt(d)
             ELSE path' = NoDir /\ UNCHANGED mapId
  ELSE path' = NoDir /\ UNCHANGED mapId

\* The path found last time, then the known ones, then the search; without an id the
\* map is left as it is.
RefreshTopApp ==
  IF ~bpfOk THEN UNCHANGED topVars
  ELSE IF path # NoDir /\ IdAt(path) # NoId
    THEN mapId' = IdAt(path) /\ UNCHANGED path
  ELSE IF KnownDir # {}
    THEN /\ path' = NoDir
         /\ \E d \in KnownDir : mapId' = IdAt(d)
  ELSE IF Found # {}
    THEN \E d \in Found :
           IF IdAt(d) # NoId
             THEN path' = d /\ mapId' = IdAt(d)
             ELSE path' = NoDir /\ UNCHANGED mapId
  ELSE path' = NoDir /\ UNCHANGED mapId

(***************************************************************************)
(* The poll                                                                 *)
(***************************************************************************)
Healthy == bpfOk /\ age < StaleAfter

\* Mutant of Poll: probes that are loaded are taken to work.
PollTrusting ==
  /\ pc = "due"
  /\ RefreshTopApp
  /\ pc' = IF bpfOk THEN "wait" ELSE "detect"
  /\ UNCHANGED <<bpfOk, attached, front, age, reportVars, lastFg, cur, dir>>

Poll ==
  /\ pc = "due"
  /\ RefreshTopApp
  /\ pc' = IF Healthy THEN "wait" ELSE "detect"
  /\ UNCHANGED <<bpfOk, attached, front, age, reportVars, lastFg, cur, dir>>

\* detect_foreground_package names no package.
DetectNone ==
  /\ pc = "detect" /\ pc' = "wait"
  /\ UNCHANGED <<bpfOk, attached, front, age, reportVars, lastFg, cur, dir, topVars>>

Detect ==
  /\ pc = "detect" /\ front # NoPkg
  /\ cur' = front
  /\ pc' = IF front = lastFg THEN "wait" ELSE IF lastFg # NoPkg THEN "bg" ELSE "fg"
  /\ UNCHANGED <<bpfOk, attached, front, age, reportVars, lastFg, dir, topVars>>

\* notify_background(last_foreground).
PollBackground ==
  /\ pc = "bg" /\ pc' = "fg"
  /\ curFg' = IF curFg = lastFg THEN NoPkg ELSE curFg
  /\ UNCHANGED <<bpfOk, attached, front, age, running, lastFg, cur, dir, topVars>>

\* Mutant of PollForeground: the report goes past the dispatcher, to the engine only.
PollForegroundBypass ==
  /\ pc = "fg" /\ pc' = "wait"
  /\ lastFg' = cur
  /\ UNCHANGED <<bpfOk, attached, front, age, reportVars, cur, dir, topVars>>

\* Mutant of PollForeground: notes what is in front by now, not what it reported.
PollForegroundNow ==
  /\ pc = "fg" /\ pc' = "wait"
  /\ curFg' = cur /\ running' = running \cup {cur}
  /\ lastFg' = front
  /\ UNCHANGED <<bpfOk, attached, front, age, cur, dir, topVars>>

\* notify_foreground(cur).
PollForeground ==
  /\ pc = "fg" /\ pc' = "wait"
  /\ curFg' = cur /\ running' = running \cup {cur}
  /\ lastFg' = cur
  /\ UNCHANGED <<bpfOk, attached, front, age, cur, dir, topVars>>

PollStep == Poll \/ DetectNone \/ Detect \/ PollBackground \/ PollForeground
PhoneStep ==
  \/ Elapse \/ OtherEvent
  \/ \E p \in Pkgs : ThreadExits(p)
  \/ \E p \in Pkgs \cup {NoPkg} : Switch(p)
  \/ \E d \in Dirs, what \in {"none", "blind"} \cup Ids : DirChanges(d, what)

Next == PollStep \/ PhoneStep

Spec == Init /\ [][Next]_vars

\* The timer comes, the worker goes on, and dumpsys does not fail forever.
Fairness == WF_vars(Elapse) /\ WF_vars(PollStep) /\ SF_vars(Detect)

FairSpec == Spec /\ Fairness

(***************************************************************************)
(* Properties                                                               *)
(***************************************************************************)
\* main.cpp:135: between polls, without the probe's reports, the dispatcher has the
\* app the poll reported last, or none since a thread of it exited: never another.
FallbackAgrees == ~attached /\ pc = "wait" => curFg \in {NoPkg, lastFg}

\* main.cpp:72: when events stay away, the poll takes over, and the app that stays in
\* front gets reported.
TakesOver ==
  \A p \in Pkgs : <>[](age # 0) /\ <>[](front = p) => <>[](lastFg = p)

\* main.cpp:75: without eBPF the poll alone brings the app in front to the dispatcher
\* and to RunningCache.
PollSuffices ==
  \A p \in Pkgs : ~bpfOk /\ <>[](front = p) => <>[](curFg = p /\ p \in running)

OnlyDir(d, i) == dir[d] = i /\ \A e \in Dirs \ {d} : dir[e] = "none"

\* bpf_loader.h:247: wherever within reach the top-app group is made again, and under
\* whichever id, the map follows, also while eBPF looks healthy and the poll does
\* nothing else.
TopAppFollowed ==
  \A d \in Near, i \in Ids : bpfOk /\ <>[]OnlyDir(d, i) => <>[](mapId = i)

(***************************************************************************)
(* What the code does not ensure                                            *)
(***************************************************************************)
\* main.cpp:76, "RunningCache is therefore always maintained correctly, whoever
\* drives": a PROC_DIED takes the app in front out of it and it is not reported again.
RunningHasFront == \A p \in Pkgs : <>[](front = p) => <>(p \in running)

\* main.cpp:77: the app in front gets reported while eBPF looks healthy.
HealthyReports == \A p \in Pkgs : bpfOk /\ <>[](front = p) => <>(curFg = p)

\* bpf_loader.h:246: of two groups of that name the one with an id is found.
IdFound ==
  \A d \in Near, i \in Ids : bpfOk /\ <>[](dir[d] = i) => <>(\E e \in Dirs : dir[e] = mapId)

=============================================================================
