---------------------------- MODULE EventRouting ----------------------------
(***************************************************************************)
(* How an event of the kernel finds its app: the probes of                  *)
(* platform/freeze_monitor.bpf.c, the ring buffer, EventDispatcher::dispatch *)
(* (api/event_dispatcher.h) on the eBPF thread, PidCache                    *)
(* (platform/pid_cache.h), and the two maps between uids and packages, which *)
(* the main thread fills at start while the eBPF thread uses them.          *)
(*                                                                          *)
(* Pids are reused, packages are removed and installed again under another  *)
(* uid, events are dropped, the daemon dies and is started.  What a handler *)
(* does with its package is in FreezeEngine.                                *)
(***************************************************************************)
EXTENDS Naturals, Sequences

CONSTANTS
  Pids,        \* of threads and processes
  Pkgs,
  AppUids,     \* from 10000 up, those the probes look at
  SysUid,      \* one below
  SharedPkgs,  \* packages that declare the shared uid
  SharedUid,
  PrefixOf,    \* the uids in whose decimal digits a uid's digits come first
  Emits,       \* the kinds of events the attached probes emit
  Sources,     \* where the package of a uid is looked up: "list", "pm"
  ChangesAtStart, \* packages.list may change while main reads it
  RingSize,    \* BOUND: events that fit into the ring buffer
  NoUid, NoPid, NoPkg

Uids == AppUids \cup {SysUid}
Kinds == {"fg", "bg", "died", "sys", "screen"}

ASSUME UidsAssumption ==
  NoUid \notin Uids /\ SysUid \notin AppUids /\ SharedUid \in Uids
ASSUME NamesAssumption == NoPkg \notin Pkgs /\ NoPid \notin Pids /\ SharedPkgs \subseteq Pkgs
ASSUME PrefixAssumption ==
  PrefixOf \in [Uids -> SUBSET Uids] /\ \A u \in Uids : u \in PrefixOf[u]
ASSUME OptionsAssumption ==
  /\ Emits \subseteq Kinds /\ Sources \subseteq {"list", "pm"}
  /\ ChangesAtStart \in BOOLEAN /\ RingSize \in Nat

VARIABLES
  procUid,   \* the uid a live thread or process runs under, or NoUid
  listed,    \* packages.list: the uid of each package, or NoUid
  owned,     \* history: the pairs that were ever in packages.list
  ring,      \* the ring buffer
  lost,      \* history: a PROC_DIED did not fit
  up,        \* the daemon runs
  uidPids,   \* PidCache::uid_to_pids_
  pidUid,    \* PidCache::pid_to_uid_, NoUid for an absent entry
  uidToPkg,  \* EventDispatcher::uid_to_pkg_
  pkgToUid,  \* FreezeEngine::pkg_to_uid_
  handled,   \* the uid dispatch is about to find the package of, or NoUid
  mainPc,    \* where refresh_uid_cache is
  fresh      \* what build_uid_cache returned

phoneVars == <<procUid, listed, owned>>
ringVars == <<ring, lost>>
cacheVars == <<uidPids, pidUid>>
mapVars == <<uidToPkg, pkgToUid>>
vars == <<phoneVars, ringVars, up, cacheVars, mapVars, handled, mainPc, fresh>>

Event == [type : Kinds, uid : Uids \cup {NoUid}, pid : Pids \cup {NoPid}]

TypeOK ==
  /\ procUid \in [Pids -> Uids \cup {NoUid}]
  /\ listed \in [Pkgs -> Uids \cup {NoUid}] /\ owned \subseteq Pkgs \X Uids
  /\ ring \in Seq(Event) /\ Len(ring) <= RingSize /\ lost \in BOOLEAN
  /\ up \in BOOLEAN
  /\ uidPids \in [Uids -> SUBSET Pids] /\ pidUid \in [Pids -> Uids \cup {NoUid}]
  /\ uidToPkg \in [Uids -> Pkgs \cup {NoPkg}] /\ pkgToUid \in [Pkgs -> Uids \cup {NoUid}]
  /\ handled \in Uids \cup {NoUid}
  /\ mainPc \in {"build", "assign", "publish", "done"}
  /\ fresh \in [Uids -> Pkgs \cup {NoPkg}]

NoPackages == [u \in Uids |-> NoPkg]

\* The daemon's memory when it starts.
Forgotten ==
  /\ ring' = << >> /\ lost' = FALSE
  /\ uidPids' = [u \in Uids |-> {}] /\ pidUid' = [p \in Pids |-> NoUid]
  /\ uidToPkg' = NoPackages /\ pkgToUid' = [p \in Pkgs |-> NoUid]
  /\ handled' = NoUid /\ mainPc' = "build" /\ fresh' = NoPackages

Init ==
  /\ procUid = [p \in Pids |-> NoUid]
  /\ listed = [p \in Pkgs |-> NoUid] /\ owned = {}
  /\ ring = << >> /\ lost = FALSE /\ up = TRUE
  /\ uidPids = [u \in Uids |-> {}] /\ pidUid = [p \in Pids |-> NoUid]
  /\ uidToPkg = NoPackages /\ pkgToUid = [p \in Pkgs |-> NoUid]
  /\ handled = NoUid /\ mainPc = "build" /\ fresh = NoPackages

(***************************************************************************)
(* The probes                                                               *)
(***************************************************************************)
\* emit_ev: an event for which there is no room is dropped.
Emit(kind, u, p) ==
  IF ~up \/ kind \notin Emits THEN UNCHANGED ringVars
  ELSE IF Len(ring) < RingSize
    THEN ring' = Append(ring, [type |-> kind, uid |-> u, pid |-> p]) /\ UNCHANGED lost
    ELSE UNCHANGED ring /\ lost' = (lost \/ kind = "died")

\* A process starts for an installed app or for the system, under a free pid.
Starts(p, u) ==
  /\ procUid[p] = NoUid
  /\ u = SysUid \/ \E pkg \in Pkgs : listed[pkg] = u
  /\ procUid' = [procUid EXCEPT ![p] = u]
  /\ UNCHANGED <<listed, owned, ringVars, up, cacheVars, mapVars, handled, mainPc, fresh>>

\* on_process_exit, for every thread that exits.
Exits(p) ==
  /\ procUid[p] # NoUid
  /\ procUid' = [procUid EXCEPT ![p] = NoUid]
  /\ IF procUid[p] \in AppUids THEN Emit("died", procUid[p], p) ELSE UNCHANGED ringVars
  /\ UNCHANGED <<listed, owned, up, cacheVars, mapVars, handled, mainPc, fresh>>

\* on_cgroup_migrate: a task enters or leaves top-app.
Migrates(p, kind) ==
  /\ kind \in {"fg", "bg"} /\ procUid[p] # NoUid
  /\ Emit(kind, procUid[p], p)
  /\ UNCHANGED <<phoneVars, up, cacheVars, mapVars, handled, mainPc, fresh>>

\* on_cgroup_freeze names the process that wrote cgroup.freeze, and no uid.
Thaws(p) ==
  /\ procUid[p] # NoUid
  /\ Emit("sys", NoUid, p)
  /\ UNCHANGED <<phoneVars, up, cacheVars, mapVars, handled, mainPc, fresh>>

\* on_suspend_resume.
Suspends ==
  /\ Emit("screen", NoUid, NoPid)
  /\ UNCHANGED <<phoneVars, up, cacheVars, mapVars, handled, mainPc, fresh>>

(***************************************************************************)
(* Packages come and go                                                     *)
(***************************************************************************)
Settled == mainPc = "done" \/ ~up \/ ChangesAtStart

\* A uid is not given out again before the phone is started anew, the shared one is.
Installed(pkg, u) ==
  /\ Settled /\ listed[pkg] = NoUid
  /\ IF pkg \in SharedPkgs
       THEN u = SharedUid
       ELSE u # SharedUid /\ \A o \in owned : o[2] # u
  /\ listed' = [listed EXCEPT ![pkg] = u]
  /\ owned' = owned \cup {<<pkg, u>>}
  /\ UNCHANGED <<procUid, ringVars, up, cacheVars, mapVars, handled, mainPc, fresh>>

\* Its processes are killed first.
Removed(pkg) ==
  /\ Settled /\ listed[pkg] # NoUid
  /\ \A p \in Pids : procUid[p] # listed[pkg]
  /\ listed' = [listed EXCEPT ![pkg] = NoUid]
  /\ UNCHANGED <<procUid, owned, ringVars, up, cacheVars, mapVars, handled, mainPc, fresh>>

(***************************************************************************)
(* dispatch                                                                 *)
(***************************************************************************)
Oldest == Head(ring)
Receive == up /\ handled = NoUid /\ ring # << >> /\ ring' = Tail(ring)

\* The uid of the oldest event: its own, or the one in the cache, or the one /proc
\* has under the pid by now.
UidOf(e) ==
  IF e.uid # NoUid THEN e.uid
  ELSE IF pidUid[e.pid] # NoUid THEN pidUid[e.pid]
  ELSE procUid[e.pid]

RouteScreen ==
  /\ Receive /\ Oldest.type = "screen"
  /\ UNCHANGED <<phoneVars, lost, up, cacheVars, mapVars, handled, mainPc, fresh>>

\* No uid: the event is dropped.
RouteNowhere ==
  /\ Receive /\ Oldest.type # "screen" /\ UidOf(Oldest) = NoUid
  /\ UNCHANGED <<phoneVars, lost, up, cacheVars, mapVars, handled, mainPc, fresh>>

\* Mutant of RouteDied: on_pid_died leaves the reverse index alone.
RouteDiedHalf ==
  /\ Receive /\ Oldest.type = "died"
  /\ LET u == UidOf(Oldest) IN
       /\ uidPids' = [uidPids EXCEPT ![u] = @ \ {Oldest.pid}]
       /\ handled' = u
  /\ UNCHANGED <<phoneVars, lost, up, pidUid, mapVars, mainPc, fresh>>

\* on_pid_died.
RouteDied ==
  /\ Receive /\ Oldest.type = "died"
  /\ LET u == UidOf(Oldest) IN
       /\ uidPids' = [uidPids EXCEPT ![u] = @ \ {Oldest.pid}]
       /\ pidUid' = [pidUid EXCEPT ![Oldest.pid] = NoUid]
       /\ handled' = u
  /\ UNCHANGED <<phoneVars, lost, up, mapVars, mainPc, fresh>>

\* Mutant of RouteActive: the pid of every event, a PROC_DIED too, is noted as active.
RouteActiveAll ==
  /\ Receive /\ Oldest.type # "screen" /\ UidOf(Oldest) # NoUid
  /\ LET u == UidOf(Oldest) IN
       /\ uidPids' = [uidPids EXCEPT ![u] = @ \cup {Oldest.pid}]
       /\ pidUid' = [pidUid EXCEPT ![Oldest.pid] = u]
       /\ handled' = u
  /\ UNCHANGED <<phoneVars, lost, up, mapVars, mainPc, fresh>>

\* on_pid_active.
RouteActive ==
  /\ Receive /\ Oldest.type \notin {"screen", "died"} /\ UidOf(Oldest) # NoUid
  /\ LET u == UidOf(Oldest) IN
       /\ uidPids' = [uidPids EXCEPT ![u] = @ \cup {Oldest.pid}]
       /\ pidUid' = [pidUid EXCEPT ![Oldest.pid] = u]
       /\ handled' = u
  /\ UNCHANGED <<phoneVars, lost, up, mapVars, mainPc, fresh>>

(***************************************************************************)
(* resolve_pkg                                                              *)
(***************************************************************************)
\* Mutant of Query: the line is searched for the digits.
QueryDigits(u, pkg) ==
  \/ "list" \in Sources /\ listed[pkg] \in PrefixOf[u]
  \/ "pm" \in Sources /\ listed[pkg] \in PrefixOf[u]

\* What packages.list has under a uid, or pm: its output is searched for the uid's
\* digits with nothing after them.  Of several packages one is taken.
Query(u, pkg) ==
  \/ "list" \in Sources /\ listed[pkg] = u
  \/ "pm" \in Sources /\ listed[pkg] \in PrefixOf[u]

ResolveHit ==
  /\ up /\ handled # NoUid /\ uidToPkg[handled] # NoPkg
  /\ handled' = NoUid
  /\ UNCHANGED <<phoneVars, ringVars, up, cacheVars, mapVars, mainPc, fresh>>

\* Mutant of ResolveQuery: the engine is not told.
ResolveQueryAlone(pkg) ==
  /\ up /\ handled # NoUid /\ uidToPkg[handled] = NoPkg /\ Query(handled, pkg)
  /\ uidToPkg' = [uidToPkg EXCEPT ![handled] = pkg]
  /\ handled' = NoUid
  /\ UNCHANGED <<phoneVars, ringVars, up, cacheVars, pkgToUid, mainPc, fresh>>

ResolveQuery(pkg) ==
  /\ up /\ handled # NoUid /\ uidToPkg[handled] = NoPkg /\ Query(handled, pkg)
  /\ uidToPkg' = [uidToPkg EXCEPT ![handled] = pkg]
  /\ pkgToUid' = [pkgToUid EXCEPT ![pkg] = handled]
  /\ handled' = NoUid
  /\ UNCHANGED <<phoneVars, ringVars, up, cacheVars, mainPc, fresh>>

ResolveNone ==
  /\ up /\ handled # NoUid /\ uidToPkg[handled] = NoPkg
  /\ \A pkg \in Pkgs : ~Query(handled, pkg)
  /\ handled' = NoUid
  /\ UNCHANGED <<phoneVars, ringVars, up, cacheVars, mapVars, mainPc, fresh>>

(***************************************************************************)
(* refresh_uid_cache, on the main thread                                    *)
(***************************************************************************)
\* build_uid_cache: of the packages of a uid, the last line's.
Build ==
  /\ up /\ mainPc = "build"
  /\ fresh' \in [Uids -> Pkgs \cup {NoPkg}]
  /\ \A u \in Uids :
       IF \E pkg \in Pkgs : listed[pkg] = u
         THEN fresh'[u] \in {pkg \in Pkgs : listed[pkg] = u}
         ELSE fresh'[u] = NoPkg
  /\ mainPc' = "assign"
  /\ UNCHANGED <<phoneVars, ringVars, up, cacheVars, mapVars, handled>>

\* The assignment, with no lock.  What the eBPF thread put in before is gone.
Assign ==
  /\ up /\ mainPc = "assign"
  /\ uidToPkg' = fresh
  /\ fresh' = NoPackages
  /\ mainPc' = "publish"
  /\ UNCHANGED <<phoneVars, ringVars, up, cacheVars, pkgToUid, handled>>

\* update_uid_cache for every entry, in no particular order.
Publish ==
  /\ up /\ mainPc = "publish"
  /\ pkgToUid' \in [Pkgs -> Uids \cup {NoUid}]
  /\ \A pkg \in Pkgs :
       LET uids == {u \in Uids : uidToPkg[u] = pkg} IN
       IF uids = {} THEN pkgToUid'[pkg] = pkgToUid[pkg] ELSE pkgToUid'[pkg] \in uids
  /\ mainPc' = "done"
  /\ UNCHANGED <<phoneVars, ringVars, up, cacheVars, uidToPkg, handled, fresh>>

\* Killed, or brought down by the race of Assign or Publish with the eBPF thread.
Dies ==
  /\ up /\ up' = FALSE
  /\ Forgotten
  /\ UNCHANGED phoneVars

Restarts ==
  /\ ~up /\ up' = TRUE
  /\ UNCHANGED <<phoneVars, ringVars, cacheVars, mapVars, handled, mainPc, fresh>>

KernelStep ==
  \/ \E p \in Pids :
       \/ \E u \in Uids : Starts(p, u)
       \/ Exits(p) \/ Thaws(p)
       \/ \E kind \in {"fg", "bg"} : Migrates(p, kind)
  \/ Suspends
PackageStep == \E pkg \in Pkgs : Removed(pkg) \/ \E u \in Uids : Installed(pkg, u)
RouteStep == RouteScreen \/ RouteNowhere \/ RouteDied \/ RouteActive
ResolveStep == ResolveHit \/ ResolveNone \/ \E pkg \in Pkgs : ResolveQuery(pkg)
RefreshStep == Build \/ Assign \/ Publish

Next ==
  \/ KernelStep \/ PackageStep
  \/ RouteStep \/ ResolveStep \/ RefreshStep
  \/ Dies \/ Restarts

Spec == Init /\ [][Next]_vars

(***************************************************************************)
(* Properties                                                               *)
(***************************************************************************)
\* pid_cache.h:11: a pid that the reverse index knows is among its uid's pids,
\* whoever reused it and whatever events were dropped: a pid that dispatch finds is
\* one that a freeze of that uid moves.
IndexesAgree == \A p \in Pids : pidUid[p] # NoUid => p \in uidPids[pidUid[p]]

DeathUnderWay(u, p) ==
  \E i \in 1 .. Len(ring) : ring[i].type = "died" /\ ring[i].uid = u /\ ring[i].pid = p

\* pid_cache.h:8: unless a PROC_DIED was dropped, a pid cached under an app's uid
\* belongs to it or its death is on the way, however pids are reused between an event
\* and its handling: the engine does not freeze or thaw another app's process for long.
CachedIsLive ==
  ~lost => \A u \in AppUids, p \in Pids :
             p \in uidPids[u] => procUid[p] = u \/ DeathUnderWay(u, p)

\* event_dispatcher.h:161: the package an event is handed to is one that has, or had,
\* the event's uid, also while main fills the map and after a package was installed
\* again.
RoutesToOwner ==
  \A u \in Uids : uidToPkg[u] # NoPkg => <<uidToPkg[u], u>> \in owned

\* event_dispatcher.h:89: once main has filled the maps, a package that events reach
\* under its uid is one whose uid the engine knows, after it was installed again too.
EngineKnowsUid ==
  up /\ mainPc = "done" =>
    \A pkg \in Pkgs : listed[pkg] # NoUid /\ uidToPkg[listed[pkg]] = pkg =>
                        pkgToUid[pkg] = listed[pkg]

(***************************************************************************)
(* What the code does not ensure                                            *)
(***************************************************************************)
\* With nothing under way, what is cached under an uid is its own: a PROC_DIED that
\* was dropped leaves a pid there, for the next process that gets it.
NoStranger ==
  ring = << >> => \A u \in AppUids, p \in Pids : p \in uidPids[u] => procUid[p] = u

\* uid_to_pkg_ is used by one thread at a time.
UsedByOne == mainPc = "assign" => handled = NoUid

=============================================================================
