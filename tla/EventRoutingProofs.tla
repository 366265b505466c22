------------------------- MODULE EventRoutingProofs -------------------------
(***************************************************************************)
(* Theorems about EventRouting, for any pids, packages, uids and size of    *)
(* the ring buffer: PidCache's two indexes agree, what it holds lives       *)
(* unless a PROC_DIED was dropped, and events reach the packages of their   *)
(* uids.                                                                    *)
(***************************************************************************)
EXTENDS EventRouting, TLAPS

\* What emitting an event does to the ring buffer.
LEMMA EmitGrows ==
  ASSUME TypeOK, NEW kind \in Kinds, NEW u \in Uids \cup {NoUid},
         NEW p \in Pids \cup {NoPid}, Emit(kind, u, p)
  PROVE  /\ \/ UNCHANGED ring
            \/ ring' = Append(ring, [type |-> kind, uid |-> u, pid |-> p])
         /\ ring' \in Seq(Event) /\ Len(ring') <= RingSize /\ lost' \in BOOLEAN
         /\ lost => lost'
         /\ ~up => UNCHANGED ring
         /\ up /\ kind = "died" /\ "died" \in Emits =>
              lost' \/ ring' = Append(ring, [type |-> kind, uid |-> u, pid |-> p])
<1> DEFINE e == [type |-> kind, uid |-> u, pid |-> p]
<1>1. e \in Event
  BY DEF Event
<1>2. ring \in Seq(Event) /\ Len(ring) <= RingSize /\ lost \in BOOLEAN
  BY DEF TypeOK
<1>3. CASE ~up \/ kind \notin Emits
  BY <1>2, <1>3 DEF Emit, ringVars
<1>4. CASE up /\ kind \in Emits /\ Len(ring) < RingSize
  <2>1. ring' = Append(ring, e) /\ lost' = lost
    BY <1>4 DEF Emit
  <2>2. ring' \in Seq(Event) /\ Len(ring') = Len(ring) + 1
    BY <1>1, <1>2, <2>1
  <2> HIDE DEF e
  <2> QED BY <1>2, <1>4, <2>1, <2>2, OptionsAssumption DEF e
<1>5. CASE up /\ kind \in Emits /\ ~(Len(ring) < RingSize)
  BY <1>2, <1>5 DEF Emit
<1> QED BY <1>3, <1>4, <1>5

\* The oldest event, and what remains of the ring buffer.
LEMMA ReceiveShrinks ==
  ASSUME TypeOK, Receive
  PROVE  /\ Oldest \in Event /\ Oldest = ring[1]
         /\ ring' \in Seq(Event) /\ Len(ring') = Len(ring) - 1 /\ Len(ring') \in Nat
         /\ \A i \in 1 .. Len(ring') : ring'[i] = ring[i + 1]
  BY DEF TypeOK, Receive, Oldest

\* Every event but the screen's has a pid, and all of those but SYS_UNFREEZE a uid.
EventsNamed ==
  \A i \in 1 .. Len(ring) :
    ring[i].type # "screen" =>
      /\ ring[i].pid \in Pids
      /\ IF ring[i].type = "sys" THEN ring[i].uid = NoUid ELSE ring[i].uid \in Uids

LEMMA NamedNext ==
  ASSUME TypeOK, EventsNamed, [Next]_vars
  PROVE  EventsNamed'
<1>1. ASSUME NEW kind \in Kinds, NEW u \in Uids \cup {NoUid}, NEW p \in Pids \cup {NoPid},
             Emit(kind, u, p),
             kind # "screen" =>
               p \in Pids /\ IF kind = "sys" THEN u = NoUid ELSE u \in Uids
      PROVE  EventsNamed'
  <2>1. CASE UNCHANGED ring
    BY <2>1 DEF EventsNamed
  <2>2. CASE ring' = Append(ring, [type |-> kind, uid |-> u, pid |-> p])
    BY <1>1, <2>2 DEF EventsNamed, TypeOK
  <2> QED BY <1>1, <2>1, <2>2, EmitGrows
<1>2. CASE Receive
  <2>1. \A i \in 1 .. Len(ring') : ring'[i] = ring[i + 1] /\ i + 1 \in 1 .. Len(ring)
    BY <1>2, ReceiveShrinks DEF TypeOK
  <2> QED BY <2>1 DEF EventsNamed
<1>3. CASE UNCHANGED ring
  BY <1>3 DEF EventsNamed
<1>4. CASE ring' = << >>
  BY <1>4 DEF EventsNamed
<1>5. CASE KernelStep
  <2>1. ASSUME NEW p \in Pids, NEW u \in Uids, Starts(p, u) PROVE EventsNamed'
    BY <1>3, <2>1 DEF Starts, ringVars
  <2>2. ASSUME NEW p \in Pids, Exits(p) PROVE EventsNamed'
    BY <1>1, <1>3, <2>2 DEF Exits, ringVars, TypeOK, Kinds
  <2>3. ASSUME NEW p \in Pids, Thaws(p) PROVE EventsNamed'
    BY <1>1, <2>3 DEF Thaws, Kinds
  <2>4. ASSUME NEW p \in Pids, NEW kind \in {"fg", "bg"}, Migrates(p, kind) PROVE EventsNamed'
    <3>1. procUid[p] \in Uids /\ kind \in Kinds
      BY <2>4 DEF Migrates, TypeOK, Kinds
    <3> QED BY <1>1, <2>4, <3>1 DEF Migrates
  <2>5. CASE Suspends
    BY <1>1, <2>5 DEF Suspends, Kinds
  <2> QED BY <1>5, <2>1, <2>2, <2>3, <2>4, <2>5 DEF KernelStep
<1>6. CASE PackageStep \/ ResolveStep \/ RefreshStep \/ Restarts \/ UNCHANGED vars
  BY <1>3, <1>6 DEF PackageStep, Installed, Removed, ResolveStep, ResolveHit, ResolveQuery,
     ResolveNone, RefreshStep, Build, Assign, Publish, Restarts, vars, ringVars
<1>7. CASE RouteStep
  BY <1>2, <1>7 DEF RouteStep, RouteScreen, RouteNowhere, RouteDied, RouteActive
<1>8. CASE Dies
  BY <1>4, <1>8 DEF Dies, Forgotten
<1> QED BY <1>5, <1>6, <1>7, <1>8 DEF Next

\* The uid an event is handled under.
LEMMA UidIsUid ==
  ASSUME TypeOK, EventsNamed, Receive, Oldest.type # "screen"
  PROVE  /\ Oldest.pid \in Pids /\ UidOf(Oldest) \in Uids \cup {NoUid}
         /\ IF Oldest.type = "sys" THEN Oldest.uid = NoUid
            ELSE UidOf(Oldest) = Oldest.uid /\ Oldest.uid \in Uids
<1>1. /\ Oldest.pid \in Pids
      /\ IF Oldest.type = "sys" THEN Oldest.uid = NoUid ELSE Oldest.uid \in Uids
  BY ReceiveShrinks DEF EventsNamed, Receive, TypeOK
<1>2. Oldest.uid \in Uids \cup {NoUid}
  BY ReceiveShrinks DEF Event
<1> QED BY <1>1, <1>2, UidsAssumption DEF UidOf, TypeOK

(***************************************************************************)
(* Types                                                                    *)
(***************************************************************************)
LEMMA NoEvents == << >> \in Seq(Event) /\ Len(<< >>) = 0 /\ 0 <= RingSize
  BY OptionsAssumption

LEMMA TypeNext ==
  ASSUME TypeOK, EventsNamed, [Next]_vars
  PROVE  TypeOK'
<1>1. CASE KernelStep
  <2> USE DEF phoneVars, ringVars, cacheVars, mapVars
  <2>1. ASSUME NEW p \in Pids, NEW u \in Uids, Starts(p, u) PROVE TypeOK'
    BY <2>1 DEF Starts, TypeOK
  <2>2. ASSUME NEW p \in Pids, Exits(p) PROVE TypeOK'
    <3>1. ring' \in Seq(Event) /\ Len(ring') <= RingSize /\ lost' \in BOOLEAN
      <4>1. CASE procUid[p] \in AppUids
        BY <2>2, <4>1, EmitGrows DEF Exits, Uids, Kinds
      <4>2. CASE procUid[p] \notin AppUids
        BY <2>2, <4>2 DEF Exits, TypeOK
      <4> QED BY <4>1, <4>2
    <3> QED BY <2>2, <3>1 DEF Exits, TypeOK
  <2>3. ASSUME NEW p \in Pids, Thaws(p) PROVE TypeOK'
    <3>1. ring' \in Seq(Event) /\ Len(ring') <= RingSize /\ lost' \in BOOLEAN
      BY <2>3, EmitGrows DEF Thaws, Kinds
    <3> QED BY <2>3, <3>1 DEF Thaws, TypeOK
  <2>4. ASSUME NEW p \in Pids, NEW kind \in {"fg", "bg"}, Migrates(p, kind) PROVE TypeOK'
    <3>1. procUid[p] \in Uids \cup {NoUid} /\ kind \in Kinds
      BY DEF TypeOK, Kinds
    <3>2. ring' \in Seq(Event) /\ Len(ring') <= RingSize /\ lost' \in BOOLEAN
      BY <2>4, <3>1, EmitGrows DEF Migrates
    <3> QED BY <2>4, <3>2 DEF Migrates, TypeOK
  <2>5. CASE Suspends
    <3>1. ring' \in Seq(Event) /\ Len(ring') <= RingSize /\ lost' \in BOOLEAN
      BY <2>5, EmitGrows DEF Suspends, Kinds
    <3> QED BY <2>5, <3>1 DEF Suspends, TypeOK
  <2> QED BY <1>1, <2>1, <2>2, <2>3, <2>4, <2>5 DEF KernelStep
<1>2. CASE PackageStep
  BY <1>2 DEF PackageStep, Installed, Removed, TypeOK, ringVars, cacheVars, mapVars
<1>3. CASE RouteStep
  <2>1. Receive
    BY <1>3 DEF RouteStep, RouteScreen, RouteNowhere, RouteDied, RouteActive
  <2>2. ring' \in Seq(Event) /\ Len(ring') <= RingSize
    BY <2>1, ReceiveShrinks, OptionsAssumption DEF TypeOK
  <2>3. CASE RouteScreen \/ RouteNowhere
    BY <2>2, <2>3 DEF RouteScreen, RouteNowhere, TypeOK, phoneVars, cacheVars, mapVars
  <2>4. CASE RouteDied
    <3>1. UidOf(Oldest) \in Uids
      BY <2>1, <2>4, UidIsUid DEF RouteDied
    <3> QED BY <2>2, <2>4, <3>1 DEF RouteDied, TypeOK, phoneVars, mapVars
  <2>5. CASE RouteActive
    <3>1. UidOf(Oldest) \in Uids /\ Oldest.pid \in Pids
      BY <2>1, <2>5, UidIsUid DEF RouteActive
    <3> QED BY <2>2, <2>5, <3>1 DEF RouteActive, TypeOK, phoneVars, mapVars
  <2> QED BY <1>3, <2>3, <2>4, <2>5 DEF RouteStep
<1>4. CASE ResolveStep
  BY <1>4 DEF ResolveStep, ResolveHit, ResolveQuery, ResolveNone, TypeOK, phoneVars,
     ringVars, cacheVars, mapVars
<1>5. CASE RefreshStep
  BY <1>5 DEF RefreshStep, Build, Assign, Publish, TypeOK, NoPackages, phoneVars,
     ringVars, cacheVars, mapVars
<1>6. CASE Dies
  <2>1. ring' = << >> /\ ring' \in Seq(Event) /\ Len(ring') <= RingSize
    BY <1>6, NoEvents DEF Dies, Forgotten
  <2> QED BY <1>6, <2>1 DEF Dies, Forgotten, TypeOK, NoPackages, phoneVars
<1>7. CASE Restarts \/ UNCHANGED vars
  BY <1>7 DEF Restarts, vars, TypeOK, phoneVars, ringVars, cacheVars, mapVars
<1> QED BY <1>1, <1>2, <1>3, <1>4, <1>5, <1>6, <1>7 DEF Next

\* Every reachable state has the declared types, and the ring buffer never holds more
\* than fits.
THEOREM RoutingTypes == Spec => [](TypeOK /\ EventsNamed)
<1>1. Init => TypeOK /\ EventsNamed
  <2> SUFFICES ASSUME Init PROVE TypeOK /\ EventsNamed
    OBVIOUS
  <2>1. ring \in Seq(Event) /\ Len(ring) = 0 /\ Len(ring) <= RingSize
    BY NoEvents DEF Init
  <2>2. TypeOK
    BY <2>1 DEF Init, TypeOK, NoPackages
  <2>3. EventsNamed
    BY <2>1 DEF EventsNamed
  <2> QED BY <2>2, <2>3
<1>2. TypeOK /\ EventsNamed /\ [Next]_vars => (TypeOK /\ EventsNamed)'
  BY TypeNext, NamedNext
<1> QED BY <1>1, <1>2, PTL DEF Spec

(***************************************************************************)
(* PidCache                                                                 *)
(***************************************************************************)
\* A daemon that is down has no events and nothing cached.
DownIsEmpty ==
  ~up => ring = << >> /\ \A u \in Uids : uidPids[u] = {}

\* An event that names a uid is of a thread that lives, or that has a PROC_DIED
\* behind it in the ring buffer.
EventsTrue ==
  ~lost => \A i \in 1 .. Len(ring) :
    ring[i].type \in {"fg", "bg"} /\ ring[i].uid \in AppUids =>
      \/ procUid[ring[i].pid] = ring[i].uid
      \/ \E j \in i + 1 .. Len(ring) :
           /\ ring[j].type = "died"
           /\ ring[j].uid = ring[i].uid /\ ring[j].pid = ring[i].pid

CacheInv == IndexesAgree /\ CachedIsLive /\ DownIsEmpty /\ EventsTrue

\* An event of a live thread joins the ring buffer.
LEMMA CacheEmit ==
  ASSUME TypeOK, CacheInv, NEW kind \in Kinds, NEW u \in Uids \cup {NoUid},
         NEW p \in Pids \cup {NoPid}, Emit(kind, u, p),
         kind \in {"fg", "bg"} => procUid[p] = u,
         UNCHANGED <<procUid, up, cacheVars>>
  PROVE  CacheInv'
<1>0. (lost => lost') /\ (~up => UNCHANGED ring)
  BY EmitGrows
<1>1. IndexesAgree' /\ DownIsEmpty'
  BY <1>0 DEF CacheInv, IndexesAgree, DownIsEmpty, cacheVars
<1>2. CASE UNCHANGED ring
  BY <1>0, <1>1, <1>2 DEF CacheInv, CachedIsLive, DeathUnderWay, EventsTrue, cacheVars, TypeOK
<1>3. CASE ring' = Append(ring, [type |-> kind, uid |-> u, pid |-> p])
  <2>1. /\ Len(ring') = Len(ring) + 1 /\ Len(ring) \in Nat
        /\ \A i \in 1 .. Len(ring) : ring'[i] = ring[i]
        /\ ring'[Len(ring) + 1] = [type |-> kind, uid |-> u, pid |-> p]
    BY <1>3 DEF TypeOK
  <2>2. CachedIsLive'
    <3> SUFFICES ASSUME ~lost, NEW v \in AppUids, NEW q \in Pids, q \in uidPids[v]
                 PROVE  procUid[q] = v \/ DeathUnderWay(v, q)'
      BY <1>0 DEF CachedIsLive, cacheVars, TypeOK
    <3>1. procUid[q] = v \/ DeathUnderWay(v, q)
      BY DEF CacheInv, CachedIsLive
    <3> QED BY <2>1, <3>1 DEF DeathUnderWay
  <2>3. EventsTrue'
    <3> SUFFICES ASSUME ~lost', NEW i \in 1 .. Len(ring'),
                        ring'[i].type \in {"fg", "bg"}, ring'[i].uid \in AppUids,
                        procUid'[ring'[i].pid] # ring'[i].uid
                 PROVE  \E j \in i + 1 .. Len(ring') :
                          /\ ring'[j].type = "died"
                          /\ ring'[j].uid = ring'[i].uid /\ ring'[j].pid = ring'[i].pid
      BY DEF EventsTrue
    <3>1. i # Len(ring) + 1
      BY <2>1
    <3>2. i \in 1 .. Len(ring) /\ ring'[i] = ring[i] /\ ~lost
      BY <1>0, <2>1, <3>1 DEF TypeOK
    <3>3. PICK j \in i + 1 .. Len(ring) :
            ring[j].type = "died" /\ ring[j].uid = ring[i].uid /\ ring[j].pid = ring[i].pid
      BY <3>2 DEF CacheInv, EventsTrue
    <3>4. ring'[j] = ring[j] /\ j \in i + 1 .. Len(ring')
      BY <2>1, <3>3
    <3> QED BY <3>2, <3>3, <3>4
  <2> QED BY <1>1, <2>2, <2>3 DEF CacheInv
<1> QED BY <1>2, <1>3, EmitGrows

\* A thread exits: whatever refers to it has its PROC_DIED behind it.
LEMMA CacheExit ==
  ASSUME TypeOK, EventsNamed, CacheInv, "died" \in Emits, NEW p \in Pids, Exits(p)
  PROVE  CacheInv'
<1> DEFINE u == procUid[p]
           e == [type |-> "died", uid |-> u, pid |-> p]
<1>1. IndexesAgree'
  BY DEF Exits, CacheInv, IndexesAgree, cacheVars
<1>2. CASE ~up
  <2>1. ring' = << >>
    BY <1>2 DEF Exits, Emit, ringVars, CacheInv, DownIsEmpty
  <2>2. \A v \in AppUids : uidPids'[v] = {}
    BY <1>2 DEF Exits, CacheInv, DownIsEmpty, cacheVars, Uids
  <2> QED
    BY <1>1, <1>2, <2>1, <2>2 DEF Exits, CacheInv, CachedIsLive, DownIsEmpty, EventsTrue, cacheVars
<1>3. CASE up /\ u \notin AppUids
  <2>1. UNCHANGED ringVars /\ \A v \in AppUids, q \in Pids : procUid[q] = v => procUid'[q] = v
    BY <1>3 DEF Exits, TypeOK
  <2>2. \A i \in 1 .. Len(ring) : ring[i].type \in {"fg", "bg"} => ring[i].pid \in Pids
    BY DEF EventsNamed
  <2>3. EventsTrue'
    BY <2>1, <2>2 DEF CacheInv, EventsTrue, ringVars
  <2> QED BY <1>1, <1>3, <2>1, <2>3 DEF Exits, CacheInv, CachedIsLive, DeathUnderWay, DownIsEmpty,
             ringVars, cacheVars
<1>4. CASE up /\ u \in AppUids
  <2>1. CASE lost'
    BY <1>1, <1>4, <2>1 DEF Exits, CacheInv, CachedIsLive, EventsTrue, DownIsEmpty
  <2>2. CASE ~lost'
    <3>1. ring' = Append(ring, e) /\ ~lost
      BY <1>4, <2>2, EmitGrows DEF Exits, Uids, Kinds
    <3>2. /\ Len(ring') = Len(ring) + 1 /\ Len(ring) \in Nat
          /\ \A i \in 1 .. Len(ring) : ring'[i] = ring[i]
          /\ ring'[Len(ring) + 1] = e
      BY <3>1 DEF TypeOK
    <3>3. \A q \in Pids : q # p => procUid'[q] = procUid[q]
      BY DEF Exits, TypeOK
    <3>4. ASSUME NEW v \in AppUids, NEW q \in Pids, q \in uidPids[v]
          PROVE  procUid'[q] = v \/ DeathUnderWay(v, q)'
      <4>1. CASE procUid[q] = v /\ q # p
        BY <3>3, <4>1
      <4>2. CASE procUid[q] = v /\ q = p
        BY <3>2, <4>2 DEF DeathUnderWay
      <4>3. CASE DeathUnderWay(v, q)
        BY <3>2, <4>3 DEF DeathUnderWay
      <4> QED BY <3>1, <3>4, <4>1, <4>2, <4>3 DEF CacheInv, CachedIsLive
    <3>5. CachedIsLive'
      BY <3>4 DEF CachedIsLive, Exits, cacheVars
    <3>6. ASSUME NEW i \in 1 .. Len(ring'),
                 ring'[i].type \in {"fg", "bg"}, ring'[i].uid \in AppUids,
                 procUid'[ring'[i].pid] # ring'[i].uid
          PROVE  \E j \in i + 1 .. Len(ring') :
                   /\ ring'[j].type = "died"
                   /\ ring'[j].uid = ring'[i].uid /\ ring'[j].pid = ring'[i].pid
      <4>1. i # Len(ring) + 1
        BY <3>2, <3>6
      <4>2. i \in 1 .. Len(ring) /\ ring'[i] = ring[i]
        BY <3>2, <4>1
      <4>3. CASE procUid[ring[i].pid] = ring[i].uid
        <5>1. ring[i].pid = p /\ ring[i].uid = u
          BY <3>3, <3>6, <4>2, <4>3, UidsAssumption, NamesAssumption DEF Exits, TypeOK, Event
        <5>2. Len(ring) + 1 \in i + 1 .. Len(ring')
          BY <3>2, <4>2
        <5> QED BY <3>2, <4>2, <5>1, <5>2
      <4>4. CASE procUid[ring[i].pid] # ring[i].uid
        <5>1. PICK j \in i + 1 .. Len(ring) :
                ring[j].type = "died" /\ ring[j].uid = ring[i].uid /\ ring[j].pid = ring[i].pid
          BY <3>1, <3>6, <4>2, <4>4 DEF CacheInv, EventsTrue
        <5>2. ring'[j] = ring[j] /\ j \in i + 1 .. Len(ring')
          BY <3>2, <4>2, <5>1
        <5> QED BY <4>2, <5>1, <5>2
      <4> QED BY <4>3, <4>4
    <3>7. EventsTrue'
      BY <3>6 DEF EventsTrue
    <3> QED BY <1>1, <1>4, <3>5, <3>7 DEF Exits, CacheInv, DownIsEmpty
  <2> QED BY <2>1, <2>2
<1> QED BY <1>2, <1>3, <1>4

\* The oldest event leaves the ring buffer and is noted in the cache.
LEMMA CacheRoute ==
  ASSUME TypeOK, EventsNamed, CacheInv, RouteStep
  PROVE  CacheInv'
<1>1. Receive /\ UNCHANGED <<procUid, lost, up>>
  BY DEF RouteStep, RouteScreen, RouteNowhere, RouteDied, RouteActive, phoneVars
<1>2. /\ Oldest \in Event /\ Oldest = ring[1] /\ Len(ring) \in Nat /\ Len(ring) >= 1
      /\ Len(ring') = Len(ring) - 1 /\ Len(ring') \in Nat
      /\ \A i \in 1 .. Len(ring') : ring'[i] = ring[i + 1]
  BY <1>1, ReceiveShrinks DEF TypeOK
<1>3. DownIsEmpty'
  BY <1>1 DEF Receive, DownIsEmpty
<1>4. EventsTrue'
  <2> SUFFICES ASSUME ~lost, NEW i \in 1 .. Len(ring'),
                      ring'[i].type \in {"fg", "bg"}, ring'[i].uid \in AppUids,
                      procUid[ring'[i].pid] # ring'[i].uid
               PROVE  \E j \in i + 1 .. Len(ring') :
                        /\ ring'[j].type = "died"
                        /\ ring'[j].uid = ring'[i].uid /\ ring'[j].pid = ring'[i].pid
    BY <1>1 DEF EventsTrue
  <2>1. ring'[i] = ring[i + 1] /\ i + 1 \in 1 .. Len(ring)
    BY <1>2
  <2>2. PICK j \in (i + 1) + 1 .. Len(ring) :
          /\ ring[j].type = "died"
          /\ ring[j].uid = ring[i + 1].uid /\ ring[j].pid = ring[i + 1].pid
    BY <2>1 DEF CacheInv, EventsTrue
  <2>3. j - 1 \in i + 1 .. Len(ring') /\ ring'[j - 1] = ring[j]
    BY <1>2, <2>2
  <2> QED BY <2>1, <2>2, <2>3
\* A death that is not the oldest event stays under way.
<1>5. ASSUME NEW v \in Uids, NEW q \in Pids, DeathUnderWay(v, q),
             ~(Oldest.type = "died" /\ Oldest.uid = v /\ Oldest.pid = q)
      PROVE  DeathUnderWay(v, q)'
  <2>1. PICK j \in 1 .. Len(ring) : ring[j].type = "died" /\ ring[j].uid = v /\ ring[j].pid = q
    BY <1>5 DEF DeathUnderWay
  <2>2. j - 1 \in 1 .. Len(ring') /\ ring'[j - 1] = ring[j]
    BY <1>2, <1>5, <2>1
  <2> QED BY <2>1, <2>2 DEF DeathUnderWay
<1>6. AppUids \subseteq Uids
  BY DEF Uids
<1>7. CASE RouteScreen \/ RouteNowhere
  <2>1. Oldest.type # "died"
    BY <1>1, <1>7, UidIsUid, UidsAssumption DEF RouteScreen, RouteNowhere
  <2>2. UNCHANGED <<uidPids, pidUid>>
    BY <1>7 DEF RouteScreen, RouteNowhere, cacheVars
  <2>3. IndexesAgree' /\ CachedIsLive'
    BY <1>1, <1>5, <1>6, <2>1, <2>2 DEF CacheInv, IndexesAgree, CachedIsLive
  <2> QED BY <1>3, <1>4, <2>3 DEF CacheInv
<1>8. CASE RouteDied
  <2> DEFINE u == Oldest.uid
             p == Oldest.pid
  <2>1. u \in Uids /\ p \in Pids /\ UidOf(Oldest) = u
    BY <1>1, <1>8, UidIsUid DEF RouteDied
  <2>2. /\ uidPids' = [uidPids EXCEPT ![u] = @ \ {p}]
        /\ pidUid' = [pidUid EXCEPT ![p] = NoUid]
    BY <1>8, <2>1 DEF RouteDied
  <2> HIDE DEF u, p
  <2>3. IndexesAgree'
    <3> SUFFICES ASSUME NEW q \in Pids, pidUid'[q] # NoUid
                 PROVE  q \in uidPids'[pidUid'[q]]
      BY DEF IndexesAgree
    <3>1. q # p /\ pidUid'[q] = pidUid[q]
      BY <2>1, <2>2 DEF TypeOK
    <3>2. pidUid[q] \in Uids /\ q \in uidPids[pidUid[q]]
      BY <3>1 DEF CacheInv, IndexesAgree, TypeOK
    <3> QED BY <2>1, <2>2, <3>1, <3>2 DEF TypeOK
  <2>4. CachedIsLive'
    <3> SUFFICES ASSUME ~lost, NEW v \in AppUids, NEW q \in Pids, q \in uidPids'[v]
                 PROVE  procUid[q] = v \/ DeathUnderWay(v, q)'
      BY <1>1 DEF CachedIsLive
    <3>1. q \in uidPids[v] /\ ~(u = v /\ p = q)
      BY <1>6, <2>1, <2>2 DEF TypeOK
    <3>2. procUid[q] = v \/ DeathUnderWay(v, q)
      BY <3>1 DEF CacheInv, CachedIsLive
    <3> QED BY <1>5, <1>6, <3>1, <3>2 DEF u, p
  <2> QED BY <1>3, <1>4, <2>3, <2>4 DEF CacheInv
<1>9. CASE RouteActive
  <2> DEFINE u == UidOf(Oldest)
             p == Oldest.pid
  <2>1. u \in Uids /\ p \in Pids /\ Oldest.type \notin {"died", "screen"}
    BY <1>1, <1>9, UidIsUid DEF RouteActive
  <2>2. /\ uidPids' = [uidPids EXCEPT ![u] = @ \cup {p}]
        /\ pidUid' = [pidUid EXCEPT ![p] = u]
    BY <1>9 DEF RouteActive
  \* The thread of the event lives, or its death is under way.
  <2>3. ~lost /\ u \in AppUids => procUid[p] = u \/ DeathUnderWay(u, p)
    <3> SUFFICES ASSUME ~lost, u \in AppUids PROVE procUid[p] = u \/ DeathUnderWay(u, p)
      OBVIOUS
    <3>1. CASE Oldest.type \in {"fg", "bg"}
      <4>1. u = Oldest.uid
        BY <1>1, <2>1, <3>1, UidIsUid
      <4>2. 1 \in 1 .. Len(ring)
        BY <1>2
      <4> QED BY <1>2, <3>1, <4>1, <4>2 DEF CacheInv, EventsTrue, DeathUnderWay
    <3>2. CASE Oldest.type = "sys"
      <4>1. Oldest.uid = NoUid
        BY <1>1, <2>1, <3>2, UidIsUid
      <4>2. CASE pidUid[p] # NoUid
        <5>1. u = pidUid[p]
          BY <4>1, <4>2 DEF UidOf
        <5> QED BY <2>1, <4>2, <5>1 DEF CacheInv, IndexesAgree, CachedIsLive
      <4>3. CASE pidUid[p] = NoUid
        BY <4>1, <4>3 DEF UidOf
      <4> QED BY <4>2, <4>3
    <3> QED BY <1>2, <2>1, <3>1, <3>2 DEF Event, Kinds
  <2> HIDE DEF u, p
  <2>4. IndexesAgree'
    BY <2>1, <2>2 DEF CacheInv, IndexesAgree, TypeOK
  <2>5. CachedIsLive'
    <3> SUFFICES ASSUME ~lost, NEW v \in AppUids, NEW q \in Pids, q \in uidPids'[v]
                 PROVE  procUid[q] = v \/ DeathUnderWay(v, q)'
      BY <1>1 DEF CachedIsLive
    <3>1. q \in uidPids[v] \/ (v = u /\ q = p)
      BY <1>6, <2>1, <2>2 DEF TypeOK
    <3>2. procUid[q] = v \/ DeathUnderWay(v, q)
      BY <2>3, <3>1 DEF CacheInv, CachedIsLive
    <3> QED BY <1>5, <1>6, <2>1, <3>2
  <2> QED BY <1>3, <1>4, <2>4, <2>5 DEF CacheInv
<1> QED BY <1>7, <1>8, <1>9 DEF RouteStep

LEMMA CacheNext ==
  ASSUME TypeOK, EventsNamed, CacheInv, "died" \in Emits, [Next]_vars
  PROVE  CacheInv'
\* What leaves the threads, the ring buffer and the cache alone.
<1>1. CASE UNCHANGED <<procUid, ringVars, uidPids, pidUid>> /\ (up => up')
  BY <1>1 DEF CacheInv, IndexesAgree, CachedIsLive, DeathUnderWay, DownIsEmpty, EventsTrue,
     ringVars
<1>2. CASE KernelStep
  <2>1. ASSUME NEW p \in Pids, NEW u \in Uids, Starts(p, u) PROVE CacheInv'
    <3>1. \A q \in Pids : procUid'[q] = procUid[q] \/ procUid[q] = NoUid
      BY <2>1 DEF Starts, TypeOK
    <3>2. \A i \in 1 .. Len(ring) : ring[i].type \in {"fg", "bg"} => ring[i].pid \in Pids
      BY DEF EventsNamed
    <3>3. \A v \in AppUids : v # NoUid
      BY UidsAssumption DEF Uids
    <3> QED BY <2>1, <3>1, <3>2, <3>3 DEF Starts, CacheInv, IndexesAgree, CachedIsLive,
               DeathUnderWay, DownIsEmpty, EventsTrue, ringVars, cacheVars
  <2>2. ASSUME NEW p \in Pids, Exits(p) PROVE CacheInv'
    BY <2>2, CacheExit
  <2>3. ASSUME NEW p \in Pids, Thaws(p) PROVE CacheInv'
    BY <2>3, CacheEmit DEF Thaws, Kinds, phoneVars
  <2>4. ASSUME NEW p \in Pids, NEW kind \in {"fg", "bg"}, Migrates(p, kind) PROVE CacheInv'
    <3>1. procUid[p] \in Uids \cup {NoUid} /\ kind \in Kinds
      BY DEF TypeOK, Kinds
    <3> QED BY <2>4, <3>1, CacheEmit DEF Migrates, phoneVars
  <2>5. CASE Suspends
    BY <2>5, CacheEmit DEF Suspends, Kinds, phoneVars
  <2> QED BY <1>2, <2>1, <2>2, <2>3, <2>4, <2>5 DEF KernelStep
<1>3. CASE PackageStep \/ ResolveStep \/ RefreshStep \/ Restarts \/ UNCHANGED vars
  BY <1>1, <1>3 DEF PackageStep, Installed, Removed, ResolveStep, ResolveHit, ResolveQuery,
     ResolveNone, RefreshStep, Build, Assign, Publish, Restarts, vars, phoneVars, cacheVars
<1>4. CASE RouteStep
  BY <1>4, CacheRoute
<1>5. CASE Dies
  <2>1. /\ ring' = << >> /\ \A u \in Uids : uidPids'[u] = {}
        /\ \A p \in Pids : pidUid'[p] = NoUid
    BY <1>5 DEF Dies, Forgotten
  <2> QED BY <2>1 DEF CacheInv, IndexesAgree, CachedIsLive, DownIsEmpty, EventsTrue, Uids
<1> QED BY <1>2, <1>3, <1>4, <1>5 DEF Next

LEMMA CacheAlways ==
  ASSUME "died" \in Emits
  PROVE  Spec => []CacheInv
<1>1. Init => CacheInv
  BY DEF Init, CacheInv, IndexesAgree, CachedIsLive, DownIsEmpty, EventsTrue, Uids
<1>2. TypeOK /\ EventsNamed /\ CacheInv /\ [Next]_vars => CacheInv'
  BY CacheNext
<1> QED BY <1>1, <1>2, RoutingTypes, PTL DEF Spec

\* With on_process_exit attached, what PidCache has under an app's uid is the app's,
\* or dead with its PROC_DIED on the way, as long as none was dropped: for any number
\* of pids and events, however they are reused and interleaved, across restarts.
THEOREM CacheLive ==
  ASSUME "died" \in Emits
  PROVE  Spec => []CachedIsLive
  BY CacheAlways, PTL DEF CacheInv

\* The two indexes agree, whichever probes are attached and whatever is dropped.
THEOREM IndexesConsistent == Spec => []IndexesAgree
<1>1. Init => IndexesAgree
  BY DEF Init, IndexesAgree
<1>2. ASSUME TypeOK, EventsNamed, IndexesAgree, [Next]_vars PROVE IndexesAgree'
  <2>1. CASE UNCHANGED <<uidPids, pidUid>>
    BY <1>2, <2>1 DEF IndexesAgree
  <2>2. CASE KernelStep \/ PackageStep \/ ResolveStep \/ RefreshStep \/ Restarts
               \/ UNCHANGED vars \/ RouteScreen \/ RouteNowhere
    BY <2>1, <2>2 DEF KernelStep, Starts, Exits, Thaws, Migrates, Suspends, PackageStep,
       Installed, Removed, ResolveStep, ResolveHit, ResolveQuery, ResolveNone, RefreshStep,
       Build, Assign, Publish, Restarts, vars, RouteScreen, RouteNowhere, cacheVars
  <2>3. CASE RouteDied
    <3>1. UidOf(Oldest) \in Uids /\ Oldest.pid \in Pids
      BY <1>2, <2>3, UidIsUid DEF RouteDied
    <3> QED BY <1>2, <2>3, <3>1 DEF RouteDied, IndexesAgree, TypeOK
  <2>4. CASE RouteActive
    <3>1. UidOf(Oldest) \in Uids /\ Oldest.pid \in Pids
      BY <1>2, <2>4, UidIsUid DEF RouteActive
    <3> QED BY <1>2, <2>4, <3>1 DEF RouteActive, IndexesAgree, TypeOK
  <2>5. CASE Dies
    BY <2>5 DEF Dies, Forgotten, IndexesAgree
  <2> QED BY <1>2, <2>2, <2>3, <2>4, <2>5 DEF Next, RouteStep
<1> QED BY <1>1, <1>2, RoutingTypes, PTL DEF Spec

(***************************************************************************)
(* Packages                                                                 *)
(***************************************************************************)
\* packages.list and what was read of it are of the pairs that ever were.
ReadFromList ==
  /\ \A pkg \in Pkgs : listed[pkg] # NoUid => <<pkg, listed[pkg]>> \in owned
  /\ \A u \in Uids : fresh[u] # NoPkg => <<fresh[u], u>> \in owned

\* Events reach packages that have or had their uids, when packages.list can be read.
\* Where it cannot, pm's output is searched for the digits, and they do not.
THEOREM RoutedToOwner ==
  ASSUME "pm" \notin Sources
  PROVE  Spec => []RoutesToOwner
<1>1. Init => ReadFromList /\ RoutesToOwner
  BY DEF Init, ReadFromList, RoutesToOwner, NoPackages
<1>2. ASSUME TypeOK, ReadFromList, RoutesToOwner, [Next]_vars
      PROVE  (ReadFromList /\ RoutesToOwner)'
  <2> USE <1>2 DEF ReadFromList, RoutesToOwner
  <2>1. CASE UNCHANGED <<listed, owned, uidToPkg, fresh>>
    BY <2>1
  <2>2. CASE KernelStep \/ RouteStep \/ ResolveHit \/ ResolveNone \/ Publish \/ Restarts
               \/ UNCHANGED vars
    BY <2>1, <2>2 DEF KernelStep, Starts, Exits, Thaws, Migrates, Suspends, RouteStep,
       RouteScreen, RouteNowhere, RouteDied, RouteActive, ResolveHit, ResolveNone, Publish,
       Restarts, vars, phoneVars, mapVars
  <2>3. ASSUME NEW pkg \in Pkgs, NEW u \in Uids, Installed(pkg, u)
        PROVE  (ReadFromList /\ RoutesToOwner)'
    BY <2>3 DEF Installed, TypeOK, mapVars
  <2>4. ASSUME NEW pkg \in Pkgs, Removed(pkg) PROVE (ReadFromList /\ RoutesToOwner)'
    BY <2>4 DEF Removed, TypeOK, mapVars
  <2>5. ASSUME NEW pkg \in Pkgs, ResolveQuery(pkg) PROVE (ReadFromList /\ RoutesToOwner)'
    <3>1. handled \in Uids /\ listed[pkg] = handled
      BY <2>5 DEF ResolveQuery, Query, TypeOK
    <3> QED BY <2>5, <3>1, UidsAssumption DEF ResolveQuery, TypeOK, phoneVars
  <2>6. CASE Build
    <3>1. \A u \in Uids : fresh'[u] # NoPkg => fresh'[u] \in Pkgs /\ listed[fresh'[u]] = u
      BY <2>6 DEF Build
    <3> QED BY <2>6, <3>1, UidsAssumption DEF Build, phoneVars, mapVars
  <2>7. CASE Assign
    BY <2>7 DEF Assign, NoPackages, phoneVars
  <2>8. CASE Dies
    BY <2>8 DEF Dies, Forgotten, NoPackages, phoneVars
  <2> QED BY <2>2, <2>3, <2>4, <2>5, <2>6, <2>7, <2>8
          DEF Next, PackageStep, ResolveStep, RefreshStep
<1> QED BY <1>1, <1>2, RoutingTypes, PTL DEF Spec

\* What the maps hold comes from a line of packages.list whose uid is the event's, or
\* has the event's digits in front.
ReadFromPrefix ==
  /\ \A pkg \in Pkgs : listed[pkg] # NoUid => <<pkg, listed[pkg]>> \in owned
  /\ \A u \in Uids : fresh[u] # NoPkg => <<fresh[u], u>> \in owned

RoutesToPrefix ==
  \A u \in Uids : uidToPkg[u] # NoPkg =>
    \E v \in PrefixOf[u] : <<uidToPkg[u], v>> \in owned

\* event_dispatcher.h:198: where pm has to be asked the package of an event may be
\* another one's, but only one that has, or had, a uid whose digits begin with those of
\* the event: with uids of equally many digits the search of pm's output does no harm.
THEOREM RoutedToPrefix == Spec => []RoutesToPrefix
<1>1. Init => ReadFromPrefix /\ RoutesToPrefix
  BY DEF Init, ReadFromPrefix, RoutesToPrefix, NoPackages
<1>2. ASSUME TypeOK, ReadFromPrefix, RoutesToPrefix, [Next]_vars
      PROVE  (ReadFromPrefix /\ RoutesToPrefix)'
  <2> USE <1>2 DEF ReadFromPrefix, RoutesToPrefix
  <2>1. CASE UNCHANGED <<listed, owned, uidToPkg, fresh>>
    BY <2>1
  <2>2. CASE KernelStep \/ RouteStep \/ ResolveHit \/ ResolveNone \/ Publish \/ Restarts
               \/ UNCHANGED vars
    BY <2>1, <2>2 DEF KernelStep, Starts, Exits, Thaws, Migrates, Suspends, RouteStep,
       RouteScreen, RouteNowhere, RouteDied, RouteActive, ResolveHit, ResolveNone, Publish,
       Restarts, vars, phoneVars, mapVars
  <2>3. ASSUME NEW pkg \in Pkgs, NEW u \in Uids, Installed(pkg, u)
        PROVE  (ReadFromPrefix /\ RoutesToPrefix)'
    BY <2>3 DEF Installed, TypeOK, mapVars
  <2>4. ASSUME NEW pkg \in Pkgs, Removed(pkg) PROVE (ReadFromPrefix /\ RoutesToPrefix)'
    BY <2>4 DEF Removed, TypeOK, mapVars
  <2>5. ASSUME NEW pkg \in Pkgs, ResolveQuery(pkg)
        PROVE  (ReadFromPrefix /\ RoutesToPrefix)'
    <3>1. handled \in Uids /\ listed[pkg] \in PrefixOf[handled]
      BY <2>5, PrefixAssumption DEF ResolveQuery, Query, TypeOK
    <3>2. listed[pkg] # NoUid
      BY <3>1, PrefixAssumption, UidsAssumption
    <3>3. <<pkg, listed[pkg]>> \in owned
      BY <3>2
    <3> QED BY <2>5, <3>1, <3>3 DEF ResolveQuery, TypeOK, phoneVars
  <2>6. CASE Build
    <3>1. \A u \in Uids : fresh'[u] # NoPkg => fresh'[u] \in Pkgs /\ listed[fresh'[u]] = u
      BY <2>6 DEF Build
    <3> QED BY <2>6, <3>1, UidsAssumption DEF Build, phoneVars, mapVars
  <2>7. CASE Assign
    BY <2>7, PrefixAssumption DEF Assign, NoPackages, phoneVars
  <2>8. CASE Dies
    BY <2>8 DEF Dies, Forgotten, NoPackages, phoneVars
  <2> QED BY <2>2, <2>3, <2>4, <2>5, <2>6, <2>7, <2>8
          DEF Next, PackageStep, ResolveStep, RefreshStep
<1> QED BY <1>1, <1>2, RoutingTypes, PTL DEF Spec

\* While main fills the maps packages.list stays as it is, so each package has one uid
\* in them; and the shared uid is the only one a package that declares it ever has.
Filling ==
  /\ \A o \in owned : o[1] \in SharedPkgs => o[2] = SharedUid
  /\ \A pkg \in Pkgs : listed[pkg] # NoUid => <<pkg, listed[pkg]>> \in owned
  /\ ~up => mainPc = "build" /\ uidToPkg = NoPackages /\ fresh = NoPackages
  /\ mainPc # "done" =>
       \A u \in Uids, pkg \in Pkgs : uidToPkg[u] = pkg \/ fresh[u] = pkg => listed[pkg] = u

\* The engine knows the uid of every package in the dispatcher's map, but for one that
\* has another uid now.
Told ==
  mainPc = "done" =>
    \A u \in Uids, pkg \in Pkgs :
      uidToPkg[u] = pkg /\ (listed[pkg] = u \/ pkg \in SharedPkgs) => pkgToUid[pkg] = u

\* When packages.list can be read and does not change while main reads it, the engine
\* knows the present uid of every package that events are handed to.
THEOREM EngineTold ==
  ASSUME "pm" \notin Sources, ChangesAtStart = FALSE
  PROVE  Spec => []EngineKnowsUid
<1> USE DEF Filling, Told
<1>1. Init => Filling /\ Told
  BY NamesAssumption DEF Init, NoPackages
<1>2. ASSUME TypeOK, RoutesToOwner, Filling, Told, [Next]_vars
      PROVE  (Filling /\ Told)'
  <2> USE <1>2
  <2>1. CASE UNCHANGED <<listed, owned, up, mapVars, mainPc, fresh>>
    BY <2>1 DEF mapVars
  <2>2. CASE KernelStep \/ RouteStep \/ ResolveHit \/ ResolveNone \/ UNCHANGED vars
    BY <2>1, <2>2 DEF KernelStep, Starts, Exits, Thaws, Migrates, Suspends, RouteStep,
       RouteScreen, RouteNowhere, RouteDied, RouteActive, ResolveHit, ResolveNone, vars,
       phoneVars
  <2>3. ASSUME NEW pkg \in Pkgs, NEW u \in Uids, Installed(pkg, u) PROVE (Filling /\ Told)'
    <3>1. /\ listed' = [listed EXCEPT ![pkg] = u] /\ owned' = owned \cup {<<pkg, u>>}
          /\ UNCHANGED <<up, uidToPkg, pkgToUid, mainPc, fresh>>
          /\ mainPc = "done" \/ ~up
          /\ pkg \in SharedPkgs => u = SharedUid
          /\ pkg \notin SharedPkgs => \A o \in owned : o[2] # u
      BY <2>3 DEF Installed, Settled, mapVars
    <3>2. \A v \in Uids, other \in Pkgs :
            mainPc # "done" => uidToPkg[v] # other /\ fresh[v] # other
      BY <3>1, NamesAssumption DEF NoPackages
    <3>3. Filling'
      BY <3>1, <3>2, UidsAssumption DEF TypeOK
    <3>4. pkg \notin SharedPkgs => uidToPkg[u] # pkg
      BY <3>1, NamesAssumption DEF RoutesToOwner
    <3>5. Told'
      BY <3>1, <3>4 DEF TypeOK
    <3> QED BY <3>3, <3>5
  <2>4. ASSUME NEW pkg \in Pkgs, Removed(pkg) PROVE (Filling /\ Told)'
    <3>1. /\ listed' = [listed EXCEPT ![pkg] = NoUid]
          /\ UNCHANGED <<owned, up, uidToPkg, pkgToUid, mainPc, fresh>>
          /\ mainPc = "done" \/ ~up
      BY <2>4 DEF Removed, Settled, mapVars
    <3>2. \A v \in Uids, other \in Pkgs :
            mainPc # "done" => uidToPkg[v] # other /\ fresh[v] # other
      BY <3>1, NamesAssumption DEF NoPackages
    <3> QED BY <3>1, <3>2, UidsAssumption DEF TypeOK
  <2>5. ASSUME NEW pkg \in Pkgs, ResolveQuery(pkg) PROVE (Filling /\ Told)'
    <3>1. /\ handled \in Uids /\ listed[pkg] = handled /\ up
          /\ uidToPkg' = [uidToPkg EXCEPT ![handled] = pkg]
          /\ pkgToUid' = [pkgToUid EXCEPT ![pkg] = handled]
          /\ UNCHANGED <<listed, owned, up, mainPc, fresh>>
      BY <2>5 DEF ResolveQuery, Query, TypeOK, phoneVars
    <3>2. Filling'
      BY <3>1 DEF TypeOK
    <3>3. <<pkg, handled>> \in owned
      BY <3>1, UidsAssumption
    <3>4. ASSUME mainPc = "done", NEW v \in Uids, NEW other \in Pkgs, uidToPkg'[v] = other,
                 listed[other] = v \/ other \in SharedPkgs
          PROVE  pkgToUid'[other] = v
      <4>1. CASE other # pkg
        BY <3>1, <3>4, <4>1 DEF TypeOK
      <4>2. CASE other = pkg /\ v # handled
        <5>1. uidToPkg[v] = pkg /\ pkg \in SharedPkgs
          BY <3>1, <3>4, <4>2 DEF TypeOK
        <5>2. <<pkg, v>> \in owned
          BY <5>1, NamesAssumption DEF RoutesToOwner
        <5>3. v = SharedUid /\ handled = SharedUid
          BY <3>3, <5>1, <5>2
        <5> QED BY <4>2, <5>3
      <4>3. CASE other = pkg /\ v = handled
        BY <3>1, <4>3 DEF TypeOK
      <4> QED BY <4>1, <4>2, <4>3
    <3> QED BY <3>1, <3>2, <3>4
  <2>6. CASE Build
    <3>1. \A u \in Uids, pkg \in Pkgs : fresh'[u] = pkg => listed[pkg] = u
      BY <2>6, NamesAssumption DEF Build
    <3>2. UNCHANGED <<listed, owned, up, uidToPkg, pkgToUid>>
          /\ up /\ mainPc = "build" /\ mainPc' = "assign"
      BY <2>6 DEF Build, phoneVars, mapVars
    <3> QED BY <3>1, <3>2
  <2>7. CASE Assign
    BY <2>7, NamesAssumption DEF Assign, NoPackages, phoneVars
  <2>8. CASE Publish
    <3>1. /\ UNCHANGED <<listed, owned, up, uidToPkg, fresh>>
          /\ up /\ mainPc = "publish" /\ mainPc' = "done"
      BY <2>8 DEF Publish, phoneVars
    <3>2. ASSUME NEW u \in Uids, NEW pkg \in Pkgs, uidToPkg[u] = pkg
          PROVE  pkgToUid'[pkg] = u
      <4>1. pkgToUid'[pkg] \in {v \in Uids : uidToPkg[v] = pkg}
        BY <2>8, <3>2 DEF Publish
      <4>2. \A v \in Uids : uidToPkg[v] = pkg => listed[pkg] = v
        BY <3>1
      <4> QED BY <3>2, <4>1, <4>2
    <3> QED BY <3>1, <3>2
  <2>9. CASE Dies
    BY <2>9, NamesAssumption DEF Dies, Forgotten, NoPackages, phoneVars
  <2>10. CASE Restarts
    BY <2>10, NamesAssumption DEF Restarts, NoPackages, phoneVars, mapVars
  <2> QED BY <2>2, <2>3, <2>4, <2>5, <2>6, <2>7, <2>8, <2>9, <2>10
          DEF Next, PackageStep, ResolveStep, RefreshStep
<1>3. TypeOK /\ Told => EngineKnowsUid
  BY UidsAssumption DEF EngineKnowsUid, TypeOK
<1> QED BY <1>1, <1>2, <1>3, RoutingTypes, RoutedToOwner, PTL DEF Spec

=============================================================================
