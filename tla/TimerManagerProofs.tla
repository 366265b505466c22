------------------------- MODULE TimerManagerProofs -------------------------
(***************************************************************************)
(* Theorems about TimerManager, for any threads, descriptors and timers:    *)
(*   TableTypes    every reachable state is of the declared types;          *)
(*   NothingLeaks  no timerfd is forgotten;                                 *)
(*   Implements    it implements TimerService: one fate for each callback;  *)
(*   FateIsFinal   a callback is not called once its timer was cancelled.   *)
(***************************************************************************)
EXTENDS TimerManager, TLAPS

\* What close() does to the numbers keeps their types.
LEMMA ClosedType ==
  ASSUME TypeOK, NEW fds, Closed(fds)
  PROVE  /\ file' \in [Fds -> Ids \cup Threads \cup {"free"}]
         /\ clock' \in [Fds -> {"off", "armed", "due"}]
         /\ watch' \in [Fds -> {"no", "on", "spent"}]
  BY DEF TypeOK, Closed

\* The manager starts with an empty table.
LEMMA TableInit == Init => TypeOK /\ TableInv
<1> SUFFICES ASSUME Init PROVE TypeOK /\ TableInv
  OBVIOUS
<1>1. TypeOK
  BY DEF Init, TypeOK
<1>2. Live = {}
  BY DEF Init, Live
<1> QED
  BY <1>1, <1>2 DEF Init, TableInv

\* No action leaves the declared types.
LEMMA TableTypeNext == TypeOK /\ TableInv /\ [Next]_vars => TypeOK'
<1> SUFFICES ASSUME TypeOK, TableInv, [Next]_vars PROVE TypeOK'
  OBVIOUS
<1> USE DEF table, kernel, calls, worker, history
<1>1. ASSUME NEW t \in Threads, NEW delay \in Delays, Make(t, delay) PROVE TypeOK'
  BY <1>1 DEF TypeOK, Make, FreeFds
<1>2. ASSUME NEW t \in Threads, Insert(t) PROVE TypeOK'
  BY <1>2 DEF TypeOK, TableInv, Insert
<1>3. ASSUME NEW t \in Threads, Register(t) PROVE TypeOK'
  BY <1>3 DEF TypeOK, Register
<1>4. ASSUME NEW t \in Threads, NEW i \in Ids, Cancel(t, i) PROVE TypeOK'
  BY <1>4, ClosedType DEF TypeOK, Cancel
<1>5. ASSUME NEW fds \in SUBSET Fds, Wait(fds) PROVE TypeOK'
  BY <1>5 DEF TypeOK, Wait
<1>6. ASSUME NEW f \in Fds, Take(f) PROVE TypeOK'
  BY <1>6 DEF TypeOK, Take, Entries
<1>7. CASE CallbackEnds
  BY <1>7 DEF TypeOK, CallbackEnds
<1>8. CASE Close
  BY <1>8, ClosedType DEF TypeOK, Close
<1>9. ASSUME NEW f \in Fds, Expire(f) PROVE TypeOK'
  BY <1>9 DEF TypeOK, Expire
<1>10. CASE Stop
  BY <1>10 DEF TypeOK, Stop
<1>11. CASE Join
  BY <1>11 DEF TypeOK, Join
<1>12. CASE Clear
  BY <1>12, ClosedType DEF TypeOK, Clear
<1>13. CASE UNCHANGED vars
  BY <1>13 DEF TypeOK, vars
<1> QED
  BY <1>1, <1>2, <1>3, <1>4, <1>5, <1>6, <1>7, <1>8, <1>9, <1>10, <1>11, <1>12, <1>13
  DEF Next, CallStep, WorkerStep

\* Ids are handed out once, and schedule enters a descriptor it has made.
LEMMA TableNext == TypeOK /\ TableInv /\ [Next]_vars => TableInv'
<1> SUFFICES ASSUME TypeOK, TableInv, [Next]_vars PROVE TableInv'
  OBVIOUS
<1> USE DEF table, kernel, calls, worker, history, TableInv, Live
<1>1. ASSUME NEW t \in Threads, NEW delay \in Delays, Make(t, delay) PROVE TableInv'
  BY <1>1 DEF TypeOK, Make, FreeFds
<1>2. ASSUME NEW t \in Threads, Insert(t) PROVE TableInv'
  BY <1>2 DEF TypeOK, Insert
<1>3. ASSUME NEW t \in Threads, Register(t) PROVE TableInv'
  BY <1>3 DEF TypeOK, Register
<1>4. ASSUME NEW t \in Threads, NEW i \in Ids, Cancel(t, i) PROVE TableInv'
  BY <1>4 DEF TypeOK, Cancel
<1>5. ASSUME NEW f \in Fds, Take(f) PROVE TableInv'
  <2>1. CASE Entries(f) = {}
    BY <1>5, <2>1 DEF Take
  <2>2. CASE Entries(f) # {}
    <3>1. PICK i \in Entries(f) : timers' = [timers EXCEPT ![i] = NoFd] /\ begun' = begun \cup {i}
      BY <1>5, <2>2 DEF Take
    <3>2. i \in Live /\ Live' \subseteq Live
      BY <1>5, <3>1, FdsAssumption DEF TypeOK, Entries
    <3> QED BY <1>5, <3>1, <3>2 DEF Take
  <2> QED BY <2>1, <2>2
<1>6. CASE Clear
  BY <1>6 DEF TypeOK, Clear
<1>7. ASSUME UNCHANGED <<timers, used, step, made, begun, cancelled>> PROVE TableInv'
  BY <1>7
<1> QED
  BY <1>1, <1>2, <1>3, <1>4, <1>5, <1>6, <1>7
  DEF Next, CallStep, WorkerStep, Wait, CallbackEnds, Close, Expire, Stop, Join, vars

\* Types and table together, the invariant the rest builds on.
LEMMA TableAlways == Spec => [](TypeOK /\ TableInv)
  BY TableInit, TableTypeNext, TableNext, PTL DEF Spec

\* Every reachable state is of the declared types.
THEOREM TableTypes == Spec => []TypeOK
  BY TableAlways, PTL

(***************************************************************************)
(* Descriptors                                                              *)
(***************************************************************************)
\* A descriptor that is open is in an entry, in the hands of schedule, or fire is
\* going to close it: cancel and stop close what they take out of the table.
LEMMA LeakNext ==
  TypeOK /\ TableInv /\ NoDescriptorLeak /\ [Next]_vars => NoDescriptorLeak'
<1> SUFFICES ASSUME TypeOK, TableInv, NoDescriptorLeak, [Next]_vars
             PROVE  NoDescriptorLeak'
  OBVIOUS
<1> USE DEF table, kernel, calls, worker, history, NoDescriptorLeak, Entries
<1>1. ASSUME NEW t \in Threads, NEW delay \in Delays, Make(t, delay)
      PROVE  NoDescriptorLeak'
  BY <1>1 DEF TypeOK, Make, FreeFds, MayCall
<1>2. ASSUME NEW t \in Threads, Insert(t) PROVE NoDescriptorLeak'
  <2>1. PICK i \in Ids \ used : timers' = [timers EXCEPT ![i] = made[t]]
    BY <1>2 DEF Insert
  <2>2. timers[i] = NoFd
    BY <2>1 DEF TableInv, Live
  <2>3. \A f \in Fds : file'[f] # "free" => file[f] # "free"
    BY <1>2, FilesAssumption DEF TypeOK, Insert, Threads
  <2>4. step' = [step EXCEPT ![t] = "entered"] /\ UNCHANGED <<made, worker>>
    BY <1>2 DEF Insert
  <2>5. ASSUME NEW f \in Fds, Entries(f) # {} PROVE Entries(f)' # {}
    <3>1. PICK j \in Ids : timers[j] = f
      BY <2>5
    <3>2. f # NoFd
      BY <2>5, FdsAssumption
    <3>3. j # i
      BY <2>2, <3>1, <3>2
    <3>4. timers'[j] = f
      BY <2>1, <3>1, <3>3 DEF TypeOK
    <3> QED BY <3>4
  <2>6. Entries(made[t])' # {}
    BY <2>1, <2>4 DEF TypeOK
  <2>7. \A u \in Threads : step[u] = "made" => u = t \/ step'[u] = "made"
    BY <2>4 DEF TypeOK
  <2> HIDE DEF Entries
  <2> QED
    BY <2>3, <2>4, <2>5, <2>6, <2>7
<1>3. ASSUME NEW t \in Threads, Register(t) PROVE NoDescriptorLeak'
  BY <1>3 DEF TypeOK, Register
<1>4. ASSUME NEW t \in Threads, NEW i \in Ids, Cancel(t, i) PROVE NoDescriptorLeak'
  BY <1>4 DEF TypeOK, Cancel, Closed
<1>5. ASSUME NEW fds \in SUBSET Fds, Wait(fds) PROVE NoDescriptorLeak'
  BY <1>5 DEF TypeOK, Wait
<1>6. ASSUME NEW f \in Fds, Take(f) PROVE NoDescriptorLeak'
  BY <1>6 DEF TypeOK, Take
<1>7. CASE CallbackEnds
  BY <1>7 DEF TypeOK, CallbackEnds
<1>8. CASE Close
  BY <1>8 DEF TypeOK, Close, Closed
<1>9. ASSUME NEW f \in Fds, Expire(f) PROVE NoDescriptorLeak'
  BY <1>9 DEF TypeOK, Expire
<1>10. CASE Stop
  BY <1>10 DEF TypeOK, Stop
<1>11. CASE Join
  BY <1>11 DEF TypeOK, Join
<1>12. CASE Clear
  BY <1>12 DEF TypeOK, Clear, Closed, Live
<1>13. CASE UNCHANGED vars
  BY <1>13 DEF vars
<1> QED
  BY <1>1, <1>2, <1>3, <1>4, <1>5, <1>6, <1>7, <1>8, <1>9, <1>10, <1>11, <1>12, <1>13
  DEF Next, CallStep, WorkerStep

\* timer.h forgets no timerfd, whatever the interleaving of schedule, cancel and fire
\* on numbers the kernel gives out again, and stop() leaves none open.
THEOREM NothingLeaks == Spec => []NoDescriptorLeak
<1>1. Init => NoDescriptorLeak
  BY DEF Init, NoDescriptorLeak
<1> QED
  BY <1>1, TableAlways, LeakNext, PTL DEF Spec

(***************************************************************************)
(* Refinement                                                               *)
(***************************************************************************)
\* Every step is one of the service's or changes nothing the service knows of: the
\* entry in timers_ decides, under the mutex, which of call and cancel comes first.
LEMMA ServiceStep ==
  TypeOK /\ TableInv /\ [Next]_vars => [Service!ServiceNext]_(Service!serviceVars)
<1> SUFFICES ASSUME TypeOK, TableInv, [Next]_vars
             PROVE  [Service!ServiceNext]_(Service!serviceVars)
  OBVIOUS
<1> USE DEF table, kernel, calls, worker, history, Live
<1>1. ASSUME NEW t \in Threads, Insert(t) PROVE Service!ServiceNext
  <2>1. PICK i \in Ids \ used : timers' = [timers EXCEPT ![i] = made[t]]
    BY <1>1 DEF Insert
  <2>2. Service!Schedule(i)
    BY <1>1, <2>1, FdsAssumption DEF TypeOK, TableInv, Insert, Service!Schedule
  <2> QED BY <2>2 DEF Service!ServiceNext
<1>2. ASSUME NEW t \in Threads, NEW i \in Ids, Cancel(t, i) PROVE Service!ServiceNext
  <2>1. Service!Cancel(i)
    BY <1>2 DEF TypeOK, Cancel, Service!Cancel
  <2> QED BY <2>1 DEF Service!ServiceNext
<1>3. ASSUME NEW f \in Fds, Take(f)
      PROVE  Service!ServiceNext \/ UNCHANGED Service!serviceVars
  <2>1. CASE Entries(f) = {}
    BY <1>3, <2>1 DEF Take, Service!serviceVars
  <2>2. CASE Entries(f) # {}
    <3>1. PICK i \in Entries(f) : timers' = [timers EXCEPT ![i] = NoFd] /\ begun' = begun \cup {i}
      BY <1>3, <2>2 DEF Take
    <3>2. Service!Call(i)
      BY <1>3, <3>1, FdsAssumption DEF TypeOK, Take, Entries, Service!Call
    <3> QED BY <3>1, <3>2 DEF Entries, Service!ServiceNext
  <2> QED BY <2>1, <2>2
<1>4. ASSUME Clear PROVE Service!ServiceNext
  BY <1>4 DEF Clear, Service!Drop, Service!ServiceNext
<1>5. ASSUME UNCHANGED <<timers, begun, cancelled>> PROVE UNCHANGED Service!serviceVars
  BY <1>5 DEF Service!serviceVars
<1> QED
  BY <1>1, <1>2, <1>3, <1>4, <1>5
  DEF Next, CallStep, WorkerStep, Make, Register, Wait, CallbackEnds, Close, Expire, Stop,
      Join, vars

\* The timer manager implements the service FreezeEngine relies on: each callback is
\* called once, cancelled in time, or dropped by stop().
THEOREM Implements == Spec => ImplementsService
<1>1. Init => Service!ServiceInit
  BY DEF Init, Live, Service!ServiceInit
<1> QED
  BY <1>1, TableAlways, ServiceStep, PTL DEF Spec, ImplementsService, Service!ServiceSpec

\* A timer whose fate is open has met none, and none has met two.
OneFate ==
  /\ Live \cap (begun \cup cancelled) = {}
  /\ begun \cap cancelled = {}

\* timer.h:45: a cancel() that found its timer is final: the callback does not begin
\* afterwards, though fire may have the descriptor in hand and the kernel may have
\* given its number to another timer; and a timer that was called is not cancelled.
THEOREM FateIsFinal == Spec => []OneFate
<1> USE DEF OneFate, Live, table, kernel, calls, worker, history
<1>1. Init => OneFate
  BY DEF Init
<1>2. ASSUME TypeOK, TableInv, OneFate, [Next]_vars PROVE OneFate'
  <2> USE <1>2
  <2>1. ASSUME NEW t \in Threads, Insert(t) PROVE OneFate'
    BY <2>1 DEF TypeOK, TableInv, Insert
  <2>2. ASSUME NEW t \in Threads, NEW i \in Ids, Cancel(t, i) PROVE OneFate'
    BY <2>2 DEF TypeOK, Cancel
  <2>3. ASSUME NEW f \in Fds, Take(f) PROVE OneFate'
    <3>1. CASE Entries(f) = {}
      BY <2>3, <3>1 DEF Take
    <3>2. CASE Entries(f) # {}
      <4>1. PICK i \in Entries(f) : timers' = [timers EXCEPT ![i] = NoFd] /\ begun' = begun \cup {i}
        BY <2>3, <3>2 DEF Take
      <4>2. i \in Live /\ Live' = Live \ {i}
        BY <2>3, <4>1, FdsAssumption DEF TypeOK, Entries
      <4> QED BY <2>3, <4>1, <4>2 DEF Take
    <3> QED BY <3>1, <3>2
  <2>4. CASE Clear
    BY <2>4 DEF TypeOK, Clear
  <2>5. ASSUME UNCHANGED <<timers, begun, cancelled>> PROVE OneFate'
    BY <2>5
  <2> QED
    BY <2>1, <2>2, <2>3, <2>4, <2>5
    DEF Next, CallStep, WorkerStep, Make, Register, Wait, CallbackEnds, Close, Expire, Stop,
        Join, vars
<1> QED
  BY <1>1, <1>2, TableAlways, PTL DEF Spec

=============================================================================
