---------------------------- MODULE TimerManager ----------------------------
(***************************************************************************)
(* util/timer.h down to its file descriptors.  A timer is an entry of       *)
(* timers_, a timerfd and a registration with epoll; schedule makes the     *)
(* three one after the other, cancel and fire take them apart, and only     *)
(* timers_ is under the mutex.  What ties them together is the number of    *)
(* the descriptor, and the kernel gives a closed number to the next file.   *)
(*                                                                          *)
(* Callers are the threads that schedule and cancel; the worker does so     *)
(* too, from inside a callback.  Sections under mutex_ are single steps.    *)
(***************************************************************************)
EXTENDS Naturals, FiniteSets

CONSTANTS
  Callers,    \* threads, the worker apart
  Worker,
  Fds,        \* BOUND: numbers of descriptors
  Ids,        \* BOUND: timers ever scheduled
  MaxEvents,  \* MAX_EVENTS of run()
  Delays,     \* delays asked for: "positive" or "none" (0 or less)
  NoFd, NoId

ASSUME CallersAssumption == Worker \notin Callers
ASSUME FdsAssumption == Fds \subseteq Nat /\ NoFd \notin Fds
ASSUME IdsAssumption == NoId \notin Ids /\ Ids \cap (Callers \cup {Worker}) = {}
ASSUME FilesAssumption == "free" \notin Ids \cup Callers \cup {Worker}
ASSUME EventsAssumption == MaxEvents \in Nat \ {0}
ASSUME DelaysAssumption == Delays \subseteq {"positive", "none"}

Threads == Callers \cup {Worker}

VARIABLES
  timers,   \* timers_: the descriptor under each id, or NoFd
  used,     \* ids handed out, that is those below next_id_
  file,     \* what each number is open on: "free", the timerfd of a timer, or
            \* the one a thread has made in a schedule that has no id yet
  clock,    \* the timerfd: "off", "armed", or "due" when its delay has passed
  watch,    \* epoll: "no", "on", or "spent" once its one shot was delivered
  step,     \* each thread's place in schedule: "out", "made", "entered"
  made,     \* the descriptor it made
  got,      \* the id it got
  wpc,      \* the worker: "wait", "fire", "call", "close", "joined", "stopped"
  batch,    \* events[i .. n - 1], not yet fired
  firing,   \* fire's argument
  stopping, \* ~running_
  begun,    \* history: ids whose callback has begun
  cancelled \* history: ids cancel found in timers_

table   == <<timers, used>>
kernel  == <<file, clock, watch>>
calls   == <<step, made, got>>
worker  == <<wpc, batch, firing>>
history == <<begun, cancelled>>
vars == <<timers, used, file, clock, watch, step, made, got, wpc, batch, firing,
          stopping, begun, cancelled>>

TypeOK ==
  /\ timers \in [Ids -> Fds \cup {NoFd}]
  /\ used \subseteq Ids
  /\ file \in [Fds -> Ids \cup Threads \cup {"free"}]
  /\ clock \in [Fds -> {"off", "armed", "due"}]
  /\ watch \in [Fds -> {"no", "on", "spent"}]
  /\ step \in [Threads -> {"out", "made", "entered"}]
  /\ made \in [Threads -> Fds \cup {NoFd}]
  /\ got \in [Threads -> Ids \cup {NoId}]
  /\ wpc \in {"wait", "fire", "call", "close", "joined", "stopped"}
  /\ batch \subseteq Fds
  /\ firing \in Fds \cup {NoFd}
  /\ stopping \in BOOLEAN
  /\ begun \subseteq Ids
  /\ cancelled \subseteq Ids

Init ==
  /\ timers = [i \in Ids |-> NoFd] /\ used = {}
  /\ file = [f \in Fds |-> "free"]
  /\ clock = [f \in Fds |-> "off"]
  /\ watch = [f \in Fds |-> "no"]
  /\ step = [t \in Threads |-> "out"]
  /\ made = [t \in Threads |-> NoFd]
  /\ got = [t \in Threads |-> NoId]
  /\ wpc = "wait" /\ batch = {} /\ firing = NoFd /\ stopping = FALSE
  /\ begun = {} /\ cancelled = {}

(***************************************************************************)
(* Helpers                                                                  *)
(***************************************************************************)
FreeFds == {f \in Fds : file[f] = "free"}

\* A thread may call: the worker from a callback, the others until main has ended
\* them, which it does before stop().
MayCall(t) ==
  /\ step[t] = "out"
  /\ IF t = Worker THEN wpc = "call" ELSE ~stopping

\* close(): whatever the number is open on, gone from epoll as well.
Closed(fds) ==
  /\ file' = [f \in Fds |-> IF f \in fds THEN "free" ELSE file[f]]
  /\ clock' = [f \in Fds |-> IF f \in fds THEN "off" ELSE clock[f]]
  /\ watch' = [f \in Fds |-> IF f \in fds THEN "no" ELSE watch[f]]

Entries(f) == {i \in Ids : timers[i] = f}
Live == {i \in Ids : timers[i] # NoFd}

(***************************************************************************)
(* schedule                                                                 *)
(***************************************************************************)
\* timerfd_create, which takes the lowest free number, and timerfd_settime: a delay
\* of 0 disarms a timerfd, a negative one is refused.  With no number left schedule
\* returns INVALID_TIMER and has done nothing.
Make(t, delay) ==
  /\ MayCall(t)
  /\ Cardinality({u \in Threads : step[u] = "made"}) < Cardinality(Ids \ used)  \* BOUND
  /\ \E f \in FreeFds :
       /\ \A g \in FreeFds : f <= g
       /\ file' = [file EXCEPT ![f] = t]
       /\ clock' = [clock EXCEPT ![f] = IF delay = "positive" THEN "armed" ELSE "off"]
       /\ made' = [made EXCEPT ![t] = f]
  /\ step' = [step EXCEPT ![t] = "made"]
  /\ UNCHANGED <<table, watch, got, worker, stopping, history>>

\* Under the mutex: a new id and its entry.
Insert(t) ==
  /\ step[t] = "made"
  /\ \E i \in Ids \ used :
       /\ used' = used \cup {i}
       /\ timers' = [timers EXCEPT ![i] = made[t]]
       /\ got' = [got EXCEPT ![t] = i]
       /\ file' = IF file[made[t]] = t THEN [file EXCEPT ![made[t]] = i] ELSE file
  /\ step' = [step EXCEPT ![t] = "entered"]
  /\ UNCHANGED <<clock, watch, made, worker, stopping, history>>

\* Mutant of Register: the descriptor is added with its one shot already spent.
RegisterSpent(t) ==
  /\ step[t] = "entered"
  /\ watch' = IF file[made[t]] # "free" THEN [watch EXCEPT ![made[t]] = "spent"] ELSE watch
  /\ step' = [step EXCEPT ![t] = "out"]
  /\ made' = [made EXCEPT ![t] = NoFd]
  /\ got' = [got EXCEPT ![t] = NoId]
  /\ UNCHANGED <<table, file, clock, worker, stopping, history>>

\* add_to_epoll, which fails on a number that is closed or already added; return.
Register(t) ==
  /\ step[t] = "entered"
  /\ watch' = IF file[made[t]] # "free" /\ watch[made[t]] = "no"
              THEN [watch EXCEPT ![made[t]] = "on"] ELSE watch
  /\ step' = [step EXCEPT ![t] = "out"]
  /\ made' = [made EXCEPT ![t] = NoFd]
  /\ got' = [got EXCEPT ![t] = NoId]
  /\ UNCHANGED <<table, file, clock, worker, stopping, history>>

(***************************************************************************)
(* cancel                                                                   *)
(***************************************************************************)
\* Mutant of Cancel: forgets to close the descriptor.
CancelLeaks(t, i) ==
  /\ MayCall(t)
  /\ timers[i] # NoFd /\ \A u \in Threads : got[u] # i
  /\ timers' = [timers EXCEPT ![i] = NoFd]
  /\ cancelled' = cancelled \cup {i}
  /\ watch' = [watch EXCEPT ![timers[i]] = "no"]
  /\ UNCHANGED <<used, file, clock, calls, worker, stopping, begun>>

\* Of an id whose schedule has returned; one no longer in timers_ is ignored.
Cancel(t, i) ==
  /\ MayCall(t)
  /\ timers[i] # NoFd /\ \A u \in Threads : got[u] # i
  /\ timers' = [timers EXCEPT ![i] = NoFd]
  /\ cancelled' = cancelled \cup {i}
  /\ Closed({timers[i]})
  /\ UNCHANGED <<used, calls, worker, stopping, begun>>

(***************************************************************************)
(* run, fire                                                                *)
(***************************************************************************)
Expire(f) ==
  /\ clock[f] = "armed"
  /\ clock' = [clock EXCEPT ![f] = "due"]
  /\ UNCHANGED <<table, file, watch, calls, worker, stopping, history>>

\* epoll_wait returns some of what is ready; EPOLLONESHOT: once each.
Wait(fds) ==
  /\ wpc = "wait" /\ ~stopping
  /\ fds # {} /\ Cardinality(fds) <= MaxEvents
  /\ \A f \in fds : watch[f] = "on" /\ clock[f] = "due"
  /\ batch' = fds
  /\ watch' = [f \in Fds |-> IF f \in fds THEN "spent" ELSE watch[f]]
  /\ wpc' = "fire"
  /\ UNCHANGED <<table, file, clock, calls, firing, stopping, history>>

\* Mutant of Take: the callback is copied, its entry stays.
TakeKeepsEntry(f) ==
  /\ wpc = "fire" /\ f \in batch
  /\ batch' = batch \ {f} /\ firing' = f
  /\ clock' = [clock EXCEPT ![f] = IF @ = "due" THEN "off" ELSE @]
  /\ IF Entries(f) = {}
     THEN wpc' = "close" /\ UNCHANGED begun
     ELSE \E i \in Entries(f) : begun' = begun \cup {i} /\ wpc' = "call"
  /\ UNCHANGED <<table, file, watch, calls, stopping, cancelled>>

\* fire reads the descriptor and, under the mutex, takes the first entry with its
\* number; it calls the callback, if there was one, with no lock.
Take(f) ==
  /\ wpc = "fire" /\ f \in batch
  /\ batch' = batch \ {f} /\ firing' = f
  /\ clock' = [clock EXCEPT ![f] = IF @ = "due" THEN "off" ELSE @]
  /\ IF Entries(f) = {}
     THEN wpc' = "close" /\ UNCHANGED <<timers, begun>>
     ELSE \E i \in Entries(f) :
            /\ timers' = [timers EXCEPT ![i] = NoFd]
            /\ begun' = begun \cup {i}
            /\ wpc' = "call"
  /\ UNCHANGED <<used, file, watch, calls, stopping, cancelled>>

\* The callback returns.
CallbackEnds ==
  /\ wpc = "call" /\ step[Worker] = "out"
  /\ wpc' = "close"
  /\ UNCHANGED <<table, kernel, calls, batch, firing, stopping, history>>

\* fire ends with close(fd), whether it found an entry or not.
Close ==
  /\ wpc = "close"
  /\ Closed({firing})
  /\ firing' = NoFd
  /\ wpc' = IF batch = {} THEN "wait" ELSE "fire"
  /\ UNCHANGED <<table, calls, batch, stopping, history>>

(***************************************************************************)
(* stop                                                                     *)
(***************************************************************************)
\* main calls stop() when it has ended the other threads.
Stop ==
  /\ ~stopping /\ \A t \in Callers : step[t] = "out"
  /\ stopping' = TRUE
  /\ UNCHANGED <<table, kernel, calls, worker, history>>

\* The worker sees it at the head of its loop, and is joined.
Join ==
  /\ wpc = "wait" /\ stopping
  /\ wpc' = "joined"
  /\ UNCHANGED <<table, kernel, calls, batch, firing, stopping, history>>

Clear ==
  /\ wpc = "joined"
  /\ Closed({timers[i] : i \in Live})
  /\ timers' = [i \in Ids |-> NoFd]
  /\ wpc' = "stopped"
  /\ UNCHANGED <<used, calls, batch, firing, stopping, history>>

(***************************************************************************)
(* The specification                                                        *)
(***************************************************************************)
CallStep(t) ==
  \/ \E delay \in Delays : Make(t, delay)
  \/ Insert(t) \/ Register(t)
  \/ \E i \in Ids : Cancel(t, i)

WorkerStep ==
  \/ \E fds \in SUBSET Fds : Wait(fds)
  \/ \E f \in Fds : Take(f)
  \/ CallbackEnds \/ Close

Next ==
  \/ \E t \in Threads : CallStep(t)
  \/ WorkerStep
  \/ \E f \in Fds : Expire(f)
  \/ Stop \/ Join \/ Clear

Spec == Init /\ [][Next]_vars

\* Time passes; threads keep running; callbacks end; epoll_wait returns in the end
\* every descriptor that stays ready, since the kernel serves its ready list in
\* turn.  Nobody has to cancel, schedule or stop.
Fairness ==
  /\ \A f \in Fds : WF_vars(Expire(f)) /\ WF_vars(Take(f))
  /\ \A f \in Fds : SF_vars(\E fds \in SUBSET Fds : f \in fds /\ Wait(fds))
  /\ \A t \in Threads : WF_vars(Insert(t)) /\ WF_vars(Register(t))
  /\ WF_vars(CallbackEnds) /\ WF_vars(Close)
  /\ WF_vars(Join) /\ WF_vars(Clear)

FairSpec == Spec /\ Fairness

(***************************************************************************)
(* Properties                                                               *)
(***************************************************************************)
Service == INSTANCE TimerService WITH live <- Live, called <- begun

\* Whatever happens to the numbers of descriptors, each callback has one fate: it
\* is called once, cancelled in time, or dropped by stop() (fire erases an entry
\* before it calls, cancel finds only what was not taken).
ImplementsService == Service!ServiceSpec

\* No timerfd is forgotten: one that is open is in an entry, still in the hands of
\* the thread that schedules it, or about to be closed by fire.
NoDescriptorLeak ==
  \A f \in Fds : file[f] # "free" =>
    \/ Entries(f) # {}
    \/ \E t \in Threads : step[t] = "made" /\ made[t] = f
    \/ firing = f /\ wpc \in {"call", "close"}

\* The timer has what schedule gave it: an armed timerfd of its own.
Sound(i) ==
  /\ timers[i] # NoFd
  /\ file[timers[i]] = i /\ clock[timers[i]] \in {"armed", "due"}

\* A timer that keeps its descriptor is called or cancelled in the end, however
\* many others are due and whatever their callbacks schedule.
SoundIsServed == \A i \in Ids : Sound(i) ~> ~Sound(i)

\* What makes both hold (proved in TimerManagerProofs): ids are handed out once, and
\* a thread in the middle of schedule has a descriptor to enter.
TableInv ==
  /\ Live \cup begun \cup cancelled \subseteq used
  /\ \A t \in Threads : step[t] = "made" => made[t] \in Fds

(***************************************************************************)
(* What the settings say, and the code does not always do                   *)
(***************************************************************************)
\* freeze.conf:4: how long to wait; a callback does not begin before its delay has
\* passed.
NeverEarly ==
  [][\A i \in begun' \ begun :
       timers[i] # NoFd /\ file[timers[i]] = i /\ clock[timers[i]] = "due"]_vars

\* freeze.conf:4: what was scheduled is done after its delay.
EveryTimerServed == \A i \in Ids : timers[i] # NoFd ~> timers[i] = NoFd

=============================================================================
