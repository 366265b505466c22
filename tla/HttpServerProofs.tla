--------------------------- MODULE HttpServerProofs ---------------------------
(***************************************************************************)
(* Theorems about HttpServer, for any number of workers and clients: the    *)
(* condition variable loses no wake-up, stop() leaves nobody behind, and    *)
(* the whole is a queue in the sense of ClientQueue.                        *)
(***************************************************************************)
EXTENDS HttpServer, FiniteSetTheorems, TLAPS

(***************************************************************************)
(* Types                                                                    *)
(***************************************************************************)
\* The accept thread has a client from accept() to the queue.
HandInv == apc = "push" => accepted \in Clients

LEMMA TypeInit == Init => TypeOK /\ HandInv
<1> SUFFICES ASSUME Init PROVE TypeOK /\ HandInv
  OBVIOUS
<1>1. <<>> \in Seq(Clients)
  OBVIOUS
<1>2. /\ wpc \in [Workers -> {"check", "asleep", "read", "send", "ended"}]
      /\ serving \in [Workers -> Clients \cup {NoClient}]
  BY DEF Init
<1> QED BY <1>1, <1>2 DEF Init, TypeOK, HandInv

LEMMA TypeNext == TypeOK /\ HandInv /\ [Next]_vars => TypeOK' /\ HandInv'
<1> SUFFICES ASSUME TypeOK, HandInv, [Next]_vars PROVE TypeOK' /\ HandInv'
  OBVIOUS
<1> USE DEF TypeOK, HandInv, acceptor, pool
<1>1. CASE AcceptTest \/ Flag \/ JoinWorkers
  BY <1>1 DEF AcceptTest, Flag, JoinWorkers
<1>2. CASE Accept
  <2>1. CASE ~listening
    BY <1>2, <2>1 DEF Accept
  <2>2. CASE listening
    <3>1. Head(backlog) \in Clients /\ Tail(backlog) \in Seq(Clients)
      BY <1>2, <2>2 DEF Accept
    <3> QED BY <1>2, <2>2, <3>1 DEF Accept
  <2> QED BY <2>1, <2>2
<1>3. CASE Push
  <2>1. Append(queue, accepted) \in Seq(Clients)
    BY <1>3 DEF Push
  <2> QED BY <1>3, <2>1 DEF Push
<1>4. CASE PushNotify \/ FlagNotify
  <2>1. wpc' \in [Workers -> {"check", "asleep", "read", "send", "ended"}]
    BY <1>4 DEF PushNotify, FlagNotify, NotifyOne, NotifyAll
  <2> QED BY <1>4, <2>1 DEF PushNotify, FlagNotify
<1>5. ASSUME NEW w \in Workers, Check(w) PROVE TypeOK' /\ HandInv'
  <2>1. queue # <<>> => Head(queue) \in Clients /\ Tail(queue) \in Seq(Clients)
    OBVIOUS
  <2> QED BY <1>5, <2>1 DEF Check
<1>6. ASSUME NEW w \in Workers, Read(w) \/ Send(w) PROVE TypeOK' /\ HandInv'
  BY <1>6 DEF Read, Send, CloseClient
<1>7. ASSUME NEW w \in Workers, WakesUp(w) PROVE TypeOK' /\ HandInv'
  BY <1>7 DEF WakesUp
<1>8. CASE StopStep
  <2>1. <<>> \in Seq(Clients)
    OBVIOUS
  <2> QED BY <1>8, <2>1 DEF StopStep, StopRunning, StopListening, StopJoined
<1>9. ASSUME NEW c \in Clients, Connect(c) PROVE TypeOK' /\ HandInv'
  <2>1. Append(backlog, c) \in Seq(Clients)
    BY <1>9
  <2> QED BY <1>9, <2>1 DEF Connect
<1>10. CASE UNCHANGED vars
  BY <1>10 DEF vars
<1> QED
  BY <1>1, <1>2, <1>3, <1>4, <1>5, <1>6, <1>7, <1>8, <1>9, <1>10
  DEF Next, AcceptStep, WorkerStep

\* Every reachable state is of the declared types.
THEOREM PoolTypes == Spec => []TypeOK
<1>1. Spec => [](TypeOK /\ HandInv)
  BY TypeInit, TypeNext, PTL DEF Spec
<1> QED BY <1>1, PTL

(***************************************************************************)
(* Wake-ups                                                                 *)
(***************************************************************************)
\* The notification that is still to come counts for one worker.
Told == IF apc = "notify" THEN 1 ELSE 0

\* shutting_down_ is set once the accept thread has left its loop.
AcceptorInv == shutting => apc \in {"notify_all", "join", "done"}

LEMMA ComingFinite == IsFiniteSet(Coming) /\ Cardinality(Coming) \in Nat
<1>1. Coming \subseteq Workers
  BY DEF Coming
<1>2. IsFiniteSet(Coming)
  BY <1>1, WorkersAssumption, FS_Subset
<1> QED BY <1>2, FS_CardinalityType

\* A worker gets up.
LEMMA OneMoreComes ==
  ASSUME TypeOK, NEW w \in Workers, wpc[w] # "check",
         wpc' = [wpc EXCEPT ![w] = "check"]
  PROVE  Cardinality(Coming)' = Cardinality(Coming) + 1
<1>1. Coming' = Coming \cup {w} /\ w \notin Coming
  BY DEF TypeOK, Coming
<1> HIDE DEF Coming
<1> QED BY <1>1, ComingFinite, FS_AddElement

\* A worker goes to a client.
LEMMA OneFewerComes ==
  ASSUME TypeOK, NEW w \in Workers, wpc[w] = "check",
         wpc' = [wpc EXCEPT ![w] = "read"]
  PROVE  Cardinality(Coming)' = Cardinality(Coming) - 1
<1>1. Coming' = Coming \ {w} /\ w \in Coming
  BY DEF TypeOK, Coming
<1> QED BY <1>1, ComingFinite, FS_RemoveElement

LEMMA WakeNext ==
  ASSUME TypeOK, AcceptorInv, NoneSleepsOnWork, [Next]_vars
  PROVE  AcceptorInv' /\ NoneSleepsOnWork'
<1> DEFINE Claim == AcceptorInv' /\ NoneSleepsOnWork'
<1>1. CASE AcceptTest \/ Accept
  <2>1. UNCHANGED <<wpc, queue, shutting>> /\ ~shutting /\ apc # "notify" /\ apc' # "notify"
    BY <1>1 DEF AcceptTest, Accept, AcceptorInv, pool
  <2> QED BY <2>1 DEF AcceptorInv, NoneSleepsOnWork, Coming
<1>2. CASE Push
  <2>1. /\ UNCHANGED <<wpc, shutting>> /\ ~shutting /\ apc = "push" /\ apc' = "notify"
        /\ queue \in Seq(Clients \cup {NoClient}) /\ accepted \in Clients \cup {NoClient}
        /\ queue' = Append(queue, accepted)
    BY <1>2 DEF Push, AcceptorInv, pool, TypeOK
  <2>2. Len(queue') = Len(queue) + 1 /\ Len(queue) \in Nat
    BY <2>1
  <2>3. Coming' = Coming
    BY <2>1 DEF Coming
  <2> QED BY <2>1, <2>2, <2>3, ComingFinite DEF AcceptorInv, NoneSleepsOnWork
<1>3. CASE PushNotify
  <2>1. /\ UNCHANGED <<queue, shutting>> /\ ~shutting
        /\ apc = "notify" /\ apc' = "test" /\ NotifyOne
    BY <1>3 DEF PushNotify, AcceptorInv
  <2>2. CASE (\A w \in Workers : wpc[w] # "asleep") /\ UNCHANGED wpc
    BY <2>1, <2>2 DEF AcceptorInv, NoneSleepsOnWork
  <2>3. ASSUME NEW w \in Workers, wpc[w] = "asleep", wpc' = [wpc EXCEPT ![w] = "check"]
        PROVE  Claim
    <3>1. Cardinality(Coming)' = Cardinality(Coming) + 1
      BY <2>3, OneMoreComes
    <3>2. Len(queue) \in Nat
      BY DEF TypeOK
    <3> QED BY <2>1, <2>3, <3>1, <3>2, ComingFinite DEF AcceptorInv, NoneSleepsOnWork
  <2> QED BY <2>1, <2>2, <2>3 DEF NotifyOne
<1>4. CASE Flag
  BY <1>4 DEF Flag, pool, AcceptorInv, NoneSleepsOnWork, Coming
<1>5. CASE FlagNotify
  <2>1. \A w \in Workers : wpc'[w] # "asleep"
    BY <1>5 DEF FlagNotify, NotifyAll
  <2> QED BY <1>5, <2>1 DEF FlagNotify, AcceptorInv, NoneSleepsOnWork
<1>6. CASE JoinWorkers
  BY <1>6 DEF JoinWorkers, pool, AcceptorInv, NoneSleepsOnWork
<1>7. ASSUME NEW w \in Workers, Check(w) PROVE Claim
  <2>1. /\ UNCHANGED <<apc, shutting>> /\ wpc[w] = "check"
        /\ wpc \in [Workers -> {"check", "asleep", "read", "send", "ended"}]
        /\ queue \in Seq(Clients)
    BY <1>7 DEF Check, acceptor, TypeOK
  <2>2. CASE queue = <<>>
    <3>1. Len(queue') = 0
      BY <1>7, <2>2 DEF Check
    <3>2. Cardinality(Coming)' \in Nat
      <4>1. Coming' \subseteq Workers
        BY DEF Coming
      <4> QED BY <4>1, WorkersAssumption, FS_Subset, FS_CardinalityType
    <3>3. \/ ~shutting /\ wpc' = [wpc EXCEPT ![w] = "asleep"]
          \/ shutting /\ wpc' = [wpc EXCEPT ![w] = "ended"]
      BY <1>7, <2>2 DEF Check
    <3> QED BY <2>1, <3>1, <3>2, <3>3 DEF AcceptorInv, NoneSleepsOnWork
  <2>3. CASE queue # <<>>
    <3>1. wpc' = [wpc EXCEPT ![w] = "read"] /\ queue' = Tail(queue)
      BY <1>7, <2>3 DEF Check
    <3>2. Len(queue') = Len(queue) - 1 /\ Len(queue) \in Nat
      BY <2>1, <2>3, <3>1
    <3>3. wpc[w] = "check"
      BY <2>1
    <3>4. Cardinality(Coming)' = Cardinality(Coming) - 1
      BY <3>1, <3>3, OneFewerComes
    <3>5. (\E v \in Workers : wpc'[v] = "asleep") => \E v \in Workers : wpc[v] = "asleep"
      BY <2>1, <3>1
    <3> HIDE DEF Coming
    <3> QED BY <2>1, <3>2, <3>4, <3>5, ComingFinite DEF AcceptorInv, NoneSleepsOnWork
  <2> QED BY <2>2, <2>3
<1>8. ASSUME NEW w \in Workers, wpc[w] # "check", wpc' = [wpc EXCEPT ![w] = "check"],
             UNCHANGED <<apc, queue, shutting>>
      PROVE  Claim
  <2>1. Cardinality(Coming)' = Cardinality(Coming) + 1
    BY <1>8, OneMoreComes
  <2>2. Len(queue) \in Nat
    BY DEF TypeOK
  <2> QED BY <1>8, <2>1, <2>2, ComingFinite DEF TypeOK, AcceptorInv, NoneSleepsOnWork
<1>9. ASSUME NEW w \in Workers, wpc[w] = "read", wpc' = [wpc EXCEPT ![w] = "send"],
             UNCHANGED <<apc, queue, shutting>>
      PROVE  Claim
  <2>1. Coming' = Coming
    BY <1>9 DEF TypeOK, Coming
  <2> QED BY <1>9, <2>1 DEF TypeOK, AcceptorInv, NoneSleepsOnWork
<1>10. ASSUME UNCHANGED <<apc, queue, shutting, wpc>> PROVE Claim
  BY <1>10 DEF AcceptorInv, NoneSleepsOnWork, Coming
<1>11. ASSUME NEW w \in Workers, Read(w) \/ Send(w) \/ WakesUp(w) PROVE Claim
  BY <1>8, <1>9, <1>11 DEF Read, Send, WakesUp, CloseClient, acceptor
<1>12. CASE StopStep \/ (\E c \in Clients : Connect(c)) \/ UNCHANGED vars
  BY <1>10, <1>12 DEF StopStep, StopRunning, StopListening, StopJoined, Connect,
                      vars, acceptor, pool
<1> QED
  BY <1>1, <1>2, <1>3, <1>4, <1>5, <1>6, <1>7, <1>11, <1>12
  DEF Next, AcceptStep, WorkerStep

\* push_client notifies outside the mutex, and one worker only; still no client is
\* left in the queue while a worker sleeps, and none sleeps through the end.
THEOREM NoWakeupLost == Spec => []NoneSleepsOnWork
<1>1. Init => AcceptorInv /\ NoneSleepsOnWork
  BY DEF Init, AcceptorInv, NoneSleepsOnWork
<1>2. TypeOK /\ AcceptorInv /\ NoneSleepsOnWork /\ [Next]_vars
        => AcceptorInv' /\ NoneSleepsOnWork'
  BY WakeNext
<1> QED
  BY <1>1, <1>2, PoolTypes, PTL DEF Spec

(***************************************************************************)
(* The end                                                                  *)
(***************************************************************************)
\* A worker ends with the queue empty and nobody left to fill it; each connection is
\* in the hands of the thread whose step it waits for.
EndInv ==
  /\ mpc = "stopped" => apc = "done"
  /\ apc = "done" => \A w \in Workers : wpc[w] = "ended"
  /\ \A w \in Workers : wpc[w] = "ended" => shutting /\ queue = <<>>
  /\ \A w \in Workers : serving[w] # NoClient => wpc[w] \in {"read", "send"}
  /\ accepted # NoClient => apc = "push"

LEMMA EndNext ==
  ASSUME TypeOK, AcceptorInv, EndInv, [Next]_vars
  PROVE  EndInv'
<1> USE DEF TypeOK, EndInv, acceptor, pool
<1>1. CASE AcceptTest \/ Flag \/ JoinWorkers
  BY <1>1 DEF AcceptTest, Flag, JoinWorkers
<1>2. CASE Accept
  BY <1>2 DEF Accept
<1>3. CASE Push
  BY <1>3 DEF Push, AcceptorInv
<1>4. CASE PushNotify
  BY <1>4 DEF PushNotify, NotifyOne
<1>5. CASE FlagNotify
  BY <1>5 DEF FlagNotify, NotifyAll
<1>6. ASSUME NEW w \in Workers, Check(w) PROVE EndInv'
  BY <1>6 DEF Check
<1>7. ASSUME NEW w \in Workers, Read(w) \/ Send(w) \/ WakesUp(w) PROVE EndInv'
  BY <1>7 DEF Read, Send, WakesUp, CloseClient
<1>8. CASE StopStep \/ (\E c \in Clients : Connect(c)) \/ UNCHANGED vars
  BY <1>8 DEF StopStep, StopRunning, StopListening, StopJoined, Connect, vars
<1> QED
  BY <1>1, <1>2, <1>3, <1>4, <1>5, <1>6, <1>7, <1>8
  DEF Next, AcceptStep, WorkerStep

\* Whoever was accepted before stop() returned has been served: the workers end only
\* when the queue is empty, and the accept thread fills it no more.
THEOREM ServedBeforeStop == Spec => []NoneLeftBehind
<1>1. Init => AcceptorInv /\ NoneSleepsOnWork /\ EndInv
  BY DEF Init, AcceptorInv, NoneSleepsOnWork, EndInv
<1>2. TypeOK /\ AcceptorInv /\ NoneSleepsOnWork /\ EndInv /\ [Next]_vars
        => AcceptorInv' /\ NoneSleepsOnWork' /\ EndInv'
  BY WakeNext, EndNext
<1>3. EndInv => NoneLeftBehind
  BY WorkersAssumption DEF EndInv, NoneLeftBehind
<1> QED
  BY <1>1, <1>2, <1>3, PoolTypes, PTL DEF Spec

(***************************************************************************)
(* The refinement of ClientQueue                                            *)
(***************************************************************************)
\* No element twice.
Distinct(s) == \A i, j \in DOMAIN s : s[i] = s[j] => i = j

\* What appending does to the elements.
LEMMA AppendElements ==
  ASSUME NEW S, NEW s \in Seq(S), NEW c \in S
  PROVE  /\ ToSet(Append(s, c)) = ToSet(s) \cup {c}
         /\ Distinct(s) /\ c \notin ToSet(s) => Distinct(Append(s, c))
<1>1. /\ Append(s, c) \in Seq(S) /\ Len(Append(s, c)) = Len(s) + 1 /\ Len(s) \in Nat
      /\ \A i \in 1 .. Len(s) : Append(s, c)[i] = s[i]
      /\ Append(s, c)[Len(s) + 1] = c
  OBVIOUS
<1>2. DOMAIN s = 1 .. Len(s) /\ DOMAIN Append(s, c) = 1 .. (Len(s) + 1)
  BY <1>1
<1>3. ToSet(Append(s, c)) = ToSet(s) \cup {c}
  BY <1>1, <1>2 DEF ToSet
<1>4. ASSUME Distinct(s), c \notin ToSet(s) PROVE Distinct(Append(s, c))
  BY <1>1, <1>2, <1>4 DEF ToSet, Distinct
<1> QED BY <1>3, <1>4

\* What taking the first does to them.
LEMMA TailElements ==
  ASSUME NEW S, NEW s \in Seq(S), s # <<>>
  PROVE  /\ ToSet(s) = ToSet(Tail(s)) \cup {Head(s)}
         /\ Distinct(s) => Distinct(Tail(s)) /\ Head(s) \notin ToSet(Tail(s))
<1>1. /\ Tail(s) \in Seq(S) /\ Len(Tail(s)) = Len(s) - 1 /\ Len(s) \in Nat \ {0}
      /\ \A i \in 1 .. Len(s) - 1 : Tail(s)[i] = s[i + 1]
      /\ Head(s) = s[1]
  OBVIOUS
<1>2. DOMAIN s = 1 .. Len(s) /\ DOMAIN Tail(s) = 1 .. (Len(s) - 1)
  BY <1>1
<1>3. ToSet(s) \subseteq ToSet(Tail(s)) \cup {Head(s)}
  <2> SUFFICES ASSUME NEW i \in 1 .. Len(s) PROVE s[i] \in ToSet(Tail(s)) \cup {Head(s)}
    BY <1>2 DEF ToSet
  <2>1. CASE i = 1
    BY <1>1, <2>1
  <2>2. CASE i # 1
    <3>1. i - 1 \in DOMAIN Tail(s) /\ Tail(s)[i - 1] = s[i]
      BY <1>1, <1>2, <2>2
    <3> QED BY <3>1 DEF ToSet
  <2> QED BY <2>1, <2>2
<1>4. ToSet(Tail(s)) \cup {Head(s)} \subseteq ToSet(s)
  BY <1>1, <1>2 DEF ToSet
<1>5. ASSUME Distinct(s) PROVE Distinct(Tail(s)) /\ Head(s) \notin ToSet(Tail(s))
  BY <1>1, <1>2, <1>5 DEF ToSet, Distinct
<1> QED BY <1>3, <1>4, <1>5

\* A connection is in one place: the kernel's backlog, the accept thread, the queue or a
\* worker, and there once.
OnePlace ==
  /\ Distinct(backlog) /\ Distinct(queue)
  /\ ToSet(backlog) \cap ToSet(queue) = {}
  /\ accepted \notin ToSet(backlog) \cup ToSet(queue)
  /\ \A w \in Workers :
       /\ serving[w] \notin ToSet(backlog) \cup ToSet(queue)
       /\ serving[w] # NoClient =>
            serving[w] # accepted /\ \A v \in Workers : serving[v] = serving[w] => v = w

LEMMA ElementType ==
  ASSUME NEW S, NEW s \in Seq(S)
  PROVE  ToSet(s) \subseteq S
<1>1. DOMAIN s = 1 .. Len(s) /\ \A i \in 1 .. Len(s) : s[i] \in S
  OBVIOUS
<1> QED BY <1>1 DEF ToSet

LEMMA OnePlaceNext ==
  ASSUME TypeOK, HandInv, EndInv, OnePlace, [Next]_vars
  PROVE  OnePlace'
<1> USE DEF acceptor, pool
<1>0. /\ NoClient \notin ToSet(backlog) /\ NoClient \notin ToSet(queue)
      /\ backlog \in Seq(Clients) /\ queue \in Seq(Clients)
      /\ serving \in [Workers -> Clients \cup {NoClient}]
  BY ElementType, ClientsAssumption DEF TypeOK
<1>1. ASSUME UNCHANGED <<backlog, queue, accepted, serving>> PROVE OnePlace'
  BY <1>1 DEF OnePlace
<1>2. CASE AcceptTest \/ PushNotify \/ Flag \/ FlagNotify \/ JoinWorkers
  BY <1>1, <1>2 DEF AcceptTest, PushNotify, Flag, FlagNotify, JoinWorkers
<1>3. CASE Accept
  <2>1. CASE UNCHANGED <<accepted, backlog>>
    BY <1>1, <1>3, <2>1 DEF Accept
  <2>2. CASE backlog # <<>> /\ accepted' = Head(backlog) /\ backlog' = Tail(backlog)
    <3>1. UNCHANGED <<queue, serving>>
      BY <1>3 DEF Accept
    <3>2. /\ ToSet(backlog) = ToSet(backlog') \cup {accepted'}
          /\ Distinct(backlog') /\ accepted' \notin ToSet(backlog')
      BY <1>0, <2>2, TailElements DEF OnePlace
    <3> QED BY <3>1, <3>2 DEF OnePlace
  <2> QED BY <1>3, <2>1, <2>2 DEF Accept
<1>4. CASE Push
  <2>1. /\ accepted \in Clients /\ accepted' = NoClient /\ queue' = Append(queue, accepted)
        /\ UNCHANGED <<backlog, serving>>
    BY <1>4 DEF Push, HandInv
  <2>2. ToSet(queue') = ToSet(queue) \cup {accepted} /\ Distinct(queue')
    BY <1>0, <2>1, AppendElements DEF OnePlace
  <2>3. \A w \in Workers : serving[w] # accepted
    BY <2>1, ClientsAssumption DEF OnePlace
  <2> QED BY <1>0, <2>1, <2>2, <2>3, ClientsAssumption DEF OnePlace
<1>5. ASSUME NEW w \in Workers, Check(w) PROVE OnePlace'
  <2>1. CASE UNCHANGED <<queue, serving>>
    BY <1>1, <1>5, <2>1 DEF Check
  <2>2. CASE /\ queue # <<>> /\ serving' = [serving EXCEPT ![w] = Head(queue)]
             /\ queue' = Tail(queue)
    <3>1. UNCHANGED <<backlog, accepted>> /\ wpc[w] = "check"
      BY <1>5 DEF Check
    <3>2. /\ ToSet(queue) = ToSet(queue') \cup {Head(queue)}
          /\ Distinct(queue') /\ Head(queue) \notin ToSet(queue')
      BY <1>0, <2>2, TailElements DEF OnePlace
    <3>3. /\ serving'[w] = Head(queue)
          /\ \A v \in Workers \ {w} : serving'[v] = serving[v] /\ serving[v] # Head(queue)
      BY <1>0, <2>2, <3>2 DEF OnePlace
    <3> QED BY <3>1, <3>2, <3>3 DEF OnePlace
  <2> QED BY <1>5, <2>1, <2>2 DEF Check
<1>6. ASSUME NEW w \in Workers, Read(w) \/ Send(w) \/ WakesUp(w) PROVE OnePlace'
  <2>1. CASE UNCHANGED serving
    BY <1>1, <1>6, <2>1 DEF Read, Send, WakesUp
  <2>2. CASE CloseClient(w)
    <3>1. UNCHANGED <<backlog, queue, accepted>>
      BY <1>6 DEF Read, Send, WakesUp
    <3> QED BY <1>0, <2>2, <3>1 DEF CloseClient, OnePlace
  <2> QED BY <1>6, <2>1, <2>2 DEF Read, Send, WakesUp
<1>7. CASE StopStep
  <2>1. CASE StopRunning \/ StopJoined
    BY <1>1, <2>1 DEF StopRunning, StopJoined
  <2>2. CASE StopListening
    <3>1. backlog' = <<>> /\ UNCHANGED <<queue, accepted, serving>>
      BY <2>2 DEF StopListening
    <3>2. ToSet(backlog') = {} /\ Distinct(backlog')
      BY <3>1 DEF ToSet, Distinct
    <3> QED BY <3>1, <3>2 DEF OnePlace
  <2> QED BY <1>7, <2>1, <2>2 DEF StopStep
<1>8. ASSUME NEW c \in Clients, Connect(c) PROVE OnePlace'
  <2>1. /\ backlog' = Append(backlog, c) /\ UNCHANGED <<queue, accepted, serving>>
        /\ c \notin ToSet(backlog) \cup ToSet(queue) /\ c # accepted
        /\ \A w \in Workers : serving[w] # c
    BY <1>8 DEF Connect, Connected
  <2>2. ToSet(backlog') = ToSet(backlog) \cup {c} /\ Distinct(backlog')
    BY <1>0, <1>8, <2>1, AppendElements DEF OnePlace
  <2> QED BY <2>1, <2>2 DEF OnePlace
<1>9. CASE UNCHANGED vars
  BY <1>1, <1>9 DEF vars
<1> QED
  BY <1>2, <1>3, <1>4, <1>5, <1>6, <1>7, <1>8, <1>9 DEF Next, AcceptStep, WorkerStep

\* The queue's own steps, and the rest, which does not move a connection that was accepted.
LEMMA PoolStep ==
  ASSUME TypeOK, HandInv, EndInv, OnePlace, [Next]_vars
  PROVE  [Pool!QueueNext]_(Pool!queueVars)
<1> DEFINE Goal == [Pool!QueueNext]_(Pool!queueVars)
           Waits == IF accepted = NoClient THEN queue ELSE Append(queue, accepted)
           Served == {serving[w] : w \in Workers} \ {NoClient}
<1> USE DEF acceptor, pool
<1>0. /\ NoClient \notin ToSet(backlog) /\ NoClient \notin ToSet(queue)
      /\ ToSet(backlog) \subseteq Clients /\ ToSet(queue) \subseteq Clients
      /\ backlog \in Seq(Clients) /\ queue \in Seq(Clients)
      /\ serving \in [Workers -> Clients \cup {NoClient}]
  BY ElementType, ClientsAssumption DEF TypeOK
<1>1. ASSUME UNCHANGED <<queue, accepted, serving, mpc>> PROVE Goal
  BY <1>1 DEF Pool!queueVars
<1>2. CASE AcceptTest \/ PushNotify \/ Flag \/ FlagNotify \/ JoinWorkers
  BY <1>1, <1>2 DEF AcceptTest, PushNotify, Flag, FlagNotify, JoinWorkers
<1>3. CASE Accept
  <2>1. CASE UNCHANGED <<accepted, backlog>>
    BY <1>1, <1>3, <2>1 DEF Accept
  <2>2. CASE listening /\ backlog # <<>> /\ accepted' = Head(backlog)
    <3>1. /\ UNCHANGED <<queue, serving, mpc>> /\ apc = "accept"
      BY <1>3 DEF Accept
    <3>2. accepted = NoClient /\ mpc # "stopped"
      BY <3>1 DEF EndInv
    <3>3. /\ accepted' \in ToSet(backlog) /\ accepted' \in Clients
      BY <1>0, <2>2, TailElements
    <3>4. accepted' \notin ToSet(queue) \cup Served /\ accepted' # NoClient
      BY <1>0, <3>3 DEF OnePlace
    <3>5. Pool!Arrive(accepted')
      BY <3>1, <3>2, <3>4 DEF Pool!Arrive, Pool!ToSet, ToSet
    <3> QED BY <3>3, <3>5 DEF Pool!QueueNext
  <2> QED BY <1>3, <2>1, <2>2 DEF Accept
<1>4. CASE Push
  <2>1. /\ accepted # NoClient /\ accepted' = NoClient /\ queue' = Append(queue, accepted)
        /\ UNCHANGED <<serving, mpc>>
    BY <1>4, ClientsAssumption DEF Push, HandInv
  <2> QED BY <2>1 DEF Pool!queueVars
<1>5. ASSUME NEW w \in Workers, Check(w) PROVE Goal
  <2>1. CASE UNCHANGED <<queue, serving>>
    BY <1>1, <1>5, <2>1 DEF Check
  <2>2. CASE /\ queue # <<>> /\ serving' = [serving EXCEPT ![w] = Head(queue)]
             /\ queue' = Tail(queue)
    <3>1. UNCHANGED <<accepted, mpc>> /\ serving[w] = NoClient
      BY <1>5 DEF Check, EndInv
    <3>2. Head(queue) \in Clients
      BY <1>0, <2>2
    <3>3. Served' = Served \cup {Head(queue)}
      BY <1>0, <2>2, <3>1, <3>2, ClientsAssumption
    <3>4. Waits # <<>> /\ Head(Waits) = Head(queue) /\ Waits' = Tail(Waits)
      <4>1. CASE accepted = NoClient
        BY <2>2, <3>1, <4>1
      <4>2. CASE accepted # NoClient
        <5>1. accepted \in Clients
          BY <4>2 DEF TypeOK
        <5>2. /\ Append(queue, accepted) # <<>>
              /\ Head(Append(queue, accepted)) = Head(queue)
              /\ Tail(Append(queue, accepted)) = Append(Tail(queue), accepted)
          BY <1>0, <2>2, <5>1
        <5> QED BY <2>2, <3>1, <4>2, <5>2
      <4> QED BY <4>1, <4>2
    <3>5. Pool!Serve
      BY <3>1, <3>3, <3>4 DEF Pool!Serve
    <3> QED BY <3>5 DEF Pool!QueueNext
  <2> QED BY <1>5, <2>1, <2>2 DEF Check
<1>6. ASSUME NEW w \in Workers, Read(w) \/ Send(w) \/ WakesUp(w) PROVE Goal
  <2>1. CASE UNCHANGED serving
    BY <1>1, <1>6, <2>1 DEF Read, Send, WakesUp
  <2>2. CASE CloseClient(w)
    <3>1. UNCHANGED <<queue, accepted, mpc>>
      BY <1>6 DEF Read, Send, WakesUp
    <3>2. CASE serving[w] = NoClient
      <4>1. serving' = serving
        BY <1>0, <2>2, <3>2 DEF CloseClient
      <4> QED BY <1>1, <3>1, <4>1
    <3>3. CASE serving[w] # NoClient
      <4>1. PICK c \in Clients : c = serving[w]
        BY <1>0, <3>3
      <4>2. c \in Served /\ Served' = Served \ {c}
        BY <1>0, <2>2, <3>3, <4>1 DEF CloseClient, OnePlace
      <4>3. Pool!Finish(c)
        BY <3>1, <4>2 DEF Pool!Finish
      <4> QED BY <4>3 DEF Pool!QueueNext
    <3> QED BY <3>2, <3>3
  <2> QED BY <1>6, <2>1, <2>2 DEF Read, Send, WakesUp
<1>7. CASE StopStep
  <2>1. CASE StopRunning \/ StopListening
    BY <2>1 DEF StopRunning, StopListening, Pool!queueVars
  <2>2. CASE StopJoined
    <3>1. apc = "done" /\ mpc' = "stopped" /\ UNCHANGED <<queue, accepted, serving>>
      BY <2>2 DEF StopJoined
    <3>2. queue = <<>> /\ accepted = NoClient /\ Served = {}
      BY <3>1, WorkersAssumption DEF EndInv
    <3>3. Pool!Close
      BY <3>1, <3>2 DEF Pool!Close
    <3> QED BY <3>3 DEF Pool!QueueNext
  <2> QED BY <1>7, <2>1, <2>2 DEF StopStep
<1>8. ASSUME NEW c \in Clients, Connect(c) PROVE Goal
  BY <1>1, <1>8 DEF Connect
<1>9. CASE UNCHANGED vars
  BY <1>1, <1>9 DEF vars
<1> QED
  BY <1>2, <1>3, <1>4, <1>5, <1>6, <1>7, <1>8, <1>9 DEF Next, AcceptStep, WorkerStep

\* Two kinds of threads, a mutex and a condition variable make one queue, whatever the
\* number of workers: nobody accepted is served twice, out of turn or not at all before
\* stop() returns.
THEOREM PoolIsQueue == Spec => ImplementsClientQueue
<1>1. Init => AcceptorInv /\ NoneSleepsOnWork /\ EndInv /\ OnePlace
  BY ClientsAssumption
  DEF Init, AcceptorInv, NoneSleepsOnWork, EndInv, OnePlace, ToSet, Distinct
<1>2. TypeOK /\ HandInv /\ AcceptorInv /\ NoneSleepsOnWork /\ EndInv /\ OnePlace
        /\ [Next]_vars
      => /\ AcceptorInv' /\ NoneSleepsOnWork' /\ EndInv' /\ OnePlace'
         /\ [Pool!QueueNext]_(Pool!queueVars)
  BY WakeNext, EndNext, OnePlaceNext, PoolStep
<1>3. Init => Pool!QueueInit
  BY DEF Init, Pool!QueueInit
<1> QED
  BY <1>1, <1>2, <1>3, TypeInit, TypeNext, PTL DEF Spec, ImplementsClientQueue, Pool!QueueSpec

=============================================================================
