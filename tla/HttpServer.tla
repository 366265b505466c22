----------------------------- MODULE HttpServer -----------------------------
(***************************************************************************)
(* api/http_server.h between the listening socket and the end of a request: *)
(* the accept thread fills client_queue_, four workers empty it, and main   *)
(* stops them.  What a request does is in ConfigFiles; here it is read,     *)
(* answered and closed.  Sections under queue_mutex_ are single steps; a    *)
(* worker that waits on queue_cv_ sleeps until it is notified.              *)
(***************************************************************************)
EXTENDS Integers, Sequences, FiniteSets, SequencesExt

CONSTANTS
  Workers,  \* WORKER_COUNT threads
  Clients,  \* BOUND: connections at one time; a client may come again
  Stalled,  \* clients that do not read their answer
  NoClient

ASSUME ClientsAssumption == NoClient \notin Clients /\ Stalled \subseteq Clients
ASSUME WorkersAssumption == IsFiniteSet(Workers) /\ Workers # {}

VARIABLES
  running,       \* running_
  listening,     \* server_fd_ is not shut down
  backlog,       \* connections the kernel holds for accept()
  queue,         \* client_queue_
  shutting,      \* shutting_down_
  apc,           \* the accept thread: "test", "accept", "push", "notify", "flag",
                 \* "notify_all", "join", "done"
  accepted,      \* its client
  wpc,           \* a worker: "check", "asleep", "read", "send", "ended"
  serving,       \* its fd
  mpc            \* main: "run", "shut", "join", "stopped"

acceptor == <<apc, accepted>>
pool == <<wpc, serving>>
vars == <<running, listening, backlog, queue, shutting, acceptor, pool, mpc>>

Connected == ToSet(backlog) \cup ToSet(queue)
             \cup {accepted} \cup {serving[w] : w \in Workers}

TypeOK ==
  /\ running \in BOOLEAN /\ listening \in BOOLEAN /\ shutting \in BOOLEAN
  /\ backlog \in Seq(Clients) /\ queue \in Seq(Clients)
  /\ apc \in {"test", "accept", "push", "notify", "flag", "notify_all", "join", "done"}
  /\ accepted \in Clients \cup {NoClient}
  /\ wpc \in [Workers -> {"check", "asleep", "read", "send", "ended"}]
  /\ serving \in [Workers -> Clients \cup {NoClient}]
  /\ mpc \in {"run", "shut", "join", "stopped"}

Init ==
  /\ running = TRUE /\ listening = TRUE /\ shutting = FALSE
  /\ backlog = <<>> /\ queue = <<>>
  /\ apc = "test" /\ accepted = NoClient
  /\ wpc = [w \in Workers |-> "check"]
  /\ serving = [w \in Workers |-> NoClient]
  /\ mpc = "run"

\* The workers that will look at the queue next.
Coming == {w \in Workers : wpc[w] = "check"}

\* queue_cv_.notify_one and notify_all: a worker that is not asleep hears nothing.
NotifyOne ==
  \/ \E w \in Workers : wpc[w] = "asleep" /\ wpc' = [wpc EXCEPT ![w] = "check"]
  \/ (\A w \in Workers : wpc[w] # "asleep") /\ UNCHANGED wpc

NotifyAll == wpc' = [w \in Workers |-> IF wpc[w] = "asleep" THEN "check" ELSE wpc[w]]

(***************************************************************************)
(* The accept thread                                                        *)
(***************************************************************************)
Connect(c) ==
  /\ listening /\ c \notin Connected
  /\ backlog' = Append(backlog, c)
  /\ UNCHANGED <<running, listening, queue, shutting, acceptor, pool, mpc>>

AcceptTest ==
  /\ apc = "test"
  /\ apc' = IF running THEN "accept" ELSE "flag"
  /\ UNCHANGED <<running, listening, backlog, queue, shutting, accepted, pool, mpc>>

\* accept(): the first connection, or -1 once the socket is shut down.
Accept ==
  /\ apc = "accept"
  /\ \/ /\ listening /\ backlog # <<>>
        /\ accepted' = Head(backlog) /\ backlog' = Tail(backlog)
        /\ apc' = "push"
     \/ /\ ~listening
        /\ apc' = "test"
        /\ UNCHANGED <<accepted, backlog>>
  /\ UNCHANGED <<running, listening, queue, shutting, pool, mpc>>

\* Mutant of Push: the workers are told of the first client in the queue only.
PushSparing ==
  /\ apc = "push"
  /\ queue' = Append(queue, accepted)
  /\ accepted' = NoClient
  /\ apc' = IF queue = <<>> THEN "notify" ELSE "test"
  /\ UNCHANGED <<running, listening, backlog, shutting, pool, mpc>>

\* push_client: the queue under the mutex, the notification after it.
Push ==
  /\ apc = "push"
  /\ queue' = Append(queue, accepted)
  /\ accepted' = NoClient
  /\ apc' = "notify"
  /\ UNCHANGED <<running, listening, backlog, shutting, pool, mpc>>

\* Mutant of PushNotify: no notification.
PushSilent ==
  /\ apc = "notify"
  /\ apc' = "test"
  /\ UNCHANGED <<running, listening, backlog, queue, shutting, accepted, pool, mpc>>

PushNotify ==
  /\ apc = "notify"
  /\ NotifyOne
  /\ apc' = "test"
  /\ UNCHANGED <<running, listening, backlog, queue, shutting, accepted, serving, mpc>>

\* The loop has ended: shutting_down_, notify_all, join.
Flag ==
  /\ apc = "flag"
  /\ shutting' = TRUE
  /\ apc' = "notify_all"
  /\ UNCHANGED <<running, listening, backlog, queue, accepted, pool, mpc>>

\* Mutant of FlagNotify: wakes one worker.
FlagNotifyOne ==
  /\ apc = "notify_all"
  /\ NotifyOne
  /\ apc' = "join"
  /\ UNCHANGED <<running, listening, backlog, queue, shutting, accepted, serving, mpc>>

FlagNotify ==
  /\ apc = "notify_all"
  /\ NotifyAll
  /\ apc' = "join"
  /\ UNCHANGED <<running, listening, backlog, queue, shutting, accepted, serving, mpc>>

JoinWorkers ==
  /\ apc = "join" /\ \A w \in Workers : wpc[w] = "ended"
  /\ apc' = "done"
  /\ UNCHANGED <<running, listening, backlog, queue, shutting, accepted, pool, mpc>>

(***************************************************************************)
(* A worker                                                                 *)
(***************************************************************************)
\* Mutant of Check: takes the client that came last.
CheckLast(w) ==
  /\ wpc[w] = "check"
  /\ \/ /\ queue = <<>>
        /\ wpc' = [wpc EXCEPT ![w] = IF shutting THEN "ended" ELSE "asleep"]
        /\ UNCHANGED <<queue, serving>>
     \/ /\ queue # <<>>
        /\ wpc' = [wpc EXCEPT ![w] = "read"]
        /\ serving' = [serving EXCEPT ![w] = Last(queue)]
        /\ queue' = Front(queue)
  /\ UNCHANGED <<running, listening, backlog, shutting, acceptor, mpc>>

\* worker_loop under the mutex: sleep, end, or take the first client.
Check(w) ==
  /\ wpc[w] = "check"
  /\ \/ /\ queue = <<>> /\ ~shutting
        /\ wpc' = [wpc EXCEPT ![w] = "asleep"]
        /\ UNCHANGED <<queue, serving>>
     \/ /\ queue = <<>> /\ shutting
        /\ wpc' = [wpc EXCEPT ![w] = "ended"]
        /\ UNCHANGED <<queue, serving>>
     \/ /\ queue # <<>>
        /\ wpc' = [wpc EXCEPT ![w] = "read"]
        /\ serving' = [serving EXCEPT ![w] = Head(queue)]
        /\ queue' = Tail(queue)
  /\ UNCHANGED <<running, listening, backlog, shutting, acceptor, mpc>>

\* A wait on a condition variable may end for no reason.
WakesUp(w) ==
  /\ wpc[w] = "asleep"
  /\ wpc' = [wpc EXCEPT ![w] = "check"]
  /\ UNCHANGED <<running, listening, backlog, queue, shutting, acceptor, serving, mpc>>

\* The connection is closed and the worker goes back to the queue.
CloseClient(w) ==
  /\ serving' = [serving EXCEPT ![w] = NoClient]
  /\ wpc' = [wpc EXCEPT ![w] = "check"]

\* The two receive loops, which end: each recv gives a byte within RECV_TIMEOUT_SEC
\* or is the last, and MAX_REQUEST_BYTES is enough.  The request is handled, or
\* closed unanswered.
Read(w) ==
  /\ wpc[w] = "read"
  /\ \/ CloseClient(w)
     \/ wpc' = [wpc EXCEPT ![w] = "send"] /\ UNCHANGED serving
  /\ UNCHANGED <<running, listening, backlog, queue, shutting, acceptor, mpc>>

\* send_all and close.
Send(w) ==
  /\ wpc[w] = "send" /\ serving[w] \notin Stalled
  /\ CloseClient(w)
  /\ UNCHANGED <<running, listening, backlog, queue, shutting, acceptor, mpc>>

(***************************************************************************)
(* stop                                                                     *)
(***************************************************************************)
StopRunning ==
  /\ mpc = "run"
  /\ running' = FALSE
  /\ mpc' = "shut"
  /\ UNCHANGED <<listening, backlog, queue, shutting, acceptor, pool>>

\* shutdown() refuses what is still in the backlog.
StopListening ==
  /\ mpc = "shut"
  /\ listening' = FALSE /\ backlog' = <<>>
  /\ mpc' = "join"
  /\ UNCHANGED <<running, queue, shutting, acceptor, pool>>

StopJoined ==
  /\ mpc = "join" /\ apc = "done"
  /\ mpc' = "stopped"
  /\ UNCHANGED <<running, listening, backlog, queue, shutting, acceptor, pool>>

AcceptStep ==
  AcceptTest \/ Accept \/ Push \/ PushNotify \/ Flag \/ FlagNotify \/ JoinWorkers

WorkerStep(w) == Check(w) \/ Read(w) \/ Send(w)

StopStep == StopRunning \/ StopListening \/ StopJoined

Next ==
  \/ AcceptStep \/ StopStep
  \/ \E w \in Workers : WorkerStep(w) \/ WakesUp(w)
  \/ \E c \in Clients : Connect(c)

Spec == Init /\ [][Next]_vars

\* Every thread keeps running; nobody has to connect, and main need not stop.
Fairness ==
  /\ WF_vars(AcceptStep)
  /\ WF_vars(StopListening) /\ WF_vars(StopJoined)
  /\ \A w \in Workers : WF_vars(WorkerStep(w))

FairSpec == Spec /\ Fairness

(***************************************************************************)
(* Properties                                                               *)
(***************************************************************************)
\* No client waits for a worker that sleeps: with one asleep, a worker is up and on
\* its way for every client in the queue but the one about to be notified of, and
\* none sleeps through the end.
NoneSleepsOnWork ==
  (\E w \in Workers : wpc[w] = "asleep") =>
    /\ Len(queue) <= Cardinality(Coming) + (IF apc = "notify" THEN 1 ELSE 0)
    /\ shutting => apc = "notify_all"

\* stop() leaves no client behind: what was accepted has been closed when it returns.
NoneLeftBehind ==
  mpc = "stopped" => queue = <<>> /\ accepted = NoClient
                     /\ \A w \in Workers : serving[w] = NoClient

\* Workers and accept thread together are a queue: whoever is accepted is taken in that
\* order, by one worker and once, its fd closed before it can come again, and stop()
\* returns with nobody left and takes nobody after that.
Pool == INSTANCE ClientQueue WITH
  waiting <- IF accepted = NoClient THEN queue ELSE Append(queue, accepted),
  inService <- {serving[w] : w \in Workers} \ {NoClient},
  closed <- mpc = "stopped"

ImplementsClientQueue == Pool!QueueSpec

\* http_server.h:331-337: a client in the queue is served however many slow ones
\* came before it and keep coming, and stop() ends.
QueuedIsServed == \A c \in Clients : c \in ToSet(queue) ~> c \notin Connected
StopEnds == mpc = "shut" ~> mpc = "stopped"

\* http_server.h:381: no connection keeps a worker for ever.
WorkerComesBack == \A w \in Workers : wpc[w] \in {"read", "send"} ~> wpc[w] = "check"

=============================================================================
