----------------------------- MODULE ClientQueue -----------------------------
(***************************************************************************)
(* What api/http_server.h promises of the connections it accepted, without  *)
(* the accept thread, the mutex, the condition variable and the order of     *)
(* shutting down: they are served first come, first served, each by one      *)
(* worker, and when stop() has returned none is left and none comes.         *)
(* HttpServer refines this.                                                  *)
(***************************************************************************)
EXTENDS Sequences, SequencesExt

CONSTANT Clients

VARIABLES
  waiting,     \* accepted, in this order, and in no worker's hands yet
  inService,   \* in a worker's hands
  closed       \* stop() has returned

queueVars == <<waiting, inService, closed>>

QueueInit == waiting = <<>> /\ inService = {} /\ closed = FALSE

\* A connection is one at a time: its fd is in the queue or in a worker's hands, not both.
Arrive(c) ==
  /\ ~closed /\ c \notin ToSet(waiting) \cup inService
  /\ waiting' = Append(waiting, c)
  /\ UNCHANGED <<inService, closed>>

Serve ==
  /\ waiting # <<>>
  /\ inService' = inService \cup {Head(waiting)}
  /\ waiting' = Tail(waiting)
  /\ UNCHANGED closed

Finish(c) ==
  /\ c \in inService
  /\ inService' = inService \ {c}
  /\ UNCHANGED <<waiting, closed>>

Close ==
  /\ waiting = <<>> /\ inService = {}
  /\ closed' = TRUE
  /\ UNCHANGED <<waiting, inService>>

QueueNext == Serve \/ Close \/ \E c \in Clients : Arrive(c) \/ Finish(c)

QueueSpec == QueueInit /\ [][QueueNext]_queueVars

=============================================================================
