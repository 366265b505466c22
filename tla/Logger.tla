------------------------------- MODULE Logger -------------------------------
(***************************************************************************)
(* util/logger.h: every thread pushes its lines on a queue; one thread takes *)
(* the queue as a batch, at the latest every second, writes the batch to     *)
(* standard output and to the log file, and moves a file that has become     *)
(* long to .old.                                                             *)
(*                                                                          *)
(* A line is its place in the order of the queue, and stands for what a      *)
(* thread logs in one step.  A part of the daemon: Daemon says when these    *)
(* actions happen.                                                           *)
(***************************************************************************)
EXTENDS Naturals, Sequences

CONSTANTS
  RotateAt,   \* ROTATE_THRESHOLD_BYTES, in lines
  LogFaults   \* what may fail: "open" of the log file, "rename"

ASSUME RotateAssumption == RotateAt \in Nat \ {0}
ASSUME LogFaultsAssumption == LogFaults \subseteq {"open", "rename"}

VARIABLES
  logged,    \* history: how many lines were pushed
  queue,     \* queue_
  batch,     \* the lines taken and not yet written
  printed,   \* what went to standard output
  file,      \* what is in the log file, or in its buffer
  old,       \* what is in .old
  fileOpen,  \* file_.is_open()
  logOn,     \* running_
  fpc,       \* the flush thread: "test", "wait", "write", "rename", "done"
  last       \* it is past its loop

logVars == <<logged, queue, batch, printed, file, old, fileOpen, logOn, fpc, last>>

Lines == Seq(Nat \ {0})

LogTypeOK ==
  /\ logged \in Nat
  /\ queue \in Lines /\ batch \in Lines /\ printed \in Lines
  /\ file \in Lines /\ old \in Lines
  /\ fileOpen \in BOOLEAN /\ logOn \in BOOLEAN /\ last \in BOOLEAN
  /\ fpc \in {"test", "wait", "write", "rename", "done"}

LogInit ==
  /\ logged = 0
  /\ queue = <<>> /\ batch = <<>> /\ printed = <<>> /\ file = <<>> /\ old = <<>>
  /\ fileOpen \in {TRUE, "open" \notin LogFaults}
  /\ logOn = TRUE /\ fpc = "test" /\ last = FALSE

\* log.
Log ==
  /\ logged' = logged + 1
  /\ queue' = Append(queue, logged + 1)
  /\ UNCHANGED <<batch, printed, file, old, fileOpen, logOn, fpc, last>>

\* Mutant of TestRunning: what is queued when the loop ends stays there.
TestRunningOnly ==
  /\ fpc = "test"
  /\ fpc' = IF logOn THEN "wait" ELSE "done"
  /\ UNCHANGED <<logged, queue, batch, printed, file, old, fileOpen, logOn, last>>

\* while (running_).
TestRunning ==
  /\ fpc = "test"
  /\ fpc' = IF last THEN "done" ELSE "wait"
  /\ last' = (last \/ ~logOn)
  /\ UNCHANGED <<logged, queue, batch, printed, file, old, fileOpen, logOn>>

\* Mutant of TakeBatch: the lines stay in the queue.
TakeBatchCopy ==
  /\ fpc = "wait"
  /\ batch' = queue
  /\ fpc' = IF queue = <<>> THEN "test" ELSE "write"
  /\ UNCHANGED <<logged, queue, printed, file, old, fileOpen, logOn, last>>

\* Mutant of TakeBatch: a wait without a timeout.
TakeBatchOnStop ==
  /\ fpc = "wait" /\ ~logOn
  /\ batch' = queue /\ queue' = <<>>
  /\ fpc' = IF queue = <<>> THEN "test" ELSE "write"
  /\ UNCHANGED <<logged, printed, file, old, fileOpen, logOn, last>>

\* The wait ends with 64 lines, with stop() or after a second; past the loop there is none.
TakeBatch ==
  /\ fpc = "wait"
  /\ batch' = queue /\ queue' = <<>>
  /\ fpc' = IF queue = <<>> THEN "test" ELSE "write"
  /\ UNCHANGED <<logged, printed, file, old, fileOpen, logOn, last>>

WriteLine ==
  /\ fpc = "write" /\ batch # <<>>
  /\ batch' = Tail(batch)
  /\ printed' = Append(printed, Head(batch))
  /\ file' = IF fileOpen THEN Append(file, Head(batch)) ELSE file
  /\ UNCHANGED <<logged, queue, old, fileOpen, logOn, fpc, last>>

OpenLogFile == fileOpen' \in {TRUE, "open" \notin LogFaults}

\* rotate_if_needed: the file is closed and .old removed before the rename.
BatchEnds ==
  /\ fpc = "write" /\ batch = <<>>
  /\ IF fileOpen /\ Len(file) >= RotateAt
       THEN /\ old' = <<>> /\ fpc' = "rename" /\ fileOpen' = FALSE
       ELSE /\ fpc' = "test" /\ UNCHANGED old
            /\ IF fileOpen THEN UNCHANGED fileOpen ELSE OpenLogFile
  /\ UNCHANGED <<logged, queue, batch, printed, file, logOn, last>>

\* Mutant of Rotate: a rename that fails is not noticed, and the new file is emptied.
RotateTruncates ==
  /\ fpc = "rename" /\ fpc' = "test"
  /\ old' \in {file} \cup (IF "rename" \in LogFaults THEN {old} ELSE {})
  /\ file' = <<>>
  /\ OpenLogFile
  /\ UNCHANGED <<logged, queue, batch, printed, logOn, last>>

Rotate ==
  /\ fpc = "rename" /\ fpc' = "test"
  /\ \/ old' = file /\ file' = <<>>
     \/ "rename" \in LogFaults /\ UNCHANGED <<old, file>>
  /\ OpenLogFile
  /\ UNCHANGED <<logged, queue, batch, printed, logOn, last>>

FlushStep == TestRunning \/ TakeBatch \/ WriteLine \/ BatchEnds \/ Rotate

\* stop(), up to its join.
StopLogger ==
  /\ logOn' = FALSE
  /\ UNCHANGED <<logged, queue, batch, printed, file, old, fileOpen, fpc, last>>

\* The process is cut off, and what it had in memory with it.
CutOff ==
  /\ queue' = <<>> /\ batch' = <<>> /\ logOn' = FALSE /\ fpc' = "done" /\ last' = TRUE
  /\ UNCHANGED <<logged, printed, file, old, fileOpen>>

(***************************************************************************)
(* Properties                                                               *)
(***************************************************************************)
\* Each line is on one of its three places, once and in the order of the pushes.
InOrder == printed \o batch \o queue = [i \in 1 .. logged |-> i]

\* logger.h:129: whenever the process ends, also between the removal of .old and the
\* rename, .old and the file hold the end of what was printed, and of it at least as
\* much as fills a file.
LastLinesKept ==
  LET kept == old \o file
      n == Len(printed)
  IN  /\ Len(kept) <= n
      /\ \A i \in 1 .. Len(kept) : kept[i] = printed[n - Len(kept) + i]
      /\ n >= RotateAt => Len(kept) >= RotateAt

=============================================================================
