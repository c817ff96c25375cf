------------------------------ MODULE BatchWriter ------------------------------
(***************************************************************************)
(* storage.BatchWriter and the run that uses it.  The run's thread puts    *)
(* samples and events into a bounded queue; a second thread takes them out *)
(* and commits them in batches.  A put or a close gives up after           *)
(* put_timeout when the queue stays full; the writer dies of the first     *)
(* exception, and the run learns of it at its next put or close.  The run  *)
(* puts a collector's samples in a handler that turns every exception into *)
(* a collector_error event: a full queue costs it the collector's samples, *)
(* not the run.                                                            *)
(***************************************************************************)
EXTENDS Naturals, Sequences, FiniteSets

CONSTANTS
  Items,      \* samples and events
  Report,     \* the collector_error event
  QueueSize,  \* queue.Queue(maxsize=queue_size)
  BatchSize,  \* batch_size
  MaxItems    \* bound: the puts of one run, reports aside

ASSUME WriterAssumption ==
  /\ Report \in Items
  /\ QueueSize \in Nat \ {0} /\ BatchSize \in Nat \ {0} /\ MaxItems \in Nat

VARIABLES
  given,     \* every item whose put returned
  dropped,   \* how many collectors' samples the run gave up on
  queue,     \* items in the queue
  stops,     \* Nones in the queue; they are behind the items, see Close
  pending,   \* the writer's batch
  stored,    \* committed items
  stopping,  \* the writer has taken a None
  error,     \* the writer died of an exception
  writer,    \* where the writer is
  main,      \* where the run's thread is
  failing    \* the run has caught an exception

vars == <<given, dropped, queue, stops, pending, stored, stopping, error, writer, main, failing>>
writerVars == <<pending, stored, stopping, error, writer>>
mainVars == <<given, dropped, main, failing>>

Init ==
  /\ given = <<>> /\ dropped = 0 /\ queue = <<>> /\ stops = 0
  /\ pending = <<>> /\ stored = <<>>
  /\ stopping = FALSE /\ error = FALSE
  /\ writer = "start" /\ main = "loop" /\ failing = FALSE

Full == Len(queue) + stops >= QueueSize
Empty == queue = <<>> /\ stops = 0

-------------------------------------------------------------------------------
(* The run: TestRunner.run from writer.start on. *)

\* What escapes the loop or its cleanup leads to the second close.
Raise == main' = "closing" /\ failing' = TRUE /\ UNCHANGED dropped

\* What a put of kind k that raises leads to.  The handler around a collector's
\* samples reports with a put of its own; no other put is guarded.
PutRaises(k) ==
  IF k = "sample"
  THEN main' = "caught" /\ dropped' = dropped + 1 /\ UNCHANGED failing
  ELSE Raise

\* put: first the writer's error ...
PutCheck(k) ==
  /\ main = "loop" /\ Len(given) + dropped < MaxItems
  /\ IF error THEN PutRaises(k) ELSE main' = k /\ UNCHANGED <<dropped, failing>>
  /\ UNCHANGED <<given, queue, stops, writerVars>>

ReportCheck ==
  /\ main = "caught"
  /\ IF error THEN Raise ELSE main' = "report" /\ UNCHANGED <<dropped, failing>>
  /\ UNCHANGED <<given, queue, stops, writerVars>>

\* ... then the queue, which the writer may have died on by now.
Enqueue(i) ==
  /\ IF main = "report" THEN i = Report ELSE main \in {"sample", "event"} /\ i # Report
  /\ ~Full
  /\ queue' = Append(queue, i)
  /\ given' = Append(given, i)
  /\ main' = "loop"
  /\ UNCHANGED <<dropped, stops, failing, writerVars>>

PutFull ==
  /\ main \in {"sample", "event", "report"} /\ Full
  /\ PutRaises(main)
  /\ UNCHANGED <<given, queue, stops, writerVars>>

OtherException ==
  /\ main = "loop"
  /\ Raise
  /\ UNCHANGED <<given, queue, stops, writerVars>>

\* The run is over: close.
Close ==
  /\ main = "loop"
  /\ main' = "closing"
  /\ UNCHANGED <<given, dropped, queue, stops, failing, writerVars>>

\* close, called once by a run that goes well and again by one that does not.
SendStop ==
  /\ main = "closing" /\ ~Full
  /\ stops' = stops + 1
  /\ main' = "joining"
  /\ UNCHANGED <<given, dropped, queue, failing, writerVars>>

\* An exception out of close: the except branch closes once more, then the run
\* is FAILED whatever that does.
CloseRaises ==
  /\ main' = IF failing THEN "over" ELSE "closing"
  /\ failing' = TRUE
  /\ UNCHANGED dropped

StopFull ==
  /\ main = "closing" /\ Full
  /\ CloseRaises
  /\ UNCHANGED <<given, queue, stops, writerVars>>

Join ==
  /\ main = "joining" /\ writer = "done"
  /\ IF error
     THEN CloseRaises
     ELSE /\ main' = IF failing THEN "over" ELSE "closed"
          /\ UNCHANGED <<dropped, failing>>
  /\ UNCHANGED <<given, queue, stops, writerVars>>

\* update_run writes completed or interrupted, or raises.
Record ==
  /\ main = "closed"
  /\ \/ main' = "over" /\ UNCHANGED <<dropped, failing>>
     \/ Raise
  /\ UNCHANGED <<given, queue, stops, writerVars>>

-------------------------------------------------------------------------------
(* The writer: BatchWriter._run. *)

Connect ==
  /\ writer = "start"
  /\ writer' = "get"
  /\ UNCHANGED <<queue, stops, pending, stored, stopping, error, mainVars>>

\* Mutant: a LIFO queue.
TakeLast ==
  /\ writer = "get" /\ queue # <<>>
  /\ pending' = Append(pending, queue[Len(queue)])
  /\ queue' = SubSeq(queue, 1, Len(queue) - 1)
  /\ writer' = "check"
  /\ UNCHANGED <<stops, stored, stopping, error, mainVars>>

TakeItem ==
  /\ writer = "get" /\ queue # <<>>
  /\ pending' = Append(pending, Head(queue))
  /\ queue' = Tail(queue)
  /\ writer' = "check"
  /\ UNCHANGED <<stops, stored, stopping, error, mainVars>>

TakeStop ==
  /\ writer = "get" /\ queue = <<>> /\ stops > 0
  /\ stops' = stops - 1
  /\ stopping' = TRUE
  /\ writer' = "check"
  /\ UNCHANGED <<queue, pending, stored, error, mainVars>>

\* queue.Empty after flush_seconds.
TakeNothing ==
  /\ writer = "get" /\ Empty
  /\ writer' = "check"
  /\ UNCHANGED <<queue, stops, pending, stored, stopping, error, mainVars>>

\* Mutant: only a full batch or the end is committed.
FlushFull == pending # <<>> /\ (stopping \/ Len(pending) >= BatchSize)

FlushDue ==
  /\ pending # <<>>
  /\ stopping \/ Len(pending) >= BatchSize \/ Empty

NextRound == writer' = IF stopping THEN "done" ELSE "get"

Commit ==
  /\ writer = "check" /\ FlushDue
  /\ stored' = stored \o pending
  /\ pending' = <<>>
  /\ NextRound
  /\ UNCHANGED <<queue, stops, stopping, error, mainVars>>

Wait ==
  /\ writer = "check" /\ ~FlushDue
  /\ NextRound
  /\ UNCHANGED <<queue, stops, pending, stored, stopping, error, mainVars>>

\* connect, execute, json.dumps or commit raises: the open transaction is
\* rolled back with the connection.
Die ==
  /\ writer = "start" \/ (writer = "check" /\ FlushDue)
  /\ error' = TRUE
  /\ writer' = "done"
  /\ UNCHANGED <<queue, stops, pending, stored, stopping, mainVars>>

-------------------------------------------------------------------------------

Writer == Connect \/ TakeItem \/ TakeStop \/ TakeNothing \/ Commit \/ Wait \/ Die

Put ==
  \/ \E k \in {"sample", "event"} : PutCheck(k)
  \/ ReportCheck
  \/ \E i \in Items : Enqueue(i)
  \/ PutFull

EndRun == SendStop \/ StopFull \/ Join \/ Record

\* Both threads have ended.
Ended == main = "over" /\ writer = "done" /\ UNCHANGED vars

Next == Put \/ OtherException \/ Close \/ EndRun \/ Writer \/ Ended

Spec == Init /\ [][Next]_vars

\* Both threads keep running; a get or a put that waits ends at its timeout.
\* The run need never put anything again, nor end.
Fairness == WF_vars(Writer) /\ WF_vars(EndRun)

FairSpec == Spec /\ Fairness

-------------------------------------------------------------------------------
(* Properties. *)

\* The shape of the queue and of both threads.
TypeOK ==
  /\ given \in Seq(Items) /\ queue \in Seq(Items)
  /\ pending \in Seq(Items) /\ stored \in Seq(Items)
  /\ dropped \in Nat /\ stops \in Nat /\ Len(queue) + stops <= QueueSize
  /\ stopping \in BOOLEAN /\ error \in BOOLEAN /\ failing \in BOOLEAN
  /\ writer \in {"start", "get", "check", "done"}
  /\ main \in {"loop", "sample", "event", "caught", "report", "closing", "joining", "closed", "over"}

\* Until the writer dies nothing is lost, doubled or reordered on its way from
\* put to commit; and it does not end with work left behind.
Conserved ==
  /\ ~error => given = stored \o pending \o queue
  /\ writer = "done" /\ ~error => pending = <<>> /\ queue = <<>> /\ stopping

Reports(s) == Cardinality({n \in DOMAIN s : s[n] = Report})

\* A run is completed or interrupted only when all it put is stored, and for
\* every collector whose samples a full queue cost it there is an event that
\* says so: TestRunner.run writes that status after close has returned.
NoSilentLoss ==
  main = "over" /\ ~failing => stored = given /\ Reports(stored) = dropped

\* What the run was told, in the words of SampleLog.
Verdict == IF failing THEN "failed" ELSE IF main = "over" THEN "closed" ELSE "open"

Log == INSTANCE SampleLog WITH verdict <- Verdict

\* The two threads implement the log they promise.
ImplementsLog == Log!LogSpec

\* An item put is committed, by the next lull, full batch or close, or the
\* writer is dead.  A producer that never pauses cannot starve the commits.
StoredInTheEnd ==
  \A n \in 1..MaxItems : Len(given) >= n ~> Len(stored) >= n \/ error

=============================================================================
