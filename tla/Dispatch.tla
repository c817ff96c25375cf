------------------------------- MODULE Dispatch -------------------------------
(***************************************************************************)
(* How waiting runs reach Celery: services.dispatch_pending, called by the *)
(* endpoints that create runs, by every worker when a run ends and, through *)
(* dispatch_stalled, by every poll of the dashboard.                       *)
(*                                                                         *)
(* DeviceClaims hands a run to Celery in one step, DispatchRun.  Here that *)
(* step is four transactions of one of several callers, and the stamp      *)
(* queued_at is what keeps a run from being handed out twice.  Everything  *)
(* else is DeviceClaims; DispatchSpec is shown to implement its Spec until  *)
(* one of the races below happens.                                         *)
(***************************************************************************)
EXTENDS DeviceClaims

CONSTANTS
  Dispatchers,  \* processes and threads that may call dispatch_pending
  RowId,        \* rowid of each run: the order they were inserted in
  MaxFaults     \* bound: crashes, lost messages, cancels and deletes

(***************************************************************************)
(* Nothing in the code keeps a run from being handed out twice after one   *)
(* of these races, and each of them may happen at any time.                *)
(*   overlap    two callers have picked the same run before either marked  *)
(*              it (Pick)                                                  *)
(*   late       the mark of a run passes the cutoff while a caller or      *)
(*              Celery has the run and no worker has claimed it (AgeQueued)*)
(*   recreated  a run is deleted while it is handed out, and the task that *)
(*              finds no row inserts one without queued_at (Elsewhere)     *)
(***************************************************************************)

ASSUME DispatchAssumption ==
  /\ RowId \in [Runs -> Nat]
  /\ \A r, s \in Runs : RowId[r] = RowId[s] => r = s
  /\ MaxFaults \in Nat

VARIABLES
  queuedAt,  \* queued_at of each run against the redispatch cutoff
  call,      \* where each caller is, the device and run it has read
  faults,    \* how many of what MaxFaults bounds
  raced      \* history: whether one of the three races has happened

allVars == <<row, canceller, tasks, pc, job, queuedAt, call, faults, raced>>

\* A call of dispatch_pending(device), and the run it has chosen.
Call(at, d, r) == [at |-> at, device |-> d, run |-> r]
NoCall == Call("idle", NoJob, NoJob)

\* The row of r says that r may be handed out.
Waits(r) == row[r].status = "pending" /\ ~row[r].cancel

\* device_has_inflight_run.
InFlight(d) ==
  \E r \in Runs : /\ DeviceOf[r] = d
                  /\ \/ row[r].status = "running"
                     \/ Waits(r) /\ queuedAt[r] = "fresh"

\* Mutant: the query forgets status='pending'.
WaitingAnyStatus(d) ==
  {r \in Runs : /\ DeviceOf[r] = d
                /\ row[r].status \notin {"absent", "deleted", "running"}
                /\ ~row[r].cancel /\ queuedAt[r] # "fresh"}

\* Mutant: queued_at IS NULL without the cutoff.
WaitingUnmarked(d) ==
  {r \in Runs : /\ DeviceOf[r] = d
                /\ row[r].status = "pending" /\ ~row[r].cancel
                /\ queuedAt[r] = "none"}

\* The rows next_pending_run chooses from.
Waiting(d) ==
  {r \in Runs : DeviceOf[r] = d /\ Waits(r) /\ queuedAt[r] # "fresh"}

Oldest(rs) == CHOOSE r \in rs : \A s \in rs : RowId[r] <= RowId[s]

DispatchInit ==
  /\ Init
  /\ queuedAt = [r \in Runs |-> "none"]
  /\ call = [c \in Dispatchers |-> NoCall]
  /\ faults = 0
  /\ raced = FALSE

Meets(race) == raced' = (raced \/ race)

-------------------------------------------------------------------------------
(* dispatch_pending. *)

Goes(c, to) == call' = [call EXCEPT ![c] = to]

\* device_has_inflight_run says no.
Check(c, d) ==
  /\ call[c].at = "idle"
  /\ ~InFlight(d)
  /\ Goes(c, Call("checked", d, NoJob))
  /\ UNCHANGED <<vars, queuedAt, faults, raced>>

PickedBefore(r) == \E e \in Dispatchers : call[e].at = "picked" /\ call[e].run = r

\* next_pending_run.
PickNothing(c) ==
  /\ call[c].at = "checked"
  /\ Waiting(call[c].device) = {}
  /\ Goes(c, NoCall)
  /\ UNCHANGED <<vars, queuedAt, faults, raced>>

Pick(c) ==
  /\ call[c].at = "checked"
  /\ LET d == call[c].device IN
       /\ Waiting(d) # {}
       /\ Goes(c, Call("picked", d, Oldest(Waiting(d))))
       /\ Meets(PickedBefore(Oldest(Waiting(d))))
  /\ UNCHANGED <<vars, queuedAt, faults>>

\* Mutant: the run is queued without a mark.
MarkNothing(c) ==
  /\ call[c].at = "picked"
  /\ Goes(c, [call[c] EXCEPT !.at = "marked"])
  /\ UNCHANGED <<vars, queuedAt, faults, raced>>

\* mark_run_queued.
Mark(c) ==
  /\ call[c].at = "picked"
  /\ LET r == call[c].run IN
       /\ queuedAt' = [queuedAt EXCEPT ![r] = IF Exists(r) THEN "fresh" ELSE @]
       /\ Goes(c, [call[c] EXCEPT !.at = "marked"])
  /\ UNCHANGED <<vars, faults, raced>>

\* run_test_task.apply_async, whatever became of the row.
Send(c) ==
  /\ call[c].at = "marked"
  /\ tasks[call[c].run] < MaxTasks
  /\ tasks' = [tasks EXCEPT ![call[c].run] = @ + 1]
  /\ Goes(c, NoCall)
  /\ UNCHANGED <<row, canceller, pc, job, queuedAt, faults, raced>>

HandedOut(r) == Outstanding(r) \/ \E c \in Dispatchers : call[c].run = r

\* The cutoff passes queued_at: by the clock alone, whoever has the run.
AgeQueued(r) ==
  /\ queuedAt[r] = "fresh"
  /\ queuedAt' = [queuedAt EXCEPT ![r] = "stale"]
  /\ Meets(HandedOut(r) /\ Waits(r))
  /\ UNCHANGED <<vars, call, faults>>

-------------------------------------------------------------------------------
(* Faults. *)

Fault == faults < MaxFaults /\ faults' = faults + 1

\* The broker is purged or unreachable, or a caller dies in between: marked
\* and not sent.
CallFails(c) ==
  /\ call[c].at # "idle"
  /\ Goes(c, NoCall)
  /\ Fault
  /\ UNCHANGED <<vars, queuedAt, raced>>

MessageLost(j) ==
  /\ LoseMessage(j)
  /\ Fault
  /\ UNCHANGED <<queuedAt, call, raced>>

WorkerDies(w) ==
  /\ Crash(w)
  /\ Fault
  /\ UNCHANGED <<queuedAt, call, raced>>

-------------------------------------------------------------------------------

\* queued_at lives and dies with its row.
KeepQueuedAt ==
  queuedAt' = [r \in Runs |-> IF Exists(r)' THEN queuedAt[r] ELSE "none"]

\* Rows are inserted in the order of their ids.
InRowOrder ==
  \A r, s \in Runs :
    row[r].status = "absent" /\ row'[r].status # "absent" /\ RowId[s] < RowId[r]
      => row[s].status # "absent"

\* A task has found no row and inserts one.
Recreates == \E r \in Runs : row[r].status = "deleted" /\ Exists(r)'

\* A request to cancel or delete has begun.
Withdraws ==
  \/ \E r \in Runs : \/ Exists(r) /\ (row'[r].status = "deleted")
                     \/ canceller[r] = "idle" /\ (canceller'[r] # "idle")
  \/ \E p \in Preflights : ~row[p].cancel /\ row'[p].cancel

\* What a step outside dispatch_pending does to the marks.
Around ==
  /\ InRowOrder
  /\ KeepQueuedAt
  /\ Meets(Recreates)
  /\ IF Withdraws THEN Fault ELSE UNCHANGED faults
  /\ UNCHANGED call

\* What happens to the rows outside dispatch_pending.
Elsewhere ==
  /\ \/ \E j \in Jobs : Age(j) \/ Endpoint(j)
     \/ Poll
     \/ \E w \in Actors : Start(w) \/ Prepare(w) \/ Drive(w)
  /\ Around

DispatchStep(c) ==
  \/ \E d \in Devices : Check(c, d)
  \/ PickNothing(c) \/ Pick(c) \/ Mark(c) \/ Send(c)

DispatchNext ==
  \/ Elsewhere
  \/ \E c \in Dispatchers : DispatchStep(c) \/ CallFails(c)
  \/ \E r \in Runs : AgeQueued(r)
  \/ \E j \in Jobs : MessageLost(j)
  \/ \E w \in Actors : WorkerDies(w)

DispatchSpec == DispatchInit /\ [][DispatchNext]_allVars

\* Somebody looks at the dashboard, so it polls; Celery's queue is a FIFO, so
\* no message waits for ever behind others; a run ends at its duration; a
\* cancel request that began is carried through.
DispatchFairness ==
  /\ \A c \in Dispatchers : WF_allVars(DispatchStep(c))
  /\ \A r \in Runs : /\ WF_allVars(AgeQueued(r))
                     /\ WF_allVars((CancelFlag(r) \/ CancelInterrupt(r)) /\ Around)
  /\ \A j \in Jobs : /\ WF_allVars(Age(j) /\ Around)
                     /\ SF_allVars((\E w \in Workers : TakeTask(w, j)) /\ Around)
  /\ WF_allVars(PollReleaseRuns /\ Around)
  /\ WF_allVars(PollReleasePreflights /\ Around)
  /\ \A w \in Workers : /\ WF_allVars(Prepare(w) /\ Around)
                        /\ WF_allVars((NoticeCancel(w) \/ LeaveLoop(w)) /\ Around)
                        /\ WF_allVars(Finish(w) /\ Around)

FairDispatchSpec == DispatchSpec /\ DispatchFairness

-------------------------------------------------------------------------------
(* Properties. *)

DispatchTypeOK ==
  /\ TypeOK
  /\ queuedAt \in [Runs -> Stamp]
  /\ call \in [Dispatchers -> [at : {"idle", "checked", "picked", "marked"},
                               device : Devices \cup {NoJob},
                               run : Runs \cup {NoJob}]]
  /\ \A c \in Dispatchers : call[c].at \in {"picked", "marked"} => call[c].run \in Runs
  /\ faults \in 0..MaxFaults
  /\ raced \in BOOLEAN

\* A run is with Celery once, one message or one worker, while none of the
\* three races has happened: however many callers interleave, crash or lose
\* their message, nothing else hands a run out twice (get_running_runs_only
\* says of all its callers that it is "safe to call this often").
HandedOutOnce ==
  ~raced =>
    \A r \in Runs :
      /\ tasks[r] > 0 => tasks[r] = 1 /\ ~Working(r)
      /\ \A w, v \in Actors : job[w] = r /\ job[v] = r => w = v

\* Until a race happens, dispatching in steps looks like DeviceClaims without
\* duplicates: nobody is given a run that somebody else has.
ImplementsDeviceClaims == Init /\ [][~raced' => Next]_vars

\* Whatever message is lost and whoever dies, a waiting run is started or
\* cancelled in the end (dispatch_stalled: "the system repairs itself").
EveryRunGetsItsTurn ==
  \A r \in Runs :
    row[r].status = "pending" /\ ~row[r].cancel
      ~> row[r].status # "pending" \/ row[r].cancel
=============================================================================
