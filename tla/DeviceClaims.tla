----------------------------- MODULE DeviceClaims -----------------------------
(***************************************************************************)
(* Who may drive a phone.                                                  *)
(*                                                                         *)
(* The rows of test_runs and preflight_reports are the only lock AutoPerf  *)
(* has on a device: a run or a preflight drives the phone after one        *)
(* guarded UPDATE turned its row to `running' (Storage.try_start_run,      *)
(* try_start_preflight), and gives it up by writing a final status.        *)
(* Celery workers, terminals, the dashboard's cancel and delete endpoints, *)
(* and the pollers that release rows of dead workers all write these rows. *)
(* One action is one SQLite transaction, or one step of a process between  *)
(* two of them.                                                            *)
(***************************************************************************)
EXTENDS Naturals, FiniteSets

CONSTANTS
  Runs,        \* ids of test_runs rows
  Preflights,  \* ids of preflight_reports rows
  Devices,
  DeviceOf,    \* device_serial of each id
  Workers,     \* Celery worker processes
  Shells,      \* terminals running `autoperf run' or `autoperf preflight'
  MaxTasks,    \* bound: Celery messages waiting for one id
  Hazards      \* what the deployment does not rule out, see HazardKinds

Jobs == Runs \cup Preflights
Actors == Workers \cup Shells

(***************************************************************************)
(* The code excludes two drivers of one device only in a deployment where  *)
(* these do not happen.  Hazards names the ones that may.                  *)
(*   silence        a live run lets ABANDONED_RUN_SECONDS pass unreported  *)
(*   slowPreflight  a live preflight outlasts ABANDONED_PREFLIGHT_SECONDS  *)
(*   resume         `run --resume' on a row that already ended             *)
(*   duplicates     an id is handed out while a process already has it     *)
(*   cancelRace     a claim or a delete falls between the transactions     *)
(*                  of a cancel_run that read the row as pending           *)
(*   deleteRunning  a row is deleted while it says `running': by           *)
(*                  delete_campaign, or by a DELETE that read it earlier   *)
(*   failDrain      a run fails while a call on the phone is in flight     *)
(*   cliPreflight   `autoperf preflight' is used on this device            *)
(***************************************************************************)
HazardKinds == {"silence", "slowPreflight", "resume", "duplicates",
                "cancelRace", "deleteRunning", "failDrain", "cliPreflight"}

May(h) == h \in Hazards

ASSUME ClaimsAssumption ==
  /\ Runs \cap Preflights = {}
  /\ Workers \cap Shells = {}
  /\ DeviceOf \in [Jobs -> Devices]
  /\ MaxTasks \in Nat \ {0}
  /\ Hazards \subseteq HazardKinds

VARIABLES
  row,        \* the row of each id
  canceller,  \* where a cancel_run request on each run stands
  tasks,      \* Celery messages waiting for each id, retries included
  pc,         \* what each process does next
  job         \* the id each process works on, NoJob when it has none

vars == <<row, canceller, tasks, pc, job>>

CONSTANT NoJob
ASSUME NoJobAssumption == NoJob \notin Jobs

-------------------------------------------------------------------------------
(* The tables. *)

Terminal == {"completed", "failed", "interrupted"}

\* "absent": never inserted; "deleted": inserted once and gone.
Status == {"absent", "deleted", "pending", "running"} \cup Terminal

\* COALESCE(heartbeat_at, started_at) of a run, started_at of a preflight,
\* against the cutoff of the release that would look at it.
Stamp == {"none", "fresh", "stale"}

Row == [status : Status, cancel : BOOLEAN, stamp : Stamp]

Exists(j) == row[j].status \notin {"absent", "deleted"}

\* Mutant: a run looks only at test_runs, a preflight only at its own table.
OtherRunningSameTable(j) ==
  \E k \in Jobs \ {j} : /\ j \in Runs <=> k \in Runs
                       /\ DeviceOf[k] = DeviceOf[j] /\ row[k].status = "running"

OtherRunning(j) ==
  \E k \in Jobs \ {j} : DeviceOf[k] = DeviceOf[j] /\ row[k].status = "running"

\* This id may still be handed out: it waits, it is gone, or it was cancelled
\* and its task will see that.
Unstarted(j) ==
  /\ row[j].status \in {"absent", "deleted", "pending", "interrupted"}
  /\ row[j].status = "interrupted" => j \in Runs /\ row[j].cancel

\* The WHERE of the two claims: a preflight must also be pending itself.
Claimable(j) ==
  /\ Exists(j)
  /\ j \in Preflights => row[j].status = "pending"
  /\ ~OtherRunning(j)

Created == [status |-> "pending", cancel |-> FALSE, stamp |-> "none"]

\* Mutant: the claim writes no started_at.
StartedUnstamped(r) == [status |-> "running", cancel |-> r.cancel, stamp |-> r.stamp]

\* started_at = COALESCE(started_at, now); heartbeat_at is left as it is.
Started(r) ==
  [status |-> "running", cancel |-> r.cancel,
   stamp |-> IF r.stamp = "none" THEN "fresh" ELSE r.stamp]

Gone == [status |-> "deleted", cancel |-> FALSE, stamp |-> "none"]

\* Storage.update_run stamps heartbeat_at whatever the status.
Updated(r, status) ==
  [status |-> status, cancel |-> r.cancel, stamp |-> "fresh"]

Put(j, r) == row' = [row EXCEPT ![j] = r]

\* An UPDATE whose id has no row changes nothing.
PutExisting(j, r) == IF Exists(j) THEN Put(j, r) ELSE UNCHANGED row

\* Both final writes are unconditional: they do not ask what the row says now.
UpdateRun(j, status) == PutExisting(j, Updated(row[j], status))
FinishPreflight(j, status) == PutExisting(j, [row[j] EXCEPT !.status = status])

\* Mutant: every running row is abandoned, however recent its heartbeat.
AbandonedWhenRunning(j) == row[j].status = "running"

Abandoned(j) == row[j].status = "running" /\ row[j].stamp = "stale"

\* One UPDATE over a whole table, every device; the stamp stays as it was.
Release(table, verdict) ==
  row' = [j \in Jobs |-> IF j \in table /\ Abandoned(j)
                         THEN [row[j] EXCEPT !.status = verdict]
                         ELSE row[j]]

ReleaseAbandonedRuns == Release(Runs, "interrupted")
\* Mutant: the second release repeats the first one's table.
ReleaseRunsTwice == Release(Runs, "failed")

ReleaseAbandonedPreflights == Release(Preflights, "failed")

-------------------------------------------------------------------------------
(* The processes. *)

PC == {"idle",
       "task",       \* a Celery task: about to make sure the row exists
       "lookup",     \* TestRunner.run: about to read the row
       "releaseRuns", "releasePreflights", "claim",
       "driving",    \* the sampling loop, or the preflight's scenarios
       "completing", "interrupting",  \* in-flight calls awaited, app stopped
       "draining",   \* a failed run whose in-flight calls are awaited
       "unclaimed",  \* `autoperf preflight' driving the phone
       "recording"}  \* `autoperf preflight' about to store its report

Stopping(w) == pc[w] \in {"completing", "interrupting"}
Driving(w) == Stopping(w) \/ pc[w] \in {"driving", "draining", "unclaimed"}

Working(j) == \E w \in Actors : job[w] = j

\* Somebody has this id, or a message that will hand it to somebody exists.
Outstanding(j) == tasks[j] > 0 \/ Working(j)

Goto(w, next) == pc' = [pc EXCEPT ![w] = next]
Begin(w, j, next) == /\ pc[w] = "idle"
                     /\ Goto(w, next)
                     /\ job' = [job EXCEPT ![w] = j]
Quit(w) == /\ Goto(w, "idle")
           /\ job' = [job EXCEPT ![w] = NoJob]

Init ==
  /\ row = [j \in Jobs |-> [status |-> "absent", cancel |-> FALSE, stamp |-> "none"]]
  /\ canceller = [r \in Runs |-> "idle"]
  /\ tasks = [j \in Jobs |-> 0]
  /\ pc = [w \in Actors |-> "idle"]
  /\ job = [w \in Actors |-> NoJob]

-------------------------------------------------------------------------------
(* Requests. *)

\* services.trigger_run: the row first, a dispatch later.
TriggerRun(r) ==
  /\ row[r].status = "absent" /\ ~Working(r)
  /\ Put(r, Created)
  /\ UNCHANGED <<canceller, tasks, pc, job>>

\* services.trigger_preflight: row and message.
TriggerPreflight(p) ==
  /\ row[p].status = "absent" /\ ~Working(p)
  /\ Put(p, Created)
  /\ tasks' = [tasks EXCEPT ![p] = @ + 1]
  /\ UNCHANGED <<canceller, pc, job>>

\* Mutant: any run without a worker is dispatched, ended ones included.
DispatchAnyStatus(r) ==
  /\ row[r].status # "absent" /\ ~Outstanding(r)
  /\ tasks[r] < MaxTasks
  /\ tasks' = [tasks EXCEPT ![r] = @ + 1]
  /\ UNCHANGED <<row, canceller, pc, job>>

\* services.dispatch_pending, seen from here: a run that was pending and not
\* flagged when it was read is handed to Celery.  By then it may be cancelled or
\* deleted.  Module Dispatch has the steps and implements this one.
DispatchRun(r) ==
  /\ row[r].status # "absent"
  /\ May("duplicates") \/ (Unstarted(r) /\ ~Outstanding(r))
  /\ tasks[r] < MaxTasks
  /\ tasks' = [tasks EXCEPT ![r] = @ + 1]
  /\ UNCHANGED <<row, canceller, pc, job>>

\* cancel_run reads the row and acts on what it read.
CancelRead(r) ==
  /\ canceller[r] = "idle"
  /\ \/ /\ row[r].status = "pending"
        /\ canceller' = [canceller EXCEPT ![r] = "sawPending"]
     \/ /\ row[r].status = "running"
        /\ canceller' = [canceller EXCEPT ![r] = "sawRunning"]
  /\ UNCHANGED <<row, tasks, pc, job>>

\* Storage.request_cancel.
CancelFlag(r) ==
  /\ canceller[r] \in {"sawPending", "sawRunning"}
  /\ PutExisting(r, [row[r] EXCEPT !.cancel = TRUE])
  /\ canceller' = [canceller EXCEPT ![r] =
                     IF @ = "sawPending" THEN "flagged" ELSE "idle"]
  /\ UNCHANGED <<tasks, pc, job>>

\* update_run(INTERRUPTED), only for a run that was pending when it was read.
CancelInterrupt(r) ==
  /\ canceller[r] = "flagged"
  /\ UpdateRun(r, "interrupted")
  /\ canceller' = [canceller EXCEPT ![r] = "idle"]
  /\ UNCHANGED <<tasks, pc, job>>

\* Storage.request_preflight_cancel.
CancelPreflight(p) ==
  /\ row[p].status \in {"pending", "running"}
  /\ Put(p, [row[p] EXCEPT !.cancel = TRUE])
  /\ UNCHANGED <<canceller, tasks, pc, job>>

NoCancelAtWork(j) == j \in Runs => canceller[j] \in {"idle", "sawRunning"}

\* Storage.delete_run, from views.run_detail, delete_campaign or
\* cancel_campaign_runs.
DeleteRun(r) ==
  /\ Exists(r)
  /\ May("deleteRunning") \/ row[r].status # "running"
  /\ May("cancelRace") \/ NoCancelAtWork(r)
  /\ Put(r, Gone)
  /\ UNCHANGED <<canceller, tasks, pc, job>>

-------------------------------------------------------------------------------
(* Releasing what dead processes left: Storage.list_running_runs. *)

PollReleaseRuns ==
  /\ ReleaseAbandonedRuns
  /\ UNCHANGED <<canceller, tasks, pc, job>>

PollReleasePreflights ==
  /\ ReleaseAbandonedPreflights
  /\ UNCHANGED <<canceller, tasks, pc, job>>

\* The cutoff passes a stamp.
Age(j) ==
  /\ row[j].stamp = "fresh"
  /\ \/ ~Working(j)
     \/ j \in Runs /\ May("silence")
     \/ j \in Preflights /\ May("slowPreflight")
  /\ Put(j, [row[j] EXCEPT !.stamp = "stale"])
  /\ UNCHANGED <<canceller, tasks, pc, job>>

-------------------------------------------------------------------------------
(* Starting work. *)

\* A worker takes the message of run_test_task or run_preflight_task.
TakeTask(w, j) ==
  /\ w \in Workers
  /\ tasks[j] > 0
  /\ tasks' = [tasks EXCEPT ![j] = @ - 1]
  /\ Begin(w, j, "task")
  /\ UNCHANGED <<row, canceller>>

\* Both tasks insert the row when there is none.
TaskLookup(w) ==
  /\ pc[w] = "task"
  /\ IF Exists(job[w]) THEN UNCHANGED row ELSE Put(job[w], Created)
  /\ Goto(w, IF job[w] \in Runs THEN "lookup" ELSE "releaseRuns")
  /\ UNCHANGED <<canceller, tasks, job>>

\* `autoperf run': a fresh id, or with --resume one that exists.
StartShell(w, r) ==
  /\ w \in Shells /\ r \in Runs
  /\ \/ row[r].status = "absent"
     \/ row[r].status \in Terminal /\ May("resume")
     \/ row[r].status = "running" /\ May("duplicates")
  /\ May("duplicates") \/ ~Outstanding(r)
  /\ Begin(w, r, "lookup")
  /\ UNCHANGED <<row, canceller, tasks>>

\* TestRunner.run up to the claim.  A task (require_existing) stops at a row
\* that is gone, a terminal creates it; a flagged row is never started.
LookupMissing(w) ==
  /\ pc[w] = "lookup" /\ ~Exists(job[w])
  /\ \/ w \in Workers /\ Quit(w) /\ UNCHANGED row
     \/ /\ w \in Shells
        /\ Put(job[w], Created)
        /\ Goto(w, "releaseRuns") /\ UNCHANGED job
  /\ UNCHANGED <<canceller, tasks>>

LookupCancelled(w) ==
  /\ pc[w] = "lookup" /\ Exists(job[w]) /\ row[job[w]].cancel
  /\ UpdateRun(job[w], "interrupted")
  /\ Quit(w)
  /\ UNCHANGED <<canceller, tasks>>

LookupReady(w) ==
  /\ pc[w] = "lookup" /\ Exists(job[w]) /\ ~row[job[w]].cancel
  /\ Goto(w, "releaseRuns")
  /\ UNCHANGED <<row, canceller, tasks, job>>

\* try_start_run and try_start_preflight: two releases, then the claim.
ClaimReleasesRuns(w) ==
  /\ pc[w] = "releaseRuns"
  /\ ReleaseAbandonedRuns
  /\ Goto(w, "releasePreflights")
  /\ UNCHANGED <<canceller, tasks, job>>

ClaimReleasesPreflights(w) ==
  /\ pc[w] = "releasePreflights"
  /\ ReleaseAbandonedPreflights
  /\ Goto(w, "claim")
  /\ UNCHANGED <<canceller, tasks, job>>

\* `autoperf preflight' has already driven the phone when it claims it.
Recorder(w) == w \in Shells /\ job[w] \in Preflights

Claim(w) ==
  /\ pc[w] = "claim"
  /\ Claimable(job[w])
  /\ May("cancelRace") \/ NoCancelAtWork(job[w])
  /\ Put(job[w], Started(row[job[w]]))
  /\ Goto(w, IF Recorder(w) THEN "recording" ELSE "driving")
  /\ UNCHANGED <<canceller, tasks, job>>

\* DeviceBusyError: a task goes back to the queue, a terminal gives up.
ClaimRefused(w) ==
  /\ pc[w] = "claim"
  /\ ~Claimable(job[w])
  /\ ~Recorder(w)
  /\ IF w \in Workers THEN tasks' = [tasks EXCEPT ![job[w]] = @ + 1]
                    ELSE UNCHANGED tasks
  /\ Quit(w)
  /\ UNCHANGED <<row, canceller>>

\* cli._run_preflight does not look at what try_start_preflight returned.
ClaimRefusalIgnored(w) ==
  /\ pc[w] = "claim"
  /\ ~Claimable(job[w])
  /\ Recorder(w)
  /\ Goto(w, "recording")
  /\ UNCHANGED <<row, canceller, tasks, job>>

-------------------------------------------------------------------------------
(* Driving the phone. *)

\* The loop's heartbeat writes the status again, whatever the row says now.
Beat(w) ==
  /\ pc[w] = "driving" /\ job[w] \in Runs
  /\ UpdateRun(job[w], "running")
  /\ UNCHANGED <<canceller, tasks, pc, job>>

Stop(w, how) ==
  /\ Goto(w, how)
  /\ UNCHANGED <<row, canceller, tasks, job>>

\* Mutant: the loop polls the status for `interrupted' and not the flag.
NoticeInterrupted(w) ==
  /\ pc[w] = "driving"
  /\ row[job[w]].status = "interrupted"
  /\ Stop(w, "interrupting")

\* cancel_requested, read by the loop or at a preflight's scenario boundary.
NoticeCancel(w) ==
  /\ pc[w] = "driving"
  /\ Exists(job[w]) /\ row[job[w]].cancel
  /\ Stop(w, "interrupting")

\* The duration has passed, or the last scenario is graded.
LeaveLoop(w) == pc[w] = "driving" /\ Stop(w, "completing")

\* Ctrl+C in a terminal.
Interrupt(w) ==
  w \in Shells /\ pc[w] = "driving" /\ Stop(w, "interrupting")

\* The last write gives the device up.  writer.close may still fail a run, an
\* exception a preflight.
Finish(w) ==
  /\ Stopping(w)
  /\ \E verdict \in {"failed", IF pc[w] = "completing" THEN "completed"
                                                       ELSE "interrupted"} :
       IF job[w] \in Runs THEN UpdateRun(job[w], verdict)
                          ELSE FinishPreflight(job[w], verdict)
  /\ Quit(w)
  /\ UNCHANGED <<canceller, tasks>>

\* An exception in the loop: FAILED is written first, executor.shutdown waits
\* for the calls in flight afterwards.
FailRun(w) ==
  /\ pc[w] = "driving" /\ job[w] \in Runs
  /\ UpdateRun(job[w], "failed")
  /\ \/ Quit(w)
     \/ May("failDrain") /\ Goto(w, "draining") /\ UNCHANGED job
  /\ UNCHANGED <<canceller, tasks>>

Drained(w) ==
  /\ pc[w] = "draining"
  /\ Quit(w)
  /\ UNCHANGED <<row, canceller, tasks>>

\* `autoperf preflight': drive, then create the row, claim it and finish it.
StartShellPreflight(w, p) ==
  /\ May("cliPreflight")
  /\ w \in Shells /\ p \in Preflights
  /\ row[p].status = "absent" /\ ~Outstanding(p)
  /\ Begin(w, p, "unclaimed")
  /\ UNCHANGED <<row, canceller, tasks>>

RecordPreflight(w) ==
  /\ pc[w] = "unclaimed"
  /\ Put(job[w], Created)
  /\ Goto(w, "releaseRuns")
  /\ UNCHANGED <<canceller, tasks, job>>

StorePreflight(w) ==
  /\ pc[w] = "recording"
  /\ FinishPreflight(job[w], "completed")
  /\ Quit(w)
  /\ UNCHANGED <<canceller, tasks>>

\* The broker is purged: a message is gone, its row stays.
LoseMessage(j) ==
  /\ tasks[j] > 0
  /\ tasks' = [tasks EXCEPT ![j] = @ - 1]
  /\ UNCHANGED <<row, canceller, pc, job>>

\* The process is killed; its row stays as it is, its message is gone.
Crash(w) ==
  /\ pc[w] # "idle"
  /\ Quit(w)
  /\ UNCHANGED <<row, canceller, tasks>>

-------------------------------------------------------------------------------

\* What people ask of the dashboard.
Endpoint(j) ==
  \/ j \in Runs /\ \/ TriggerRun(j) \/ DeleteRun(j)
                   \/ CancelRead(j) \/ CancelFlag(j) \/ CancelInterrupt(j)
  \/ j \in Preflights /\ (TriggerPreflight(j) \/ CancelPreflight(j))

Request(j) == Endpoint(j) \/ (j \in Runs /\ DispatchRun(j))

Start(w) == \E j \in Jobs :
  TakeTask(w, j) \/ StartShell(w, j) \/ StartShellPreflight(w, j)

Prepare(w) ==
  \/ TaskLookup(w)
  \/ LookupMissing(w) \/ LookupCancelled(w) \/ LookupReady(w)
  \/ ClaimReleasesRuns(w) \/ ClaimReleasesPreflights(w)
  \/ Claim(w) \/ ClaimRefused(w) \/ ClaimRefusalIgnored(w)

Drive(w) ==
  \/ Beat(w) \/ NoticeCancel(w) \/ LeaveLoop(w) \/ Interrupt(w)
  \/ Finish(w) \/ FailRun(w) \/ Drained(w)
  \/ RecordPreflight(w) \/ StorePreflight(w)

Poll == PollReleaseRuns \/ PollReleasePreflights

Next ==
  \/ \E j \in Jobs : Request(j) \/ Age(j) \/ LoseMessage(j)
  \/ Poll
  \/ \E w \in Actors : Start(w) \/ Prepare(w) \/ Drive(w) \/ Crash(w)

Spec == Init /\ [][Next]_vars

\* Time passes; a dashboard page or a later claim asks what is running; a
\* process that is alive goes on.  No duration is assumed: only a cancel ends
\* a loop for sure.
Fairness ==
  /\ \A j \in Jobs : WF_vars(Age(j))
  /\ WF_vars(PollReleaseRuns) /\ WF_vars(PollReleasePreflights)
  /\ \A r \in Runs : WF_vars(CancelFlag(r)) /\ WF_vars(CancelInterrupt(r))
  /\ \A w \in Actors : /\ WF_vars(Prepare(w))
                       /\ WF_vars(NoticeCancel(w))
                       /\ WF_vars(Finish(w)) /\ WF_vars(Drained(w))
                       /\ WF_vars(RecordPreflight(w)) /\ WF_vars(StorePreflight(w))

FairSpec == Spec /\ Fairness

-------------------------------------------------------------------------------
(* Properties. *)

\* The shape of the tables and of every process.
TypeOK ==
  /\ row \in [Jobs -> Row]
  /\ canceller \in [Runs -> {"idle", "sawPending", "sawRunning", "flagged"}]
  /\ tasks \in [Jobs -> Nat]
  /\ pc \in [Actors -> PC]
  /\ job \in [Actors -> Jobs \cup {NoJob}]

\* One phone is driven by one process at a time, whatever claims, cancels,
\* deletes, crashes and releases happen around it (Storage.try_start_run:
\* "serializing runs against the same device").
DeviceExclusive ==
  \A w, v \in Actors :
    w # v /\ Driving(w) /\ Driving(v) => DeviceOf[job[w]] # DeviceOf[job[v]]

\* Of the tables themselves: a device has one `running' row across test_runs
\* and preflight_reports, which is what the two claims test before they write.
OneRunningRow ==
  \A j, k \in Jobs :
    row[j].status = "running" /\ row[k].status = "running" /\ j # k
      => DeviceOf[j] # DeviceOf[k]

\* A process that drives a phone still holds it: no release, cancel or delete
\* by others has taken the `running' row from under it (ABANDONED_RUN_SECONDS:
\* "a merely slow run is never stolen").
DriverHoldsRow ==
  \A w \in Actors : Driving(w) => row[job[w]].status = "running"

\* A run that ended is not measured again: neither a late task nor a late
\* heartbeat sets a completed or failed row running.
EndedOnce ==
  [][\A r \in Runs : row[r].status \in {"completed", "failed"}
       => row'[r].status \in {row[r].status, "deleted"}]_vars

\* A `running' row always carries a stamp.  SQL compares a NULL stamp as
\* unknown, so a row without one could never be released.
RunningIsReclaimable ==
  \A j \in Jobs : row[j].status = "running" => row[j].stamp # "none"

\* The row of a killed worker does not hold its device for ever: it is
\* released, or some process takes it up again (Storage.try_start_run: two
\* phones "sat idle for five hours behind two such rows").
DeadRowsReleased ==
  \A j \in Jobs :
    row[j].status = "running" /\ ~Working(j)
      ~> row[j].status # "running" \/ Working(j)

\* A cancel of a running run takes effect, by its process noticing the flag or,
\* when the process is dead, by the release of its row.
CancelTakesEffect ==
  \A r \in Runs :
    row[r].status = "running" /\ row[r].cancel ~> row[r].status # "running"

\* run_test_task promises "a deleted run must not come back to life".
DeletedStaysDeleted ==
  [][\A r \in Runs : row[r].status = "deleted" => row'[r].status = "deleted"]_vars

-------------------------------------------------------------------------------
(* The inductive invariant behind DeviceExclusive, without hazards. *)

Early(w) == pc[w] \in {"task", "lookup"}
Claiming(w) == pc[w] \in {"releaseRuns", "releasePreflights", "claim"}

\* One process or one message per id.
OneHolder ==
  /\ \A w \in Actors : /\ pc[w] = "idle" <=> job[w] = NoJob
                       /\ pc[w] \notin {"draining", "unclaimed", "recording"}
                       /\ pc[w] = "lookup" => job[w] \in Runs
                       /\ w \in Shells => job[w] \in Runs \cup {NoJob}
  /\ \A w, v \in Actors : job[w] = job[v] /\ job[w] # NoJob => w = v
  /\ \A j \in Jobs : tasks[j] \in {0, 1} /\ (tasks[j] = 1 => ~Working(j))

WaitingIsUnstarted ==
  /\ \A j \in Jobs : tasks[j] = 1 => Unstarted(j)
  /\ \A w \in Actors : Early(w) => Unstarted(job[w])

\* A task comes from a row, even if that row is gone by now.
TaskHadRow ==
  /\ \A j \in Jobs : tasks[j] = 1 => row[j].status # "absent"
  /\ \A w \in Workers : pc[w] # "idle" => row[job[w]].status # "absent"

\* A claim never starts from an old stamp.
ClaimFromFreshRow ==
  \A w \in Actors : Claiming(w) =>
    Unstarted(job[w]) /\ row[job[w]].stamp # "stale"

PendingIsUnstamped ==
  \A j \in Jobs : row[j].status \in {"absent", "deleted", "pending"} => row[j].stamp = "none"

\* While it drives, a process owns a row the release does not see.
DriverOwnsFreshRow ==
  \A w \in Actors : Driving(w) =>
    row[job[w]].status = "running" /\ row[job[w]].stamp = "fresh"

\* cancel_run's last write never meets a running row.
CancellerMeetsNoDriver ==
  \A r \in Runs :
    /\ canceller[r] \in {"sawPending", "flagged"} =>
         row[r].status \in {"pending", "interrupted"}
    /\ canceller[r] = "flagged" => row[r].cancel

\* Together they are kept by every step when Hazards is empty.
ClaimsInv ==
  /\ TypeOK
  /\ OneHolder
  /\ WaitingIsUnstarted
  /\ TaskHadRow
  /\ ClaimFromFreshRow
  /\ PendingIsUnstamped
  /\ DriverOwnsFreshRow
  /\ CancellerMeetsNoDriver
  /\ OneRunningRow
=============================================================================
