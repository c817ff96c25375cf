------------------------------ MODULE Campaign ------------------------------
(***************************************************************************)
(* One campaign on one phone: its row, the rows of the runs it planned and *)
(* the baselines they become. It is executed by terminals (`autoperf       *)
(* campaign start' and `resume') and by Celery workers, which are handed   *)
(* whatever run is pending; cancelled, deleted, and its runs chosen as     *)
(* baselines, by requests. An action is one transaction or one decision of *)
(* one process. Who may drive the phone is the subject of DeviceClaims:    *)
(* here a claim is refused while another run holds the phone.              *)
(***************************************************************************)
EXTENDS Naturals

CONSTANTS
  N,            \* how many runs are planned: 1..N, in row order
  Terminals,    \* shells that execute the campaign
  Workers,      \* Celery workers
  Curators,     \* requests that choose a baseline by hand, each made once
  Clerks,       \* requests that cancel or delete, each made once
  Scenarios,
  Plain,        \* the scenario of a run that drives nothing
  ScenarioOf,   \* what each run was planned for
  NoRun

Planned == 1..N

ASSUME CampaignAssumption ==
  /\ N \in Nat \ {0}
  /\ NoRun \notin Planned
  /\ Plain \in Scenarios
  /\ ScenarioOf \in [Planned -> Scenarios]

ASSUME DistinctProcesses ==
  /\ Terminals \cap Workers = {} /\ Terminals \cap Curators = {}
  /\ Terminals \cap Clerks = {} /\ Workers \cap Curators = {}
  /\ Workers \cap Clerks = {} /\ Curators \cap Clerks = {}

Executors == Terminals \cup Workers
Pickers == Executors \cup Curators
Processes == Pickers \cup Clerks

VARIABLES
  campaign,   \* status of the campaign's row, "absent" without one
  flagged,    \* its cancel_requested
  planned,    \* how many runs create_campaign has inserted
  maker,      \* where create_campaign and trigger_campaign are
  row,        \* the rows of the runs
  baseline,   \* per scenario, the run its row names
  pc,
  run,        \* the run each picker is about
  todo,       \* the listed runs that a terminal or clerk has yet to look at
  skip,       \* those of a terminal that had ended when it listed them
  aim,        \* a terminal's verdict, a picker's scenario, a clerk's errand
  met         \* the hazards met so far, see HazardKinds

creation == <<planned, maker>>
vars == <<campaign, flagged, creation, row, baseline, pc, run, todo, skip, aim, met>>

Ends == {"completed", "failed", "interrupted"}

Absent == [status |-> "none", cancel |-> FALSE, child |-> FALSE, scenario |-> Plain]
Pending(child, scenario) ==
  [status |-> "pending", cancel |-> FALSE, child |-> child, scenario |-> scenario]

Exists(k) == row[k].status # "none"
Ended(k) == row[k].status \in Ends

\* list_campaign_runs: a recreated row has no campaign_id.
Children == {k \in Planned : Exists(k) /\ row[k].child}

IsFirst(k, S) == k \in S /\ \A j \in S : k <= j

\* The run is on its way to a worker or to be driven by a terminal.
Awaits(e, k) ==
  \/ run[e] = k /\ pc[e] \in {"arriving", "lookup", "claiming"}
  \/ e \in Terminals /\ k \in todo[e] \ skip[e]
Picking(p) == pc[p] \in {"choosing", "writing"}

(***************************************************************************)
(* What the promises below rest on not happening.                          *)
(*   shared   two of the terminals and workers execute at a time           *)
(*   dead     a terminal or worker is killed while it drives the phone     *)
(*   early    executed, cancelled or deleted before all runs were inserted *)
(*   held     a run is removed that a terminal or worker has yet to start  *)
(*   driven   a run is removed while a terminal or worker drives it        *)
(*   picked   a run is removed while it is being made a baseline           *)
(***************************************************************************)
HazardKinds == {"shared", "dead", "early", "held", "driven", "picked"}

Unfinished == maker = "planning"
Meet(hazard, condition) == met' = met \cup {h \in {hazard} : condition}

Init ==
  /\ campaign = "absent" /\ flagged = FALSE
  /\ planned = 0 /\ maker = "idle"
  /\ row = [k \in Planned |-> Absent]
  /\ baseline = [s \in Scenarios |-> NoRun]
  /\ pc = [p \in Processes |-> "idle"]
  /\ run = [p \in Pickers |-> NoRun]
  /\ todo = [p \in Terminals \cup Clerks |-> {}]
  /\ skip = [t \in Terminals |-> {}]
  /\ aim = [p \in Processes |-> "none"]
  /\ met = {}

Goto(p, place) == pc' = [pc EXCEPT ![p] = place]
\* A picker is through with its run; a terminal looks at the next.
Leave(p) ==
  /\ Goto(p, IF p \in Terminals THEN "loop" ELSE IF p \in Workers THEN "idle" ELSE "done")
  /\ run' = [run EXCEPT ![p] = NoRun]

SetStatus(k, status) == row' = [row EXCEPT ![k].status = status]

\* An UPDATE of a row that was deleted changes nothing.
UpdateRun(k, status) == IF Exists(k) THEN SetStatus(k, status) ELSE UNCHANGED row
UpdateCampaign(status) ==
  IF campaign = "absent" THEN UNCHANGED campaign ELSE campaign' = status

-------------------------------------------------------------------------------
(* create_campaign: the row, then each run in a transaction of its own. *)

Create ==
  /\ maker = "idle"
  /\ campaign' = "pending" /\ maker' = "planning"
  /\ UNCHANGED <<flagged, planned, row, baseline, pc, run, todo, skip, aim, met>>

CreateRun ==
  /\ maker = "planning" /\ planned < N
  /\ planned' = planned + 1
  /\ row' = [row EXCEPT ![planned'] = Pending(TRUE, ScenarioOf[planned'])]
  /\ UNCHANGED <<campaign, flagged, maker, baseline, pc, run, todo, skip, aim, met>>

\* The dashboard goes on to dispatch, below, and to declare it running.
Created ==
  /\ maker = "planning" /\ planned = N
  /\ maker' \in {"triggered", "done"}
  /\ UNCHANGED <<campaign, flagged, planned, row, baseline, pc, run, todo, skip, aim, met>>

Trigger ==
  /\ maker = "triggered"
  /\ UpdateCampaign("running") /\ maker' = "done"
  /\ UNCHANGED <<flagged, planned, row, baseline, pc, run, todo, skip, aim, met>>

-------------------------------------------------------------------------------
(* execute_campaign *)

Begin(t) ==
  /\ pc[t] = "idle" /\ campaign # "absent"
  /\ Goto(t, "announcing")
  /\ met' = met \cup {h \in {"shared"} : \E e \in Executors \ {t} : pc[e] # "idle"}
                \cup {h \in {"early"} : Unfinished}
  /\ UNCHANGED <<campaign, flagged, creation, row, baseline, run, todo, skip, aim>>

Announce(t) ==
  /\ pc[t] = "announcing"
  /\ UpdateCampaign("running")
  /\ Goto(t, "listing")
  /\ UNCHANGED <<flagged, creation, row, baseline, run, todo, skip, aim, met>>

ListRuns(t) ==
  /\ pc[t] = "listing"
  /\ todo' = [todo EXCEPT ![t] = Children]
  /\ skip' = [skip EXCEPT ![t] = {k \in Children : Ended(k)}]
  /\ Goto(t, "loop")
  /\ UNCHANGED <<campaign, flagged, creation, row, baseline, run, aim, met>>

\* A campaign that is gone does not ask to be cancelled.
HeedCancel(t) ==
  /\ pc[t] = "loop" /\ todo[t] # {}
  /\ campaign # "absent" /\ flagged
  /\ aim' = [aim EXCEPT ![t] = "interrupted"]
  /\ todo' = [todo EXCEPT ![t] = {}]
  /\ Goto(t, "closing")
  /\ UNCHANGED <<campaign, flagged, creation, row, baseline, run, skip, met>>

NotCancelled == campaign = "absent" \/ ~flagged

SkipEnded(t, k) ==
  /\ pc[t] = "loop" /\ IsFirst(k, todo[t]) /\ NotCancelled
  /\ k \in skip[t]
  /\ todo' = [todo EXCEPT ![t] = @ \ {k}]
  /\ UNCHANGED <<campaign, flagged, creation, row, baseline, pc, run, skip, aim, met>>

Take(t, k) ==
  /\ pc[t] = "loop" /\ IsFirst(k, todo[t]) /\ NotCancelled
  /\ k \notin skip[t]
  /\ run' = [run EXCEPT ![t] = k]
  /\ todo' = [todo EXCEPT ![t] = @ \ {k}]
  /\ Goto(t, "lookup")
  /\ UNCHANGED <<campaign, flagged, creation, row, baseline, skip, aim, met>>

Verdict ==
  IF Children # {} /\ \A k \in Children : Ended(k) THEN "completed" ELSE "running"

Judge(t) ==
  /\ pc[t] = "loop" /\ todo[t] = {}
  /\ aim' = [aim EXCEPT ![t] = Verdict]
  /\ Goto(t, "closing")
  /\ UNCHANGED <<campaign, flagged, creation, row, baseline, run, todo, skip, met>>

Close(t) ==
  /\ pc[t] = "closing" /\ t \in Terminals
  /\ UpdateCampaign(aim[t])
  /\ aim' = [aim EXCEPT ![t] = "none"]
  /\ skip' = [skip EXCEPT ![t] = {}]
  /\ Goto(t, "idle")
  /\ UNCHANGED <<flagged, creation, row, baseline, run, todo, met>>

-------------------------------------------------------------------------------
(* dispatch_pending and the front of run_test_task *)

\* A run that is running, or was handed out and is waiting for the phone.
InFlight ==
  \E k \in Planned :
    \/ row[k].status = "running"
    \/ /\ row[k].status = "pending" /\ ~row[k].cancel
       /\ \E w \in Workers : run[w] = k /\ pc[w] \in {"arriving", "lookup", "claiming"}

Waiting == {k \in Planned : row[k].status = "pending" /\ ~row[k].cancel}

\* Any run that waits: the query does not ask who planned it or who executes it.
Dispatch(w, k) ==
  /\ pc[w] = "idle"
  /\ ~InFlight /\ IsFirst(k, Waiting)
  /\ run' = [run EXCEPT ![w] = k]
  /\ Goto(w, "arriving")
  /\ Meet("shared", \E e \in Executors \ {w} : pc[e] # "idle")
  /\ UNCHANGED <<campaign, flagged, creation, row, baseline, todo, skip, aim>>

\* The task inserts a row that is missing, although the run was deleted.
Arrive(w) ==
  /\ pc[w] = "arriving"
  /\ row' = IF Exists(run[w]) THEN row
            ELSE [row EXCEPT ![run[w]] = Pending(FALSE, ScenarioOf[run[w]])]
  /\ Goto(w, "lookup")
  /\ UNCHANGED <<campaign, flagged, creation, baseline, run, todo, skip, aim, met>>

-------------------------------------------------------------------------------
(* TestRunner.run, by a terminal or by a worker *)

\* A terminal inserts the row again, of no campaign and no scenario; a worker stops.
LookupNone(e) ==
  /\ pc[e] = "lookup" /\ ~Exists(run[e])
  /\ IF e \in Terminals
     THEN /\ row' = [row EXCEPT ![run[e]] = Pending(FALSE, Plain)]
          /\ Goto(e, "claiming")
     ELSE /\ UNCHANGED row
          /\ Goto(e, "ran")
  /\ UNCHANGED <<campaign, flagged, creation, baseline, run, todo, skip, aim, met>>

LookupCancelled(e) ==
  /\ pc[e] = "lookup" /\ Exists(run[e]) /\ row[run[e]].cancel
  /\ SetStatus(run[e], "interrupted")
  /\ Goto(e, "ran")
  /\ UNCHANGED <<campaign, flagged, creation, baseline, run, todo, skip, aim, met>>

Lookup(e) ==
  /\ pc[e] = "lookup" /\ Exists(run[e]) /\ ~row[run[e]].cancel
  /\ Goto(e, "claiming")
  /\ UNCHANGED <<campaign, flagged, creation, row, baseline, run, todo, skip, aim, met>>

OtherRuns(k) == \E j \in Planned \ {k} : row[j].status = "running"

Claim(e) ==
  /\ pc[e] = "claiming" /\ Exists(run[e]) /\ ~OtherRuns(run[e])
  /\ SetStatus(run[e], "running")
  /\ Goto(e, "driving")
  /\ UNCHANGED <<campaign, flagged, creation, baseline, run, todo, skip, aim, met>>

\* A terminal could not ask the phone for its screen size: the run has failed.
FailBefore(t) ==
  /\ pc[t] = "lookup" /\ t \in Terminals
  /\ UpdateRun(run[t], "failed")
  /\ Goto(t, "ran")
  /\ UNCHANGED <<campaign, flagged, creation, baseline, run, todo, skip, aim, met>>

\* The same befalls a worker: the run stays pending and is handed out again.
FailTask(w) ==
  /\ pc[w] = "lookup" /\ w \in Workers
  /\ Leave(w)
  /\ UNCHANGED <<campaign, flagged, creation, row, baseline, todo, skip, aim, met>>

\* DeviceBusyError, because of a run of this campaign or of anybody's. A terminal
\* calls the run failed; a worker tries the task again later.
Refused(e) ==
  /\ pc[e] = "claiming"
  /\ \/ ~Exists(run[e])
     \/ OtherRuns(run[e])
     \/ \A k \in Planned : row[k].status # "running"
  /\ IF e \in Terminals
     THEN UpdateRun(run[e], "failed") /\ Goto(e, "ran")
     ELSE UNCHANGED row /\ Goto(e, "arriving")
  /\ UNCHANGED <<campaign, flagged, creation, baseline, run, todo, skip, aim, met>>

Beat(e) ==
  /\ pc[e] = "driving"
  /\ UpdateRun(run[e], "running")
  /\ UNCHANGED <<campaign, flagged, creation, baseline, pc, run, todo, skip, aim, met>>

Finish(e) ==
  /\ pc[e] = "driving"
  /\ \E status \in Ends : UpdateRun(run[e], status)
  /\ Goto(e, "ran")
  /\ UNCHANGED <<campaign, flagged, creation, baseline, run, todo, skip, aim, met>>

\* The process is killed; a terminal's campaign may be resumed.
Die(e) ==
  /\ pc[e] # "idle"
  /\ Goto(e, "idle")
  /\ run' = [run EXCEPT ![e] = NoRun]
  /\ aim' = [aim EXCEPT ![e] = "none"]
  /\ todo' = [p \in Terminals \cup Clerks |-> IF p = e THEN {} ELSE todo[p]]
  /\ skip' = [t \in Terminals |-> IF t = e THEN {} ELSE skip[t]]
  /\ Meet("dead", pc[e] = "driving")
  /\ UNCHANGED <<campaign, flagged, creation, row, baseline>>

\* A claim of anybody's finds a running row that nobody keeps alive.
Release(k) ==
  /\ row[k].status = "running"
  /\ \A e \in Executors : ~(pc[e] = "driving" /\ run[e] = k)
  /\ SetStatus(k, "interrupted")
  /\ UNCHANGED <<campaign, flagged, creation, baseline, pc, run, todo, skip, aim, met>>

-------------------------------------------------------------------------------
(* Baselines: an executor seeds one, a curator sets one. *)

WithoutBaseline(k) == baseline[ScenarioOf[k]] = NoRun

Seed(e) ==
  /\ pc[e] = "ran"
  /\ row[run[e]].status = "completed" /\ WithoutBaseline(run[e])
  /\ Goto(e, "choosing")
  /\ UNCHANGED <<campaign, flagged, creation, row, baseline, run, todo, skip, aim, met>>

NothingToSeed(e) ==
  /\ pc[e] = "ran"
  /\ row[run[e]].status # "completed" \/ ~WithoutBaseline(run[e])
  /\ Leave(e)
  /\ UNCHANGED <<campaign, flagged, creation, row, baseline, todo, skip, aim, met>>

\* Any run will do, ended or not.
Pick(u, k) ==
  /\ pc[u] = "idle" /\ Exists(k)
  /\ run' = [run EXCEPT ![u] = k]
  /\ Goto(u, "choosing")
  /\ UNCHANGED <<campaign, flagged, creation, row, baseline, todo, skip, aim, met>>

\* set_baseline takes the scenario from the row, and Plain without one.
Choose(p) ==
  /\ pc[p] = "choosing"
  /\ aim' = [aim EXCEPT ![p] = row[run[p]].scenario]
  /\ Goto(p, "writing")
  /\ UNCHANGED <<campaign, flagged, creation, row, baseline, run, todo, skip, met>>

SetBaseline(p) ==
  /\ pc[p] = "writing"
  /\ baseline' = [baseline EXCEPT ![aim[p]] = run[p]]
  /\ aim' = [aim EXCEPT ![p] = "none"]
  /\ Leave(p)
  /\ UNCHANGED <<campaign, flagged, creation, row, todo, skip, met>>

-------------------------------------------------------------------------------
(* cancel_campaign, delete_campaign and DELETE of one run *)

Cancel(c) ==
  /\ pc[c] = "idle" /\ campaign # "absent"
  /\ aim' = [aim EXCEPT ![c] = "cancel"]
  /\ Goto(c, "flagging")
  /\ UNCHANGED <<campaign, flagged, creation, row, baseline, run, todo, skip, met>>

Flag(c) ==
  /\ pc[c] = "flagging"
  /\ flagged' = (campaign # "absent")
  /\ Goto(c, "collecting")
  /\ UNCHANGED <<campaign, creation, row, baseline, run, todo, skip, aim, met>>

\* Mutant: only flags.
CollectNothing(c) ==
  /\ pc[c] = "collecting"
  /\ row' = [k \in Planned |->
       [row[k] EXCEPT !.cancel = @ \/ (row[k].child /\ row[k].status = "running")]]
  /\ Goto(c, "removing")
  /\ Meet("early", Unfinished)
  /\ UNCHANGED <<campaign, flagged, creation, baseline, run, todo, skip, aim>>

\* One transaction notes what is pending and flags what is running.
Collect(c) ==
  /\ pc[c] = "collecting"
  /\ todo' = [todo EXCEPT ![c] = {k \in Children : row[k].status = "pending"}]
  /\ row' = [k \in Planned |->
       [row[k] EXCEPT !.cancel = @ \/ (row[k].child /\ row[k].status = "running")]]
  /\ Goto(c, "removing")
  /\ Meet("early", Unfinished)
  /\ UNCHANGED <<campaign, flagged, creation, baseline, run, skip, aim>>

Delete(c) ==
  /\ pc[c] = "idle" /\ campaign # "absent"
  /\ aim' = [aim EXCEPT ![c] = "delete"]
  /\ Goto(c, "gathering")
  /\ UNCHANGED <<campaign, flagged, creation, row, baseline, run, todo, skip, met>>

\* Mutant: deletes what cancelling would.
GatherPending(c) ==
  /\ pc[c] = "gathering"
  /\ todo' = [todo EXCEPT ![c] = {k \in Children : row[k].status = "pending"}]
  /\ Goto(c, "removing")
  /\ Meet("early", Unfinished)
  /\ UNCHANGED <<campaign, flagged, creation, row, baseline, run, skip, aim>>

\* Every run the campaign has, running ones too.
Gather(c) ==
  /\ pc[c] = "gathering"
  /\ todo' = [todo EXCEPT ![c] = Children]
  /\ Goto(c, "removing")
  /\ Meet("early", Unfinished)
  /\ UNCHANGED <<campaign, flagged, creation, row, baseline, run, skip, aim>>

\* The endpoint refuses a run that is running when it reads the row.
DeleteRun(c, k) ==
  /\ pc[c] = "idle" /\ Exists(k) /\ row[k].status # "running"
  /\ aim' = [aim EXCEPT ![c] = "run"]
  /\ todo' = [todo EXCEPT ![c] = {k}]
  /\ Goto(c, "removing")
  /\ UNCHANGED <<campaign, flagged, creation, row, baseline, run, skip, met>>

HazardsOf(k) ==
  {h \in {"held"} : \E e \in Executors : Awaits(e, k)}
    \cup {h \in {"driven"} : \E e \in Executors : pc[e] = "driving" /\ run[e] = k}
    \cup {h \in {"picked"} : \E p \in Pickers : Picking(p) /\ run[p] = k}

\* Mutant: the baseline stays.
RemoveRowOnly(c, k) ==
  /\ pc[c] = "removing" /\ IsFirst(k, todo[c])
  /\ row' = [row EXCEPT ![k] = Absent]
  /\ todo' = [todo EXCEPT ![c] = @ \ {k}]
  /\ met' = met \cup HazardsOf(k)
  /\ UNCHANGED <<campaign, flagged, creation, baseline, pc, run, skip, aim>>

\* delete_run, whatever became of the run since it was noted; its baseline goes too.
Remove(c, k) ==
  /\ pc[c] = "removing" /\ IsFirst(k, todo[c])
  /\ row' = [row EXCEPT ![k] = Absent]
  /\ baseline' = [s \in Scenarios |-> IF baseline[s] = k THEN NoRun ELSE baseline[s]]
  /\ todo' = [todo EXCEPT ![c] = @ \ {k}]
  /\ met' = met \cup HazardsOf(k)
  /\ UNCHANGED <<campaign, flagged, creation, pc, run, skip, aim>>

Conclude(c) ==
  /\ pc[c] = "removing" /\ todo[c] = {}
  /\ CASE aim[c] = "cancel" -> UpdateCampaign("interrupted") /\ UNCHANGED flagged
       [] aim[c] = "delete" -> campaign' = "absent" /\ flagged' = FALSE
       [] aim[c] = "run" -> UNCHANGED <<campaign, flagged>>
  /\ aim' = [aim EXCEPT ![c] = "none"]
  /\ Goto(c, "done")
  /\ UNCHANGED <<creation, row, baseline, run, todo, skip, met>>

-------------------------------------------------------------------------------
Making == Create \/ CreateRun \/ Created \/ Trigger

TerminalStep(t) ==
  \/ Begin(t) \/ Announce(t) \/ ListRuns(t) \/ HeedCancel(t) \/ Judge(t) \/ Close(t)
  \/ FailBefore(t)
  \/ \E k \in Planned : SkipEnded(t, k) \/ Take(t, k)

WorkerStep(w) ==
  \/ Arrive(w) \/ FailTask(w)
  \/ \E k \in Planned : Dispatch(w, k)

RunStep(e) ==
  \/ LookupNone(e) \/ LookupCancelled(e) \/ Lookup(e)
  \/ Claim(e) \/ Refused(e) \/ Beat(e) \/ Finish(e) \/ Die(e)
  \/ Seed(e) \/ NothingToSeed(e)

PickerStep(p) == Choose(p) \/ SetBaseline(p)

ClerkStep(c) ==
  \/ Cancel(c) \/ Flag(c) \/ Collect(c) \/ Delete(c) \/ Gather(c) \/ Conclude(c)
  \/ \E k \in Planned : DeleteRun(c, k) \/ Remove(c, k)

Next ==
  \/ Making
  \/ \E t \in Terminals : TerminalStep(t)
  \/ \E w \in Workers : WorkerStep(w)
  \/ \E e \in Executors : RunStep(e)
  \/ \E k \in Planned : Release(k)
  \/ \E p \in Pickers : PickerStep(p)
  \/ \E u \in Curators, k \in Planned : Pick(u, k)
  \/ \E c \in Clerks : ClerkStep(c)

Spec == Init /\ [][Next]_vars

-------------------------------------------------------------------------------
Statuses == {"pending", "running"} \cup Ends

Rows ==
  [status : {"none"} \cup Statuses, cancel : BOOLEAN, child : BOOLEAN, scenario : Scenarios]

TerminalPlaces == {"announcing", "listing", "loop", "closing"}
RunPlaces == {"arriving", "lookup", "claiming", "driving", "ran"}
ClerkPlaces == {"flagging", "collecting", "gathering", "removing"}

\* Every variable has its type, and a process that is about a run has one:
\* whatever is deleted, nothing is looked up that was not planned.
TypeOK ==
  /\ campaign \in {"absent", "pending", "running", "completed", "interrupted"}
  /\ flagged \in BOOLEAN
  /\ planned \in 0..N
  /\ maker \in {"idle", "planning", "triggered", "done"}
  /\ row \in [Planned -> Rows]
  /\ baseline \in [Scenarios -> Planned \cup {NoRun}]
  /\ pc \in [Processes ->
       {"idle", "choosing", "writing", "done"} \cup TerminalPlaces \cup RunPlaces \cup ClerkPlaces]
  /\ run \in [Pickers -> Planned \cup {NoRun}]
  /\ todo \in [Terminals \cup Clerks -> SUBSET Planned]
  /\ skip \in [Terminals -> SUBSET Planned]
  /\ met \subseteq HazardKinds
  /\ \A p \in Pickers : pc[p] \in RunPlaces \cup {"choosing", "writing"} => run[p] \in Planned

Unmet(hazards) == met \cap hazards = {}

NobodyIs(errand) == \A c \in Clerks : aim[c] # errand

\* After cancel_campaign nothing waits, and whoever drives the phone for a run of the
\* campaign finds in its row that it has to stop: there is neither a row nor a task from
\* which a run could still start (storage.py:855-865).  The promise rests on no run being
\* removed while it is driven ("driven"), which a cancel itself does to a run that is
\* claimed between its two transactions (storage.py:881-891).
CancelStops ==
  flagged /\ NobodyIs("cancel") /\ Unmet({"shared", "dead", "early", "held", "driven"}) =>
    /\ \A k \in Planned :
         /\ row[k].status # "pending"
         /\ row[k].status = "running" => row[k].cancel
    /\ \A e \in Executors :
         pc[e] = "driving" => row[run[e]].status = "running" /\ row[run[e]].cancel

\* After delete_campaign no run of it is left, and none comes back, although
\* terminals and workers may still be driving (storage.py:931, runner.py:204).
DeletedIsGone ==
  maker = "done" /\ campaign = "absent" /\ Unmet({"early", "held"}) =>
    \A k \in Planned : ~Exists(k)

\* A baseline names a run that exists and that was of the baseline's scenario: compare
\* can read it (storage.py:619, 1018).
BaselineReadable ==
  Unmet({"picked"}) =>
    \A s \in Scenarios :
      baseline[s] # NoRun => Exists(baseline[s]) /\ row[baseline[s]].scenario = s

\* Cancelling leaves what ran exactly as it is (storage.py:858, 865).
NothingMeasuredIsLost ==
  [][\A c \in Clerks, k \in Planned :
       Remove(c, k) /\ aim[c] = "cancel" => row[k].status \in {"pending", "none"}]_vars
=============================================================================
