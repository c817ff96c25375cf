-------------------------- MODULE DeviceClaimsProofs --------------------------
(***************************************************************************)
(* Theorems about DeviceClaims and Dispatch for every set of runs,         *)
(* preflights, devices and processes: what holds under every hazard; the   *)
(* inductive invariant of a deployment without hazards and the exclusion   *)
(* of drivers that follows from it; and that dispatching in steps, with    *)
(* losses and crashes, implements the one step DeviceClaims has for it.    *)
(***************************************************************************)
EXTENDS Dispatch, WellFoundedInduction, TLAPS

-------------------------------------------------------------------------------
(* What the writes do to the tables. *)

\* Every record a transaction writes is a row.
LEMMA RowMakers ==
  /\ Created \in Row /\ Gone \in Row
  /\ \A r \in Row : /\ Started(r) \in Row
                    /\ [r EXCEPT !.cancel = TRUE] \in Row
                    /\ [r EXCEPT !.stamp = "stale"] \in Row
                    /\ \A s \in Status : /\ Updated(r, s) \in Row
                                         /\ [r EXCEPT !.status = s] \in Row
BY DEF Created, Gone, Started, Updated, Row, Status, Stamp, Terminal

\* One row is replaced by a row.
LEMMA PutType ==
  ASSUME row \in [Jobs -> Row], NEW j, NEW r, j \in Jobs => r \in Row, Put(j, r)
  PROVE  row' \in [Jobs -> Row]
BY DEF Put

\* Or nothing is written.
LEMMA PutExistingType ==
  ASSUME row \in [Jobs -> Row], NEW j, NEW r, j \in Jobs => r \in Row,
         PutExisting(j, r)
  PROVE  row' \in [Jobs -> Row]
BY PutType DEF PutExisting

\* The writes of a status keep the tables.
LEMMA FinalWriteType ==
  ASSUME row \in [Jobs -> Row], NEW j, NEW s \in Status,
         UpdateRun(j, s) \/ FinishPreflight(j, s)
  PROVE  row' \in [Jobs -> Row]
<1>1. j \in Jobs => Updated(row[j], s) \in Row /\ [row[j] EXCEPT !.status = s] \in Row
  BY RowMakers
<1> QED BY <1>1, PutExistingType DEF UpdateRun, FinishPreflight

\* So does the release of a table.
LEMMA ReleaseType ==
  ASSUME row \in [Jobs -> Row], ReleaseAbandonedRuns \/ ReleaseAbandonedPreflights
  PROVE  row' \in [Jobs -> Row]
<1>1. ASSUME NEW table, NEW s \in Status, Release(table, s)
      PROVE  row' \in [Jobs -> Row]
  <2>1. \A j \in Jobs : row[j] \in Row /\ [row[j] EXCEPT !.status = s] \in Row
    BY RowMakers
  <2> QED BY <1>1, <2>1 DEF Release
<1>2. "interrupted" \in Status /\ "failed" \in Status
  BY DEF Status, Terminal
<1> QED BY <1>1, <1>2 DEF ReleaseAbandonedRuns, ReleaseAbandonedPreflights

-------------------------------------------------------------------------------
(* Types. *)

\* Every step keeps the types, whatever the hazards.
LEMMA TypeStep ==
  ASSUME TypeOK, [Next]_vars
  PROVE  TypeOK'
<1> USE DEF TypeOK
<1>0. {"completed", "failed", "interrupted", "running"} \subseteq Status
  BY DEF Status, Terminal
<1>1. ASSUME NEW j \in Jobs, Request(j)
      PROVE  TypeOK'
  <2>1. CASE j \in Runs /\ TriggerRun(j)
    BY <2>1, RowMakers, PutType DEF TriggerRun
  <2>2. CASE j \in Runs /\ DispatchRun(j)
    BY <2>2 DEF DispatchRun
  <2>3. CASE j \in Runs /\ DeleteRun(j)
    BY <2>3, RowMakers, PutType DEF DeleteRun
  <2>4. CASE j \in Runs /\ CancelRead(j)
    BY <2>4 DEF CancelRead
  <2>5. CASE j \in Runs /\ CancelFlag(j)
    BY <2>5, RowMakers, PutExistingType DEF CancelFlag
  <2>6. CASE j \in Runs /\ CancelInterrupt(j)
    BY <2>6, <1>0, FinalWriteType DEF CancelInterrupt
  <2>7. CASE j \in Preflights /\ TriggerPreflight(j)
    BY <2>7, RowMakers, PutType DEF TriggerPreflight
  <2>8. CASE j \in Preflights /\ CancelPreflight(j)
    BY <2>8, RowMakers, PutType DEF CancelPreflight
  <2> QED BY <1>1, <2>1, <2>2, <2>3, <2>4, <2>5, <2>6, <2>7, <2>8 DEF Request, Endpoint
<1>2. ASSUME NEW j \in Jobs, Age(j) \/ LoseMessage(j)
      PROVE  TypeOK'
  <2>1. CASE Age(j)
    BY <2>1, RowMakers, PutType DEF Age
  <2>2. CASE LoseMessage(j)
    BY <2>2 DEF LoseMessage
  <2> QED BY <1>2, <2>1, <2>2
<1>3. CASE Poll
  BY <1>3, ReleaseType DEF Poll, PollReleaseRuns, PollReleasePreflights
<1>4. ASSUME NEW w \in Actors, Start(w)
      PROVE  TypeOK'
  <2>1. ASSUME NEW j \in Jobs, TakeTask(w, j)
        PROVE  TypeOK'
    BY <2>1 DEF TakeTask, Begin, Goto, PC
  <2>2. ASSUME NEW j \in Jobs, StartShell(w, j) \/ StartShellPreflight(w, j)
        PROVE  TypeOK'
    BY <2>2 DEF StartShell, StartShellPreflight, Begin, Goto, PC
  <2> QED BY <1>4, <2>1, <2>2 DEF Start
<1>5. ASSUME NEW w \in Actors, Prepare(w)
      PROVE  TypeOK'
  <2>1. CASE TaskLookup(w)
    BY <2>1, RowMakers, PutType DEF TaskLookup, Goto, PC
  <2>2. CASE LookupMissing(w)
    BY <2>2, RowMakers, PutType DEF LookupMissing, Goto, Quit, PC
  <2>3. CASE LookupCancelled(w)
    BY <2>3, <1>0, FinalWriteType DEF LookupCancelled, Goto, Quit, PC
  <2>4. CASE LookupReady(w)
    BY <2>4 DEF LookupReady, Goto, PC
  <2>5. CASE ClaimReleasesRuns(w)
    BY <2>5, ReleaseType DEF ClaimReleasesRuns, Goto, PC
  <2>6. CASE ClaimReleasesPreflights(w)
    BY <2>6, ReleaseType DEF ClaimReleasesPreflights, Goto, PC
  <2>7. CASE Claim(w)
    BY <2>7, RowMakers, PutType DEF Claim, Goto, PC
  <2>8. CASE ClaimRefused(w)
    BY <2>8 DEF ClaimRefused, Goto, Quit, PC
  <2>9. CASE ClaimRefusalIgnored(w)
    BY <2>9 DEF ClaimRefusalIgnored, Goto, PC
  <2> QED BY <1>5, <2>1, <2>2, <2>3, <2>4, <2>5, <2>6, <2>7, <2>8, <2>9 DEF Prepare
<1>6. ASSUME NEW w \in Actors, Drive(w)
      PROVE  TypeOK'
  <2>1. CASE Beat(w)
    BY <2>1, <1>0, FinalWriteType DEF Beat
  <2>2. CASE NoticeCancel(w) \/ LeaveLoop(w) \/ Interrupt(w)
    BY <2>2 DEF NoticeCancel, LeaveLoop, Interrupt, Stop, Goto, PC
  <2>3. CASE Finish(w)
    <3>1. row' \in [Jobs -> Row]
      BY <2>3, <1>0, FinalWriteType DEF Finish
    <3> QED BY <2>3, <3>1 DEF Finish, Quit, Goto, PC
  <2>4. CASE FailRun(w)
    BY <2>4, <1>0, FinalWriteType DEF FailRun, Quit, Goto, PC
  <2>5. CASE Drained(w) \/ StorePreflight(w)
    BY <2>5, <1>0, FinalWriteType DEF Drained, StorePreflight, Quit, Goto, PC
  <2>6. CASE RecordPreflight(w)
    BY <2>6, RowMakers, PutType DEF RecordPreflight, Goto, PC
  <2> QED BY <1>6, <2>1, <2>2, <2>3, <2>4, <2>5, <2>6 DEF Drive
<1>7. ASSUME NEW w \in Actors, Crash(w)
      PROVE  TypeOK'
  BY <1>7 DEF Crash, Quit, Goto, PC
<1>8. CASE UNCHANGED vars
  BY <1>8 DEF vars
<1> QED BY <1>1, <1>2, <1>3, <1>4, <1>5, <1>6, <1>7, <1>8 DEF Next

\* Whatever the deployment does, the tables and the processes keep their shape.
THEOREM TypeCorrect == Spec => []TypeOK
<1>1. Init => TypeOK
  BY DEF Init, TypeOK, Row, Status, Stamp, PC
<1>2. TypeOK /\ [Next]_vars => TypeOK'
  BY TypeStep
<1> QED BY <1>1, <1>2, PTL DEF Spec

-------------------------------------------------------------------------------
(* What each kind of step changes, one id and one process at a time. *)

Only(j) == \A k \in Jobs : k # j => row'[k] = row[k]

Becomes(j, status, cancel, stamp) ==
  /\ Only(j)
  /\ row'[j].status = status /\ row'[j].cancel = cancel /\ row'[j].stamp = stamp

Moves(w, next) ==
  \A v \in Actors : /\ pc'[v] = IF v = w THEN next ELSE pc[v]
                    /\ job'[v] = job[v]

Leaves(w) ==
  \A v \in Actors : /\ pc'[v] = IF v = w THEN "idle" ELSE pc[v]
                    /\ job'[v] = IF v = w THEN NoJob ELSE job[v]

\* What each write that needs no existing row does to the one row it names.
LEMMA PutEffect ==
  ASSUME TypeOK, NEW j \in Jobs
  PROVE  /\ Put(j, Created) => Becomes(j, "pending", FALSE, "none")
         /\ Put(j, Gone) => Becomes(j, "deleted", FALSE, "none")
         /\ Put(j, Started(row[j])) =>
              Becomes(j, "running", row[j].cancel,
                      IF row[j].stamp = "none" THEN "fresh" ELSE row[j].stamp)
         /\ Put(j, [row[j] EXCEPT !.cancel = TRUE]) =>
              Becomes(j, row[j].status, TRUE, row[j].stamp)
         /\ Put(j, [row[j] EXCEPT !.stamp = "stale"]) =>
              Becomes(j, row[j].status, row[j].cancel, "stale")
<1>1. row \in [Jobs -> Row] /\ row[j] \in Row
  BY DEF TypeOK
<1>2. \A r : Put(j, r) => Only(j) /\ row'[j] = r
  BY <1>1 DEF Put, Only
<1>3. ASSUME Put(j, Created) PROVE Becomes(j, "pending", FALSE, "none")
  BY <1>2, <1>3 DEF Becomes, Created
<1>4. ASSUME Put(j, Gone) PROVE Becomes(j, "deleted", FALSE, "none")
  BY <1>2, <1>4 DEF Becomes, Gone
<1>5. ASSUME Put(j, Started(row[j]))
      PROVE  Becomes(j, "running", row[j].cancel,
                     IF row[j].stamp = "none" THEN "fresh" ELSE row[j].stamp)
  BY <1>1, <1>2, <1>5 DEF Becomes, Started, Row
<1>6. ASSUME Put(j, [row[j] EXCEPT !.cancel = TRUE])
      PROVE  Becomes(j, row[j].status, TRUE, row[j].stamp)
  BY <1>1, <1>2, <1>6 DEF Becomes, Row
<1>7. ASSUME Put(j, [row[j] EXCEPT !.stamp = "stale"])
      PROVE  Becomes(j, row[j].status, row[j].cancel, "stale")
  BY <1>1, <1>2, <1>7 DEF Becomes, Row
<1> QED BY <1>3, <1>4, <1>5, <1>6, <1>7

\* What a status write does, if the row exists.
LEMMA FinalWriteEffect ==
  ASSUME TypeOK, NEW j \in Jobs, NEW s
  PROVE  /\ UpdateRun(j, s) =>
              IF Exists(j) THEN Becomes(j, s, row[j].cancel, "fresh") ELSE row' = row
         /\ FinishPreflight(j, s) =>
              IF Exists(j) THEN Becomes(j, s, row[j].cancel, row[j].stamp)
                           ELSE row' = row
<1>1. row \in [Jobs -> Row] /\ row[j] \in Row
  BY DEF TypeOK
<1>2. \A r : Put(j, r) => Only(j) /\ row'[j] = r
  BY <1>1 DEF Put, Only
<1>3. Put(j, Updated(row[j], s)) => Becomes(j, s, row[j].cancel, "fresh")
  BY <1>1, <1>2 DEF Becomes, Updated, Row
<1>4. Put(j, [row[j] EXCEPT !.status = s]) =>
        Becomes(j, s, row[j].cancel, row[j].stamp)
  BY <1>1, <1>2 DEF Becomes, Row
<1> QED BY <1>3, <1>4 DEF UpdateRun, FinishPreflight, PutExisting

\* A release changes the status of abandoned rows and nothing else.
LEMMA ReleaseEffect ==
  ASSUME TypeOK, NEW table, NEW s, Release(table, s), NEW j \in Jobs
  PROVE  /\ row'[j].cancel = row[j].cancel /\ row'[j].stamp = row[j].stamp
         /\ row'[j].status = IF j \in table /\ Abandoned(j) THEN s ELSE row[j].status
<1>1. row[j] \in Row
  BY DEF TypeOK
<1> QED BY <1>1 DEF Release, Row

Begins(w, j, next) ==
  \A v \in Actors : /\ pc'[v] = IF v = w THEN next ELSE pc[v]
                    /\ job'[v] = IF v = w THEN j ELSE job[v]

\* How processes move.
LEMMA ProcessEffect ==
  ASSUME TypeOK, NEW w \in Actors
  PROVE  /\ Quit(w) => Leaves(w)
         /\ \A j, next : Begin(w, j, next) => Begins(w, j, next)
         /\ \A next : Goto(w, next) /\ UNCHANGED job => Moves(w, next)
BY DEF TypeOK, Quit, Begin, Goto, Leaves, Begins, Moves

-------------------------------------------------------------------------------
(* A running row can always be released, in any deployment. *)

\* A process has an id exactly while it is at work.
Busy == \A w \in Actors : pc[w] = "idle" <=> job[w] = NoJob

\* A process takes an id when it begins and drops it when it quits.
LEMMA BusyStep ==
  ASSUME TypeOK, Busy, [Next]_vars
  PROVE  Busy'
<1>1. ASSUME NEW w \in Actors, NEW next \in PC \ {"idle"}, pc[w] # "idle", Moves(w, next)
      PROVE  Busy'
  BY <1>1 DEF Busy, Moves
<1>2. ASSUME NEW w \in Actors, Leaves(w)
      PROVE  Busy'
  BY <1>2 DEF Busy, Leaves
<1>3. ASSUME NEW w \in Actors, NEW j \in Jobs, NEW next \in PC \ {"idle"}, Begins(w, j, next)
      PROVE  Busy'
  BY <1>3, NoJobAssumption DEF Busy, Begins
<1>4. UNCHANGED <<pc, job>> => Busy'
  BY DEF Busy
<1>5. ASSUME NEW j \in Jobs, Request(j) \/ Age(j) \/ LoseMessage(j)
      PROVE  Busy'
  BY <1>4, <1>5
     DEF Request, Endpoint, Age, LoseMessage, TriggerRun, DispatchRun, DeleteRun,
         CancelRead, CancelFlag, CancelInterrupt, TriggerPreflight, CancelPreflight
<1>6. ASSUME NEW w \in Actors, Start(w) \/ Crash(w)
      PROVE  Busy'
  BY <1>2, <1>3, <1>6, ProcessEffect
     DEF Start, Crash, TakeTask, StartShell, StartShellPreflight, PC
<1>7. ASSUME NEW w \in Actors, Prepare(w)
      PROVE  Busy'
  BY <1>1, <1>2, <1>7, ProcessEffect
     DEF Prepare, TaskLookup, LookupMissing, LookupCancelled, LookupReady,
         ClaimReleasesRuns, ClaimReleasesPreflights, Claim, ClaimRefused,
         ClaimRefusalIgnored, PC
<1>8. ASSUME NEW w \in Actors, Drive(w)
      PROVE  Busy'
  BY <1>1, <1>2, <1>4, <1>8, ProcessEffect
     DEF Drive, Beat, NoticeCancel, LeaveLoop, Interrupt, Stop, Finish, FailRun,
         Drained, RecordPreflight, StorePreflight, Stopping, PC
<1> QED BY <1>4, <1>5, <1>6, <1>7, <1>8
        DEF Next, vars, Poll, PollReleaseRuns, PollReleasePreflights

\* Every write of `running' leaves a stamp, and nothing erases one.
LEMMA ReclaimableStep ==
  ASSUME TypeOK, Busy, RunningIsReclaimable, [Next]_vars
  PROVE  RunningIsReclaimable'
<1> DEFINE Safe(j) == row'[j].status = "running" => row'[j].stamp # "none"
<1>1. \A j \in Jobs : row[j].status = "running" => row[j].stamp # "none"
  BY DEF RunningIsReclaimable
<1>2. \A j \in Jobs : Only(j) /\ Safe(j) => RunningIsReclaimable'
  BY <1>1 DEF Only, RunningIsReclaimable
<1>3. UNCHANGED row => RunningIsReclaimable'
  BY <1>1 DEF RunningIsReclaimable
<1>4. ASSUME ReleaseAbandonedRuns \/ ReleaseAbandonedPreflights
      PROVE  RunningIsReclaimable'
  BY <1>1, <1>4, ReleaseEffect
     DEF ReleaseAbandonedRuns, ReleaseAbandonedPreflights, RunningIsReclaimable
<1>5. ASSUME NEW j \in Jobs, NEW s, UpdateRun(j, s)
      PROVE  RunningIsReclaimable'
  BY <1>2, <1>3, <1>5, FinalWriteEffect DEF Becomes
<1>6. ASSUME NEW j \in Jobs, NEW s \in Terminal, FinishPreflight(j, s)
      PROVE  RunningIsReclaimable'
  BY <1>2, <1>3, <1>6, FinalWriteEffect DEF Becomes, Terminal
<1>7. ASSUME NEW j \in Jobs, Request(j) \/ Age(j) \/ LoseMessage(j)
      PROVE  RunningIsReclaimable'
  <2>1. CASE TriggerRun(j) \/ DeleteRun(j) \/ TriggerPreflight(j)
    BY <2>1, <1>2, PutEffect DEF TriggerRun, DeleteRun, TriggerPreflight, Becomes
  <2>2. CASE CancelFlag(j) \/ CancelPreflight(j) \/ Age(j)
    BY <2>2, <1>1, <1>2, <1>3, PutEffect
       DEF CancelFlag, CancelPreflight, Age, PutExisting, Becomes
  <2>3. CASE DispatchRun(j) \/ CancelRead(j) \/ LoseMessage(j)
    BY <2>3, <1>3 DEF DispatchRun, CancelRead, LoseMessage
  <2>4. CASE CancelInterrupt(j)
    BY <2>4, <1>5 DEF CancelInterrupt
  <2> QED BY <1>7, <2>1, <2>2, <2>3, <2>4 DEF Request, Endpoint
<1>8. ASSUME NEW w \in Actors, Start(w) \/ Crash(w)
      PROVE  RunningIsReclaimable'
  BY <1>8, <1>3 DEF Start, Crash, TakeTask, StartShell, StartShellPreflight
<1>9. ASSUME NEW w \in Actors, Prepare(w) \/ Drive(w)
      PROVE  RunningIsReclaimable'
  <2>0. job[w] \in Jobs
    BY <1>9 DEF TypeOK, Busy, Prepare, Drive, TaskLookup, LookupMissing,
       LookupCancelled, LookupReady, ClaimReleasesRuns, ClaimReleasesPreflights,
       Claim, ClaimRefused, ClaimRefusalIgnored, Beat, NoticeCancel, LeaveLoop,
       Interrupt, Finish, FailRun, Drained, RecordPreflight, StorePreflight, Stopping
  <2>1. CASE TaskLookup(w) \/ LookupMissing(w) \/ RecordPreflight(w)
    BY <2>1, <1>2, <1>3, <2>0, PutEffect
       DEF TaskLookup, LookupMissing, RecordPreflight, Becomes
  <2>2. CASE LookupCancelled(w) \/ Beat(w) \/ FailRun(w)
    BY <2>2, <1>5, <2>0 DEF LookupCancelled, Beat, FailRun
  <2>3. CASE ClaimReleasesRuns(w) \/ ClaimReleasesPreflights(w)
    BY <2>3, <1>4 DEF ClaimReleasesRuns, ClaimReleasesPreflights
  <2>4. CASE Claim(w)
    BY <2>4, <1>2, <2>0, PutEffect DEF Claim, Becomes
  <2>5. CASE Finish(w) \/ StorePreflight(w)
    BY <2>5, <1>5, <1>6, <2>0 DEF Finish, StorePreflight, Terminal
  <2>6. CASE UNCHANGED row
    BY <2>6, <1>3
  <2> QED BY <1>9, <2>1, <2>2, <2>3, <2>4, <2>5, <2>6
          DEF Prepare, Drive, LookupReady, ClaimRefused, ClaimRefusalIgnored,
              NoticeCancel, LeaveLoop, Interrupt, Stop, Drained
<1>10. UNCHANGED vars => RunningIsReclaimable'
  BY <1>3 DEF vars
<1> QED BY <1>4, <1>7, <1>8, <1>9, <1>10
        DEF Next, Poll, PollReleaseRuns, PollReleasePreflights

\* Whoever writes `running' writes a stamp with it, so the release of an
\* abandoned row never meets the NULL it could not compare.
THEOREM Reclaimable == Spec => []RunningIsReclaimable
<1>1. Init => Busy /\ RunningIsReclaimable
  BY DEF Init, Busy, RunningIsReclaimable
<1>2. TypeOK /\ Busy /\ RunningIsReclaimable /\ [Next]_vars
        => Busy' /\ RunningIsReclaimable'
  BY BusyStep, ReclaimableStep
<1> QED BY <1>1, <1>2, TypeCorrect, PTL DEF Spec

-------------------------------------------------------------------------------
(* The inductive invariant, one lemma for each step. *)

\* Nobody works on a row a release takes, so a release disturbs nobody.
Released(rows) ==
  \A j \in Jobs :
    /\ rows[j].cancel = row[j].cancel /\ rows[j].stamp = row[j].stamp
    /\ \/ rows[j].status = row[j].status
       \/ /\ row[j].status = "running" /\ ~Working(j) /\ tasks[j] = 0
          /\ rows[j].status \in {"interrupted", "failed"}

\* What is abandoned has neither a process nor a message.
LEMMA ReleasedStep ==
  ASSUME ClaimsInv,
         Release(Runs, "interrupted") \/ Release(Preflights, "failed")
  PROVE  Released(row')
<1> USE DEF ClaimsInv
<1>1. ASSUME NEW j \in Jobs, Abandoned(j)
      PROVE  ~Working(j) /\ tasks[j] = 0
  <2>1. tasks[j] = 0
    BY <1>1 DEF Abandoned, OneHolder, WaitingIsUnstarted, Unstarted
  <2>2. ASSUME NEW w \in Actors, job[w] = j
        PROVE  FALSE
    <3>1. pc[w] # "idle"
      BY <2>2, NoJobAssumption DEF OneHolder
    <3>2. Early(w) \/ Claiming(w) \/ Driving(w)
      BY <3>1 DEF OneHolder, TypeOK, PC, Early, Claiming, Driving, Stopping
    <3> QED BY <1>1, <2>2, <3>2
            DEF Abandoned, WaitingIsUnstarted, Unstarted, ClaimFromFreshRow,
                DriverOwnsFreshRow
  <2> QED BY <2>1, <2>2 DEF Working
<1>2. \A j \in Jobs : Abandoned(j) => row[j].status = "running"
  BY DEF Abandoned
<1> QED BY <1>1, <1>2, ReleaseEffect DEF Released

\* A process at work has an id nobody else has and no message can hand out.
LEMMA AtWork ==
  ASSUME ClaimsInv
  PROVE  \A w \in Actors : pc[w] # "idle" =>
           job[w] \in Jobs /\ Working(job[w]) /\ tasks[job[w]] = 0
<1>1. \A w \in Actors : pc[w] # "idle" => job[w] \in Jobs /\ Working(job[w])
  BY DEF ClaimsInv, OneHolder, TypeOK, Working
<1> QED BY <1>1 DEF ClaimsInv, OneHolder

\* Without `autoperf preflight' no terminal holds a preflight.
LEMMA ClaimsNoRecorder ==
  ASSUME ClaimsInv, NEW w \in Actors
  PROVE  ~Recorder(w)
BY ClaimsAssumption, NoJobAssumption DEF ClaimsInv, OneHolder, Recorder, Jobs

\* A new run's row is pending and unstamped, and nobody has its id yet.
LEMMA TriggerRunKeeps ==
  ASSUME Hazards = {}, ClaimsInv, TypeOK', NEW j \in Runs, TriggerRun(j)
  PROVE  ClaimsInv'
<1> USE DEF ClaimsInv
<1>1. j \in Jobs
  BY DEF Jobs
<1>2. Becomes(j, "pending", FALSE, "none") /\ UNCHANGED <<canceller, tasks, pc, job>>
  BY <1>1, PutEffect DEF TriggerRun
<1>3. row[j].status = "absent" /\ ~Working(j)
  BY DEF TriggerRun
<1>4. OneHolder'
  BY <1>1, <1>2, <1>3, NoJobAssumption DEF OneHolder, Working, Becomes,
     Only, TypeOK
<1>5. WaitingIsUnstarted'
  BY <1>1, <1>2, <1>3, NoJobAssumption DEF WaitingIsUnstarted, Unstarted,
     OneHolder, Early, Working, Becomes, Only, TypeOK
<1>6. TaskHadRow'
  BY <1>1, <1>2, <1>3, NoJobAssumption DEF TaskHadRow, OneHolder, Actors,
     Becomes, Only, TypeOK
<1>7. ClaimFromFreshRow'
  BY <1>1, <1>2, <1>3, NoJobAssumption DEF ClaimFromFreshRow, Unstarted,
     OneHolder, Claiming, Becomes, Only, TypeOK
<1>8. PendingIsUnstamped'
  BY <1>1, <1>2, <1>3, NoJobAssumption DEF PendingIsUnstamped, Becomes,
     Only, TypeOK
<1>9. DriverOwnsFreshRow'
  BY <1>1, <1>2, <1>3, NoJobAssumption DEF DriverOwnsFreshRow, OneHolder,
     Driving, Stopping, Becomes, Only, TypeOK
<1>10. CancellerMeetsNoDriver'
  BY <1>1, <1>2, <1>3, NoJobAssumption DEF CancellerMeetsNoDriver, Jobs,
     Becomes, Only, TypeOK
<1>11. OneRunningRow'
  BY <1>1, <1>2, <1>3, NoJobAssumption DEF OneRunningRow, Becomes, Only,
     TypeOK
<1> QED BY <1>4, <1>5, <1>6, <1>7, <1>8, <1>9, <1>10, <1>11

\* A message for a pending run that nobody has.
LEMMA DispatchRunKeeps ==
  ASSUME Hazards = {}, ClaimsInv, TypeOK', NEW j \in Runs, DispatchRun(j)
  PROVE  ClaimsInv'
<1> USE DEF ClaimsInv
<1>1. j \in Jobs
  BY DEF Jobs
<1>2. tasks[j] = 0
  BY <1>1 DEF DispatchRun, May, Outstanding, OneHolder
<1>3. tasks' = [tasks EXCEPT ![j] = 1]
  BY <1>1, <1>2 DEF DispatchRun
<1>4. ~Working(j) /\ Unstarted(j) /\ row[j].status # "absent"
  BY DEF DispatchRun, May, Outstanding
<1>5. UNCHANGED <<row, canceller, pc, job>>
  BY DEF DispatchRun
<1>6. OneHolder'
  BY <1>1, <1>2, <1>3, <1>4, <1>5, NoJobAssumption DEF OneHolder, Working,
     Working, TypeOK
<1>7. WaitingIsUnstarted'
  BY <1>1, <1>2, <1>3, <1>4, <1>5, NoJobAssumption DEF WaitingIsUnstarted,
     Unstarted, OneHolder, Early, Working, Working, TypeOK
<1>8. TaskHadRow'
  BY <1>1, <1>2, <1>3, <1>4, <1>5, NoJobAssumption DEF TaskHadRow,
     OneHolder, Actors, Working, TypeOK
<1>9. ClaimFromFreshRow'
  BY <1>1, <1>2, <1>3, <1>4, <1>5, NoJobAssumption DEF ClaimFromFreshRow,
     Unstarted, OneHolder, Claiming, Working, TypeOK
<1>10. PendingIsUnstamped'
  BY <1>1, <1>2, <1>3, <1>4, <1>5, NoJobAssumption DEF PendingIsUnstamped,
     Working, TypeOK
<1>11. DriverOwnsFreshRow'
  BY <1>1, <1>2, <1>3, <1>4, <1>5, NoJobAssumption DEF DriverOwnsFreshRow,
     OneHolder, Driving, Stopping, Working, TypeOK
<1>12. CancellerMeetsNoDriver'
  BY <1>1, <1>2, <1>3, <1>4, <1>5, NoJobAssumption DEF
     CancellerMeetsNoDriver, Jobs, Working, TypeOK
<1>13. OneRunningRow'
  BY <1>1, <1>2, <1>3, <1>4, <1>5, NoJobAssumption DEF OneRunningRow,
     Working, TypeOK
<1> QED BY <1>6, <1>7, <1>8, <1>9, <1>10, <1>11, <1>12, <1>13

\* Only rows that are not running go away, so no driver loses its row.
LEMMA DeleteRunKeeps ==
  ASSUME Hazards = {}, ClaimsInv, TypeOK', NEW j \in Runs, DeleteRun(j)
  PROVE  ClaimsInv'
<1> USE DEF ClaimsInv
<1>1. j \in Jobs
  BY DEF Jobs
<1>2. Becomes(j, "deleted", FALSE, "none") /\ UNCHANGED <<canceller, tasks, pc, job>>
  BY <1>1, PutEffect DEF DeleteRun
<1>3. Exists(j) /\ row[j].status # "running" /\ canceller[j] \in {"idle", "sawRunning"}
  BY DEF DeleteRun, May, NoCancelAtWork
<1>4. OneHolder'
  BY <1>1, <1>2, <1>3, NoJobAssumption DEF OneHolder, Working, Becomes,
     Only, Exists, TypeOK
<1>5. WaitingIsUnstarted'
  BY <1>1, <1>2, <1>3, NoJobAssumption DEF WaitingIsUnstarted, Unstarted,
     OneHolder, Early, Working, Becomes, Only, Exists, TypeOK
<1>6. TaskHadRow'
  BY <1>1, <1>2, <1>3, NoJobAssumption DEF TaskHadRow, OneHolder, Actors,
     Becomes, Only, Exists, TypeOK
<1>7. ClaimFromFreshRow'
  BY <1>1, <1>2, <1>3, NoJobAssumption DEF ClaimFromFreshRow, Unstarted,
     OneHolder, Claiming, Becomes, Only, Exists, TypeOK
<1>8. PendingIsUnstamped'
  BY <1>1, <1>2, <1>3, NoJobAssumption DEF PendingIsUnstamped, Becomes,
     Only, Exists, TypeOK
<1>9. DriverOwnsFreshRow'
  BY <1>1, <1>2, <1>3, NoJobAssumption DEF DriverOwnsFreshRow, OneHolder,
     Driving, Stopping, Becomes, Only, Exists, TypeOK
<1>10. CancellerMeetsNoDriver'
  BY <1>1, <1>2, <1>3, NoJobAssumption DEF CancellerMeetsNoDriver, Jobs,
     Becomes, Only, Exists, TypeOK
<1>11. OneRunningRow'
  BY <1>1, <1>2, <1>3, NoJobAssumption DEF OneRunningRow, Becomes, Only,
     Exists, TypeOK
<1> QED BY <1>4, <1>5, <1>6, <1>7, <1>8, <1>9, <1>10, <1>11

\* A cancel notes what it saw; the row is as it was.
LEMMA CancelReadKeeps ==
  ASSUME Hazards = {}, ClaimsInv, TypeOK', NEW j \in Runs, CancelRead(j)
  PROVE  ClaimsInv'
<1> USE DEF ClaimsInv
<1>1. j \in Jobs
  BY DEF Jobs
<1>2. UNCHANGED <<row, tasks, pc, job>>
  BY DEF CancelRead
<1>3. \A r \in Runs :
          \/ canceller'[r] \in {canceller[r], "sawRunning"}
          \/ canceller'[r] = "sawPending" /\ row[r].status = "pending"
  BY DEF CancelRead, TypeOK
<1>4. OneHolder'
  BY <1>1, <1>2, <1>3, NoJobAssumption DEF OneHolder, Working, Working,
     TypeOK
<1>5. WaitingIsUnstarted'
  BY <1>1, <1>2, <1>3, NoJobAssumption DEF WaitingIsUnstarted, Unstarted,
     OneHolder, Early, Working, Working, TypeOK
<1>6. TaskHadRow'
  BY <1>1, <1>2, <1>3, NoJobAssumption DEF TaskHadRow, OneHolder, Actors,
     Working, TypeOK
<1>7. ClaimFromFreshRow'
  BY <1>1, <1>2, <1>3, NoJobAssumption DEF ClaimFromFreshRow, Unstarted,
     OneHolder, Claiming, Working, TypeOK
<1>8. PendingIsUnstamped'
  BY <1>1, <1>2, <1>3, NoJobAssumption DEF PendingIsUnstamped, Working,
     TypeOK
<1>9. DriverOwnsFreshRow'
  BY <1>1, <1>2, <1>3, NoJobAssumption DEF DriverOwnsFreshRow, OneHolder,
     Driving, Stopping, Working, TypeOK
<1>10. CancellerMeetsNoDriver'
  BY <1>1, <1>2, <1>3, NoJobAssumption DEF CancellerMeetsNoDriver, Jobs,
     Working, TypeOK
<1>11. OneRunningRow'
  BY <1>1, <1>2, <1>3, NoJobAssumption DEF OneRunningRow, Working, TypeOK
<1> QED BY <1>4, <1>5, <1>6, <1>7, <1>8, <1>9, <1>10, <1>11

\* The flag changes no status, whatever became of the row since it was read.
LEMMA CancelFlagKeeps ==
  ASSUME Hazards = {}, ClaimsInv, TypeOK', NEW j \in Runs, CancelFlag(j)
  PROVE  ClaimsInv'
<1> USE DEF ClaimsInv
<1>1. j \in Jobs
  BY DEF Jobs
<1>2. IF Exists(j) THEN Becomes(j, row[j].status, TRUE, row[j].stamp)
                     ELSE row' = row
  BY <1>1, PutEffect DEF CancelFlag, PutExisting
<1>3. canceller' = [canceller EXCEPT ![j] = IF canceller[j] = "sawPending"
                                              THEN "flagged" ELSE "idle"]
  BY DEF CancelFlag
<1>4. UNCHANGED <<tasks, pc, job>>
  BY DEF CancelFlag
<1>5. OneHolder'
  BY <1>1, <1>2, <1>3, <1>4, NoJobAssumption DEF OneHolder, Working,
     Becomes, Only, Exists, TypeOK
<1>6. WaitingIsUnstarted'
  BY <1>1, <1>2, <1>3, <1>4, NoJobAssumption DEF WaitingIsUnstarted,
     Unstarted, OneHolder, Early, Working, Becomes, Only, Exists, TypeOK
<1>7. TaskHadRow'
  BY <1>1, <1>2, <1>3, <1>4, NoJobAssumption DEF TaskHadRow, OneHolder,
     Actors, Becomes, Only, Exists, TypeOK
<1>8. ClaimFromFreshRow'
  BY <1>1, <1>2, <1>3, <1>4, NoJobAssumption DEF ClaimFromFreshRow,
     Unstarted, OneHolder, Claiming, Becomes, Only, Exists, TypeOK
<1>9. PendingIsUnstamped'
  BY <1>1, <1>2, <1>3, <1>4, NoJobAssumption DEF PendingIsUnstamped,
     Becomes, Only, Exists, TypeOK
<1>10. DriverOwnsFreshRow'
  BY <1>1, <1>2, <1>3, <1>4, NoJobAssumption DEF DriverOwnsFreshRow,
     OneHolder, Driving, Stopping, Becomes, Only, Exists, TypeOK
<1>11. CancellerMeetsNoDriver'
  BY <1>1, <1>2, <1>3, <1>4, NoJobAssumption DEF CancellerMeetsNoDriver,
     Jobs, Becomes, Only, Exists, TypeOK
<1>12. OneRunningRow'
  BY <1>1, <1>2, <1>3, <1>4, NoJobAssumption DEF OneRunningRow, Becomes,
     Only, Exists, TypeOK
<1> QED BY <1>5, <1>6, <1>7, <1>8, <1>9, <1>10, <1>11, <1>12

\* The run is still pending or interrupted when cancel_run closes it.
LEMMA CancelInterruptKeeps ==
  ASSUME Hazards = {}, ClaimsInv, TypeOK', NEW j \in Runs, CancelInterrupt(j)
  PROVE  ClaimsInv'
<1> USE DEF ClaimsInv
<1>1. j \in Jobs
  BY DEF Jobs
<1>2. row[j].status \in {"pending", "interrupted"} /\ row[j].cancel /\ canceller[j] = "flagged"
  BY DEF CancelInterrupt, CancellerMeetsNoDriver
<1>3. Becomes(j, "interrupted", TRUE, "fresh")
  BY <1>1, <1>2, FinalWriteEffect DEF CancelInterrupt, Exists, Becomes
<1>4. canceller' = [canceller EXCEPT ![j] = "idle"] /\ UNCHANGED <<tasks, pc, job>>
  BY DEF CancelInterrupt
<1>5. OneHolder'
  BY <1>1, <1>2, <1>3, <1>4, NoJobAssumption DEF OneHolder, Working,
     Becomes, Only, TypeOK
<1>6. WaitingIsUnstarted'
  BY <1>1, <1>2, <1>3, <1>4, NoJobAssumption DEF WaitingIsUnstarted,
     Unstarted, OneHolder, Early, Working, Becomes, Only, TypeOK
<1>7. TaskHadRow'
  BY <1>1, <1>2, <1>3, <1>4, NoJobAssumption DEF TaskHadRow, OneHolder,
     Actors, Becomes, Only, TypeOK
<1>8. ClaimFromFreshRow'
  BY <1>1, <1>2, <1>3, <1>4, NoJobAssumption DEF ClaimFromFreshRow,
     Unstarted, OneHolder, Claiming, Becomes, Only, TypeOK
<1>9. PendingIsUnstamped'
  BY <1>1, <1>2, <1>3, <1>4, NoJobAssumption DEF PendingIsUnstamped,
     Becomes, Only, TypeOK
<1>10. DriverOwnsFreshRow'
  BY <1>1, <1>2, <1>3, <1>4, NoJobAssumption DEF DriverOwnsFreshRow,
     OneHolder, Driving, Stopping, Becomes, Only, TypeOK
<1>11. CancellerMeetsNoDriver'
  BY <1>1, <1>2, <1>3, <1>4, NoJobAssumption DEF CancellerMeetsNoDriver,
     Jobs, Becomes, Only, TypeOK
<1>12. OneRunningRow'
  BY <1>1, <1>2, <1>3, <1>4, NoJobAssumption DEF OneRunningRow, Becomes,
     Only, TypeOK
<1> QED BY <1>5, <1>6, <1>7, <1>8, <1>9, <1>10, <1>11, <1>12

\* A new preflight's row is pending, with the one message for it.
LEMMA TriggerPreflightKeeps ==
  ASSUME Hazards = {}, ClaimsInv, TypeOK', NEW j \in Preflights, TriggerPreflight(j)
  PROVE  ClaimsInv'
<1> USE DEF ClaimsInv
<1>1. j \in Jobs
  BY DEF Jobs
<1>2. Becomes(j, "pending", FALSE, "none") /\ UNCHANGED <<canceller, pc, job>>
  BY <1>1, PutEffect DEF TriggerPreflight
<1>3. row[j].status = "absent" /\ ~Working(j)
  BY DEF TriggerPreflight
<1>4. tasks[j] = 0
  BY <1>1, <1>3 DEF OneHolder, TaskHadRow
<1>5. tasks' = [tasks EXCEPT ![j] = 1]
  BY <1>1, <1>4 DEF TriggerPreflight
<1>6. OneHolder'
  BY <1>1, <1>2, <1>3, <1>4, <1>5, NoJobAssumption DEF OneHolder, Working,
     Becomes, Only, TypeOK
<1>7. WaitingIsUnstarted'
  BY <1>1, <1>2, <1>3, <1>4, <1>5, NoJobAssumption DEF WaitingIsUnstarted,
     Unstarted, OneHolder, Early, Working, Becomes, Only, TypeOK
<1>8. TaskHadRow'
  BY <1>1, <1>2, <1>3, <1>4, <1>5, NoJobAssumption DEF TaskHadRow,
     OneHolder, Actors, Becomes, Only, TypeOK
<1>9. ClaimFromFreshRow'
  BY <1>1, <1>2, <1>3, <1>4, <1>5, NoJobAssumption DEF ClaimFromFreshRow,
     Unstarted, OneHolder, Claiming, Becomes, Only, TypeOK
<1>10. PendingIsUnstamped'
  BY <1>1, <1>2, <1>3, <1>4, <1>5, NoJobAssumption DEF PendingIsUnstamped,
     Becomes, Only, TypeOK
<1>11. DriverOwnsFreshRow'
  BY <1>1, <1>2, <1>3, <1>4, <1>5, NoJobAssumption DEF DriverOwnsFreshRow,
     OneHolder, Driving, Stopping, Becomes, Only, TypeOK
<1>12. CancellerMeetsNoDriver'
  BY <1>1, <1>2, <1>3, <1>4, <1>5, NoJobAssumption DEF
     CancellerMeetsNoDriver, Jobs, Becomes, Only, TypeOK
<1>13. OneRunningRow'
  BY <1>1, <1>2, <1>3, <1>4, <1>5, NoJobAssumption DEF OneRunningRow,
     Becomes, Only, TypeOK
<1> QED BY <1>6, <1>7, <1>8, <1>9, <1>10, <1>11, <1>12, <1>13

\* The flag of a preflight is read by its driver only.
LEMMA CancelPreflightKeeps ==
  ASSUME Hazards = {}, ClaimsInv, TypeOK', NEW j \in Preflights, CancelPreflight(j)
  PROVE  ClaimsInv'
<1> USE DEF ClaimsInv
<1>1. j \in Jobs
  BY DEF Jobs
<1>2. Becomes(j, row[j].status, TRUE, row[j].stamp) /\ UNCHANGED <<canceller, tasks, pc, job>>
  BY <1>1, PutEffect DEF CancelPreflight
<1>3. row[j].status \in {"pending", "running"} /\ j \notin Runs
  BY ClaimsAssumption DEF CancelPreflight
<1>4. OneHolder'
  BY <1>1, <1>2, <1>3, NoJobAssumption DEF OneHolder, Working, Becomes,
     Only, TypeOK
<1>5. WaitingIsUnstarted'
  BY <1>1, <1>2, <1>3, NoJobAssumption DEF WaitingIsUnstarted, Unstarted,
     OneHolder, Early, Working, Becomes, Only, TypeOK
<1>6. TaskHadRow'
  BY <1>1, <1>2, <1>3, NoJobAssumption DEF TaskHadRow, OneHolder, Actors,
     Becomes, Only, TypeOK
<1>7. ClaimFromFreshRow'
  BY <1>1, <1>2, <1>3, NoJobAssumption DEF ClaimFromFreshRow, Unstarted,
     OneHolder, Claiming, Becomes, Only, TypeOK
<1>8. PendingIsUnstamped'
  BY <1>1, <1>2, <1>3, NoJobAssumption DEF PendingIsUnstamped, Becomes,
     Only, TypeOK
<1>9. DriverOwnsFreshRow'
  BY <1>1, <1>2, <1>3, NoJobAssumption DEF DriverOwnsFreshRow, OneHolder,
     Driving, Stopping, Becomes, Only, TypeOK
<1>10. CancellerMeetsNoDriver'
  BY <1>1, <1>2, <1>3, NoJobAssumption DEF CancellerMeetsNoDriver, Jobs,
     Becomes, Only, TypeOK
<1>11. OneRunningRow'
  BY <1>1, <1>2, <1>3, NoJobAssumption DEF OneRunningRow, Becomes, Only,
     TypeOK
<1> QED BY <1>4, <1>5, <1>6, <1>7, <1>8, <1>9, <1>10, <1>11

\* Without silence only rows nobody works on grow old.
LEMMA AgeKeeps ==
  ASSUME Hazards = {}, ClaimsInv, TypeOK', NEW j \in Jobs, Age(j)
  PROVE  ClaimsInv'
<1> USE DEF ClaimsInv
<1>1. Becomes(j, row[j].status, row[j].cancel, "stale") /\ UNCHANGED <<canceller, tasks, pc, job>>
  BY PutEffect DEF Age
<1>2. ~Working(j) /\ row[j].stamp = "fresh"
  BY DEF Age, May
<1>3. \A v \in Actors : pc[v] # "idle" => job[v] \in Jobs /\ Working(job[v])
  BY AtWork
<1>4. OneHolder'
  BY <1>1, <1>2, <1>3, NoJobAssumption DEF OneHolder, Working, Becomes,
     Only, TypeOK
<1>5. WaitingIsUnstarted'
  BY <1>1, <1>2, <1>3, NoJobAssumption DEF WaitingIsUnstarted, Unstarted,
     OneHolder, Early, Working, Becomes, Only, TypeOK
<1>6. TaskHadRow'
  BY <1>1, <1>2, <1>3, NoJobAssumption DEF TaskHadRow, OneHolder, Actors,
     Becomes, Only, TypeOK
<1>7. ClaimFromFreshRow'
  BY <1>1, <1>2, <1>3, NoJobAssumption DEF ClaimFromFreshRow, Unstarted,
     OneHolder, Claiming, Becomes, Only, TypeOK
<1>8. PendingIsUnstamped'
  BY <1>1, <1>2, <1>3, NoJobAssumption DEF PendingIsUnstamped, Becomes,
     Only, TypeOK
<1>9. DriverOwnsFreshRow'
  BY <1>1, <1>2, <1>3, NoJobAssumption DEF DriverOwnsFreshRow, OneHolder,
     Driving, Stopping, Becomes, Only, TypeOK
<1>10. CancellerMeetsNoDriver'
  BY <1>1, <1>2, <1>3, NoJobAssumption DEF CancellerMeetsNoDriver, Jobs,
     Becomes, Only, TypeOK
<1>11. OneRunningRow'
  BY <1>1, <1>2, <1>3, NoJobAssumption DEF OneRunningRow, Becomes, Only,
     TypeOK
<1> QED BY <1>4, <1>5, <1>6, <1>7, <1>8, <1>9, <1>10, <1>11

\* One message less.
LEMMA LoseMessageKeeps ==
  ASSUME Hazards = {}, ClaimsInv, TypeOK', NEW j \in Jobs, LoseMessage(j)
  PROVE  ClaimsInv'
<1> USE DEF ClaimsInv
<1>1. tasks[j] = 1
  BY DEF LoseMessage, OneHolder, TypeOK
<1>2. tasks' = [tasks EXCEPT ![j] = 0]
  BY <1>1 DEF LoseMessage
<1>3. UNCHANGED <<row, canceller, pc, job>>
  BY DEF LoseMessage
<1>4. OneHolder'
  BY <1>1, <1>2, <1>3, NoJobAssumption DEF OneHolder, Working, Working,
     TypeOK
<1>5. WaitingIsUnstarted'
  BY <1>1, <1>2, <1>3, NoJobAssumption DEF WaitingIsUnstarted, Unstarted,
     OneHolder, Early, Working, Working, TypeOK
<1>6. TaskHadRow'
  BY <1>1, <1>2, <1>3, NoJobAssumption DEF TaskHadRow, OneHolder, Actors,
     Working, TypeOK
<1>7. ClaimFromFreshRow'
  BY <1>1, <1>2, <1>3, NoJobAssumption DEF ClaimFromFreshRow, Unstarted,
     OneHolder, Claiming, Working, TypeOK
<1>8. PendingIsUnstamped'
  BY <1>1, <1>2, <1>3, NoJobAssumption DEF PendingIsUnstamped, Working,
     TypeOK
<1>9. DriverOwnsFreshRow'
  BY <1>1, <1>2, <1>3, NoJobAssumption DEF DriverOwnsFreshRow, OneHolder,
     Driving, Stopping, Working, TypeOK
<1>10. CancellerMeetsNoDriver'
  BY <1>1, <1>2, <1>3, NoJobAssumption DEF CancellerMeetsNoDriver, Jobs,
     Working, TypeOK
<1>11. OneRunningRow'
  BY <1>1, <1>2, <1>3, NoJobAssumption DEF OneRunningRow, Working, TypeOK
<1> QED BY <1>4, <1>5, <1>6, <1>7, <1>8, <1>9, <1>10, <1>11

\* A task recreates a row that was deleted while it waited.
LEMMA TaskLookupKeeps ==
  ASSUME Hazards = {}, ClaimsInv, TypeOK', NEW w \in Actors, TaskLookup(w)
  PROVE  ClaimsInv'
<1> USE DEF ClaimsInv
<1>1. job[w] \in Jobs
  BY DEF TaskLookup, OneHolder, TypeOK
<1>2. IF Exists(job[w]) THEN row' = row
                          ELSE Becomes(job[w], "pending", FALSE, "none")
  BY <1>1, PutEffect DEF TaskLookup
<1>3. Moves(w, IF job[w] \in Runs THEN "lookup" ELSE "releaseRuns")
  BY ProcessEffect DEF TaskLookup
<1>4. pc[w] = "task" /\ UNCHANGED <<canceller, tasks>>
  BY DEF TaskLookup
<1>5. Unstarted(job[w])
  BY <1>4 DEF WaitingIsUnstarted, Early
<1>6. OneHolder'
  BY <1>1, <1>2, <1>3, <1>4, <1>5, NoJobAssumption DEF OneHolder, Working,
     Becomes, Only, Exists, Moves, TypeOK
<1>7. WaitingIsUnstarted'
  BY <1>1, <1>2, <1>3, <1>4, <1>5, NoJobAssumption DEF WaitingIsUnstarted,
     Unstarted, OneHolder, Early, Working, Becomes, Only, Exists, Moves,
     TypeOK
<1>8. TaskHadRow'
  BY <1>1, <1>2, <1>3, <1>4, <1>5, NoJobAssumption DEF TaskHadRow,
     OneHolder, Actors, Becomes, Only, Exists, Moves, TypeOK
<1>9. ClaimFromFreshRow'
  BY <1>1, <1>2, <1>3, <1>4, <1>5, NoJobAssumption DEF ClaimFromFreshRow,
     Unstarted, OneHolder, Claiming, Becomes, Only, Exists, Moves, TypeOK,
     PendingIsUnstamped, Jobs
<1>10. PendingIsUnstamped'
  BY <1>1, <1>2, <1>3, <1>4, <1>5, NoJobAssumption DEF PendingIsUnstamped,
     Becomes, Only, Exists, Moves, TypeOK
<1>11. DriverOwnsFreshRow'
  BY <1>1, <1>2, <1>3, <1>4, <1>5, NoJobAssumption DEF DriverOwnsFreshRow,
     OneHolder, Driving, Stopping, Becomes, Only, Exists, Moves, TypeOK
<1>12. CancellerMeetsNoDriver'
  BY <1>1, <1>2, <1>3, <1>4, <1>5, NoJobAssumption DEF
     CancellerMeetsNoDriver, Jobs, Becomes, Only, Exists, Moves, TypeOK
<1>13. OneRunningRow'
  BY <1>1, <1>2, <1>3, <1>4, <1>5, NoJobAssumption DEF OneRunningRow,
     Becomes, Only, Exists, Moves, TypeOK
<1> QED BY <1>6, <1>7, <1>8, <1>9, <1>10, <1>11, <1>12, <1>13

\* A worker drops a run without a row, a terminal inserts it.
LEMMA LookupMissingKeeps ==
  ASSUME Hazards = {}, ClaimsInv, TypeOK', NEW w \in Actors, LookupMissing(w)
  PROVE  ClaimsInv'
<1> USE DEF ClaimsInv
<1>1. job[w] \in Jobs
  BY DEF LookupMissing, OneHolder, TypeOK
<1>2. \/ w \in Workers /\ Leaves(w) /\ row' = row
      \/ /\ w \in Shells /\ Moves(w, "releaseRuns")
         /\ Becomes(job[w], "pending", FALSE, "none")
  BY <1>1, PutEffect, ProcessEffect DEF LookupMissing
<1>3. pc[w] = "lookup" /\ ~Exists(job[w]) /\ UNCHANGED <<canceller, tasks>>
  BY DEF LookupMissing
<1>4. OneHolder'
  BY <1>1, <1>2, <1>3, NoJobAssumption DEF OneHolder, Working, Becomes,
     Only, Exists, Moves, Leaves, TypeOK
<1>5. WaitingIsUnstarted'
  BY <1>1, <1>2, <1>3, NoJobAssumption DEF WaitingIsUnstarted, Unstarted,
     OneHolder, Early, Working, Becomes, Only, Exists, Moves, Leaves,
     TypeOK
<1>6. TaskHadRow'
  BY <1>1, <1>2, <1>3, NoJobAssumption DEF TaskHadRow, OneHolder, Actors,
     Becomes, Only, Exists, Moves, Leaves, TypeOK
<1>7. ClaimFromFreshRow'
  BY <1>1, <1>2, <1>3, NoJobAssumption DEF ClaimFromFreshRow, Unstarted,
     OneHolder, Claiming, Becomes, Only, Exists, Moves, Leaves,
     TypeOK
<1>8. PendingIsUnstamped'
  BY <1>1, <1>2, <1>3, NoJobAssumption DEF PendingIsUnstamped, Becomes,
     Only, Exists, Moves, Leaves, TypeOK
<1>9. DriverOwnsFreshRow'
  BY <1>1, <1>2, <1>3, NoJobAssumption DEF DriverOwnsFreshRow, OneHolder,
     Driving, Stopping, Becomes, Only, Exists, Moves, Leaves,
     TypeOK
<1>10. CancellerMeetsNoDriver'
  BY <1>1, <1>2, <1>3, NoJobAssumption DEF CancellerMeetsNoDriver, Jobs,
     Becomes, Only, Exists, Moves, Leaves, TypeOK
<1>11. OneRunningRow'
  BY <1>1, <1>2, <1>3, NoJobAssumption DEF OneRunningRow, Becomes, Only,
     Exists, Moves, Leaves, TypeOK
<1> QED BY <1>4, <1>5, <1>6, <1>7, <1>8, <1>9, <1>10, <1>11

\* A cancelled run ends before anybody claims it.
LEMMA LookupCancelledKeeps ==
  ASSUME Hazards = {}, ClaimsInv, TypeOK', NEW w \in Actors, LookupCancelled(w)
  PROVE  ClaimsInv'
<1> USE DEF ClaimsInv
<1>1. job[w] \in Jobs
  BY DEF LookupCancelled, OneHolder, TypeOK
<1>2. Becomes(job[w], "interrupted", TRUE, "fresh") /\ Leaves(w)
  BY <1>1, FinalWriteEffect, ProcessEffect DEF LookupCancelled, Becomes, TypeOK, Row
<1>3. pc[w] = "lookup" /\ Exists(job[w]) /\ row[job[w]].cancel /\ UNCHANGED <<canceller, tasks>>
  BY DEF LookupCancelled
<1>4. job[w] \in Runs
  BY <1>3 DEF OneHolder
<1>5. OneHolder'
  BY <1>1, <1>2, <1>3, <1>4, NoJobAssumption DEF OneHolder, Working,
     Becomes, Only, Exists, Leaves, TypeOK
<1>6. WaitingIsUnstarted'
  BY <1>1, <1>2, <1>3, <1>4, NoJobAssumption DEF WaitingIsUnstarted,
     Unstarted, OneHolder, Early, Working, Becomes, Only, Exists, Leaves,
     TypeOK
<1>7. TaskHadRow'
  BY <1>1, <1>2, <1>3, <1>4, NoJobAssumption DEF TaskHadRow, OneHolder,
     Actors, Becomes, Only, Exists, Leaves, TypeOK
<1>8. ClaimFromFreshRow'
  BY <1>1, <1>2, <1>3, <1>4, NoJobAssumption DEF ClaimFromFreshRow,
     Unstarted, OneHolder, Claiming, Becomes, Only, Exists, Leaves, TypeOK
<1>9. PendingIsUnstamped'
  BY <1>1, <1>2, <1>3, <1>4, NoJobAssumption DEF PendingIsUnstamped,
     Becomes, Only, Exists, Leaves, TypeOK
<1>10. DriverOwnsFreshRow'
  BY <1>1, <1>2, <1>3, <1>4, NoJobAssumption DEF DriverOwnsFreshRow,
     OneHolder, Driving, Stopping, Becomes, Only, Exists, Leaves, TypeOK
<1>11. CancellerMeetsNoDriver'
  BY <1>1, <1>2, <1>3, <1>4, NoJobAssumption DEF CancellerMeetsNoDriver,
     Jobs, Becomes, Only, Exists, Leaves, TypeOK
<1>12. OneRunningRow'
  BY <1>1, <1>2, <1>3, <1>4, NoJobAssumption DEF OneRunningRow, Becomes,
     Only, Exists, Leaves, TypeOK
<1> QED BY <1>5, <1>6, <1>7, <1>8, <1>9, <1>10, <1>11, <1>12

\* A row that passed the lookup is unstarted and not stale.
LEMMA LookupReadyKeeps ==
  ASSUME Hazards = {}, ClaimsInv, TypeOK', NEW w \in Actors, LookupReady(w)
  PROVE  ClaimsInv'
<1> USE DEF ClaimsInv
<1>1. job[w] \in Jobs
  BY DEF LookupReady, OneHolder, TypeOK
<1>2. Moves(w, "releaseRuns")
  BY ProcessEffect DEF LookupReady
<1>3. pc[w] = "lookup" /\ Exists(job[w]) /\ ~row[job[w]].cancel
  BY DEF LookupReady
<1>4. UNCHANGED <<row, canceller, tasks>>
  BY DEF LookupReady
<1>5. OneHolder'
  BY <1>1, <1>2, <1>3, <1>4, NoJobAssumption DEF OneHolder, Working,
     Exists, Moves, TypeOK
<1>6. WaitingIsUnstarted'
  BY <1>1, <1>2, <1>3, <1>4, NoJobAssumption DEF WaitingIsUnstarted,
     Unstarted, OneHolder, Early, Working, Exists, Moves, TypeOK
<1>7. TaskHadRow'
  BY <1>1, <1>2, <1>3, <1>4, NoJobAssumption DEF TaskHadRow, OneHolder,
     Actors, Exists, Moves, TypeOK
<1>8. ClaimFromFreshRow'
  BY <1>1, <1>2, <1>3, <1>4, NoJobAssumption DEF ClaimFromFreshRow,
     Unstarted, OneHolder, Claiming, Exists, Moves, TypeOK,
     PendingIsUnstamped, WaitingIsUnstarted, Unstarted, Early
<1>9. PendingIsUnstamped'
  BY <1>1, <1>2, <1>3, <1>4, NoJobAssumption DEF PendingIsUnstamped,
     Exists, Moves, TypeOK
<1>10. DriverOwnsFreshRow'
  BY <1>1, <1>2, <1>3, <1>4, NoJobAssumption DEF DriverOwnsFreshRow,
     OneHolder, Driving, Stopping, Exists, Moves, TypeOK
<1>11. CancellerMeetsNoDriver'
  BY <1>1, <1>2, <1>3, <1>4, NoJobAssumption DEF CancellerMeetsNoDriver,
     Jobs, Exists, Moves, TypeOK
<1>12. OneRunningRow'
  BY <1>1, <1>2, <1>3, <1>4, NoJobAssumption DEF OneRunningRow, Exists,
     Moves, TypeOK
<1> QED BY <1>5, <1>6, <1>7, <1>8, <1>9, <1>10, <1>11, <1>12

\* The first release of a claim takes only rows without a process.
LEMMA ClaimReleasesRunsKeeps ==
  ASSUME Hazards = {}, ClaimsInv, TypeOK', NEW w \in Actors, ClaimReleasesRuns(w)
  PROVE  ClaimsInv'
<1> USE DEF ClaimsInv
<1>1. job[w] \in Jobs
  BY DEF ClaimReleasesRuns, OneHolder, TypeOK
<1>2. Release(Runs, "interrupted") /\ Moves(w, "releasePreflights")
  BY ProcessEffect DEF ClaimReleasesRuns, ReleaseAbandonedRuns
<1>3. pc[w] = "releaseRuns" /\ UNCHANGED <<canceller, tasks>>
  BY DEF ClaimReleasesRuns
<1>4. Released(row')
  BY <1>2, ReleasedStep
<1>5. \A v \in Actors : pc[v] # "idle" => job[v] \in Jobs /\ Working(job[v])
  BY AtWork
<1>6. OneHolder'
  BY <1>1, <1>2, <1>3, <1>4, <1>5, NoJobAssumption DEF OneHolder, Working,
     Released, Moves, TypeOK
<1>7. WaitingIsUnstarted'
  BY <1>1, <1>2, <1>3, <1>4, <1>5, NoJobAssumption DEF WaitingIsUnstarted,
     Unstarted, OneHolder, Early, Working, Released, Moves, TypeOK
<1>8. TaskHadRow'
  BY <1>1, <1>2, <1>3, <1>4, <1>5, NoJobAssumption DEF TaskHadRow,
     OneHolder, Actors, Released, Moves, TypeOK
<1>9. ClaimFromFreshRow'
  BY <1>1, <1>2, <1>3, <1>4, <1>5, NoJobAssumption DEF ClaimFromFreshRow,
     Unstarted, OneHolder, Claiming, Released, Moves, TypeOK
<1>10. PendingIsUnstamped'
  BY <1>1, <1>2, <1>3, <1>4, <1>5, NoJobAssumption DEF PendingIsUnstamped,
     Released, Moves, TypeOK
<1>11. DriverOwnsFreshRow'
  BY <1>1, <1>2, <1>3, <1>4, <1>5, NoJobAssumption DEF DriverOwnsFreshRow,
     OneHolder, Driving, Stopping, Released, Moves, TypeOK
<1>12. CancellerMeetsNoDriver'
  BY <1>1, <1>2, <1>3, <1>4, <1>5, NoJobAssumption DEF
     CancellerMeetsNoDriver, Jobs, Released, Moves, TypeOK
<1>13. OneRunningRow'
  BY <1>1, <1>2, <1>3, <1>4, <1>5, NoJobAssumption DEF OneRunningRow,
     Released, Moves, TypeOK
<1> QED BY <1>6, <1>7, <1>8, <1>9, <1>10, <1>11, <1>12, <1>13

\* The second one too.
LEMMA ClaimReleasesPreflightsKeeps ==
  ASSUME Hazards = {}, ClaimsInv, TypeOK', NEW w \in Actors, ClaimReleasesPreflights(w)
  PROVE  ClaimsInv'
<1> USE DEF ClaimsInv
<1>1. job[w] \in Jobs
  BY DEF ClaimReleasesPreflights, OneHolder, TypeOK
<1>2. Release(Preflights, "failed") /\ Moves(w, "claim")
  BY ProcessEffect DEF ClaimReleasesPreflights, ReleaseAbandonedPreflights
<1>3. pc[w] = "releasePreflights" /\ UNCHANGED <<canceller, tasks>>
  BY DEF ClaimReleasesPreflights
<1>4. Released(row')
  BY <1>2, ReleasedStep
<1>5. \A v \in Actors : pc[v] # "idle" => job[v] \in Jobs /\ Working(job[v])
  BY AtWork
<1>6. OneHolder'
  BY <1>1, <1>2, <1>3, <1>4, <1>5, NoJobAssumption DEF OneHolder, Working,
     Released, Moves, TypeOK
<1>7. WaitingIsUnstarted'
  BY <1>1, <1>2, <1>3, <1>4, <1>5, NoJobAssumption DEF WaitingIsUnstarted,
     Unstarted, OneHolder, Early, Working, Released, Moves, TypeOK
<1>8. TaskHadRow'
  BY <1>1, <1>2, <1>3, <1>4, <1>5, NoJobAssumption DEF TaskHadRow,
     OneHolder, Actors, Released, Moves, TypeOK
<1>9. ClaimFromFreshRow'
  BY <1>1, <1>2, <1>3, <1>4, <1>5, NoJobAssumption DEF ClaimFromFreshRow,
     Unstarted, OneHolder, Claiming, Released, Moves, TypeOK
<1>10. PendingIsUnstamped'
  BY <1>1, <1>2, <1>3, <1>4, <1>5, NoJobAssumption DEF PendingIsUnstamped,
     Released, Moves, TypeOK
<1>11. DriverOwnsFreshRow'
  BY <1>1, <1>2, <1>3, <1>4, <1>5, NoJobAssumption DEF DriverOwnsFreshRow,
     OneHolder, Driving, Stopping, Released, Moves, TypeOK
<1>12. CancellerMeetsNoDriver'
  BY <1>1, <1>2, <1>3, <1>4, <1>5, NoJobAssumption DEF
     CancellerMeetsNoDriver, Jobs, Released, Moves, TypeOK
<1>13. OneRunningRow'
  BY <1>1, <1>2, <1>3, <1>4, <1>5, NoJobAssumption DEF OneRunningRow,
     Released, Moves, TypeOK
<1> QED BY <1>6, <1>7, <1>8, <1>9, <1>10, <1>11, <1>12, <1>13

\* The claim tests that no other row of the device runs.
LEMMA ClaimKeeps ==
  ASSUME Hazards = {}, ClaimsInv, TypeOK', NEW w \in Actors, Claim(w)
  PROVE  ClaimsInv'
<1> USE DEF ClaimsInv
<1>1. job[w] \in Jobs
  BY DEF Claim, OneHolder, TypeOK
<1>2. Becomes(job[w], "running", row[job[w]].cancel,
              IF row[job[w]].stamp = "none" THEN "fresh" ELSE row[job[w]].stamp)
  BY <1>1, PutEffect DEF Claim
<1>3. Moves(w, "driving")
  BY ProcessEffect, ClaimsNoRecorder DEF Claim
<1>4. pc[w] = "claim" /\ Claimable(job[w]) /\ UNCHANGED <<canceller, tasks>>
  BY DEF Claim
<1>5. job[w] \in Runs => canceller[job[w]] \in {"idle", "sawRunning"}
  BY DEF Claim, May, NoCancelAtWork
<1>6. row[job[w]].stamp \in {"none", "fresh"}
  BY <1>1, <1>4 DEF ClaimFromFreshRow, Claiming, TypeOK, Row, Stamp
<1>7. OneHolder'
  BY <1>1, <1>2, <1>3, <1>4, <1>5, <1>6, NoJobAssumption DEF OneHolder,
     Working, Becomes, Only, Moves, Claimable, Exists, TypeOK
<1>8. WaitingIsUnstarted'
  BY <1>1, <1>2, <1>3, <1>4, <1>5, <1>6, NoJobAssumption DEF
     WaitingIsUnstarted, Unstarted, OneHolder, Early, Working, Becomes, Only,
     Moves, Claimable, Exists, TypeOK
<1>9. TaskHadRow'
  BY <1>1, <1>2, <1>3, <1>4, <1>5, <1>6, NoJobAssumption DEF TaskHadRow,
     OneHolder, Actors, Becomes, Only, Moves, Claimable, Exists, TypeOK
<1>10. ClaimFromFreshRow'
  BY <1>1, <1>2, <1>3, <1>4, <1>5, <1>6, NoJobAssumption DEF
     ClaimFromFreshRow, Unstarted, OneHolder, Claiming, Becomes, Only, Moves,
     Claimable, Exists, TypeOK
<1>11. PendingIsUnstamped'
  BY <1>1, <1>2, <1>3, <1>4, <1>5, <1>6, NoJobAssumption DEF
     PendingIsUnstamped, Becomes, Only, Moves, Claimable, Exists, TypeOK
<1>12. DriverOwnsFreshRow'
  BY <1>1, <1>2, <1>3, <1>4, <1>5, <1>6, NoJobAssumption DEF
     DriverOwnsFreshRow, OneHolder, Driving, Stopping, Becomes, Only, Moves,
     Claimable, Exists, TypeOK
<1>13. CancellerMeetsNoDriver'
  BY <1>1, <1>2, <1>3, <1>4, <1>5, <1>6, NoJobAssumption DEF
     CancellerMeetsNoDriver, Jobs, Becomes, Only, Moves, Claimable, Exists,
     TypeOK
<1>14. OneRunningRow'
  BY <1>1, <1>2, <1>3, <1>4, <1>5, <1>6, NoJobAssumption DEF
     OneRunningRow, Becomes, Only, Moves, Claimable, Exists, TypeOK,
     OtherRunning, Jobs
<1> QED BY <1>7, <1>8, <1>9, <1>10, <1>11, <1>12, <1>13, <1>14

\* A refused task goes back to the queue with its row unstarted.
LEMMA ClaimRefusedKeeps ==
  ASSUME Hazards = {}, ClaimsInv, TypeOK', NEW w \in Actors, ClaimRefused(w)
  PROVE  ClaimsInv'
<1> USE DEF ClaimsInv
<1>1. job[w] \in Jobs
  BY DEF ClaimRefused, OneHolder, TypeOK
<1>2. Leaves(w) /\ UNCHANGED <<row, canceller>> /\ pc[w] = "claim"
  BY ProcessEffect DEF ClaimRefused
<1>3. tasks[job[w]] = 0
  BY <1>1 DEF OneHolder, Working
<1>4. IF w \in Workers THEN tasks' = [tasks EXCEPT ![job[w]] = 1] ELSE tasks' = tasks
  BY <1>1, <1>3 DEF ClaimRefused
<1>5. Unstarted(job[w])
  BY <1>2 DEF ClaimFromFreshRow, Claiming
<1>6. OneHolder'
  BY <1>1, <1>2, <1>3, <1>4, <1>5, NoJobAssumption DEF OneHolder, Working,
     Leaves, TypeOK
<1>7. WaitingIsUnstarted'
  BY <1>1, <1>2, <1>3, <1>4, <1>5, NoJobAssumption DEF WaitingIsUnstarted,
     Unstarted, OneHolder, Early, Working, Leaves, TypeOK
<1>8. TaskHadRow'
  BY <1>1, <1>2, <1>3, <1>4, <1>5, NoJobAssumption DEF TaskHadRow,
     OneHolder, Actors, Leaves, TypeOK
<1>9. ClaimFromFreshRow'
  BY <1>1, <1>2, <1>3, <1>4, <1>5, NoJobAssumption DEF ClaimFromFreshRow,
     Unstarted, OneHolder, Claiming, Leaves, TypeOK
<1>10. PendingIsUnstamped'
  BY <1>1, <1>2, <1>3, <1>4, <1>5, NoJobAssumption DEF PendingIsUnstamped,
     Leaves, TypeOK
<1>11. DriverOwnsFreshRow'
  BY <1>1, <1>2, <1>3, <1>4, <1>5, NoJobAssumption DEF DriverOwnsFreshRow,
     OneHolder, Driving, Stopping, Leaves, TypeOK
<1>12. CancellerMeetsNoDriver'
  BY <1>1, <1>2, <1>3, <1>4, <1>5, NoJobAssumption DEF
     CancellerMeetsNoDriver, Jobs, Leaves, TypeOK
<1>13. OneRunningRow'
  BY <1>1, <1>2, <1>3, <1>4, <1>5, NoJobAssumption DEF OneRunningRow,
     Leaves, TypeOK
<1> QED BY <1>6, <1>7, <1>8, <1>9, <1>10, <1>11, <1>12, <1>13

\* The heartbeat meets the row its own process holds.
LEMMA BeatKeeps ==
  ASSUME Hazards = {}, ClaimsInv, TypeOK', NEW w \in Actors, Beat(w)
  PROVE  ClaimsInv'
<1> USE DEF ClaimsInv
<1>1. job[w] \in Jobs
  BY DEF Beat, OneHolder, TypeOK
<1>2. job[w] \in Runs /\ row[job[w]].status = "running" /\ row[job[w]].stamp = "fresh"
  BY DEF Beat, DriverOwnsFreshRow, Driving
<1>3. Becomes(job[w], "running", row[job[w]].cancel, "fresh")
  BY <1>1, <1>2, FinalWriteEffect DEF Beat, Exists
<1>4. UNCHANGED <<canceller, tasks, pc, job>>
  BY DEF Beat
<1>5. OneHolder'
  BY <1>1, <1>2, <1>3, <1>4, NoJobAssumption DEF OneHolder, Working,
     Becomes, Only, TypeOK
<1>6. WaitingIsUnstarted'
  BY <1>1, <1>2, <1>3, <1>4, NoJobAssumption DEF WaitingIsUnstarted,
     Unstarted, OneHolder, Early, Working, Becomes, Only, TypeOK
<1>7. TaskHadRow'
  BY <1>1, <1>2, <1>3, <1>4, NoJobAssumption DEF TaskHadRow, OneHolder,
     Actors, Becomes, Only, TypeOK
<1>8. ClaimFromFreshRow'
  BY <1>1, <1>2, <1>3, <1>4, NoJobAssumption DEF ClaimFromFreshRow,
     Unstarted, OneHolder, Claiming, Becomes, Only, TypeOK
<1>9. PendingIsUnstamped'
  BY <1>1, <1>2, <1>3, <1>4, NoJobAssumption DEF PendingIsUnstamped,
     Becomes, Only, TypeOK
<1>10. DriverOwnsFreshRow'
  BY <1>1, <1>2, <1>3, <1>4, NoJobAssumption DEF DriverOwnsFreshRow,
     OneHolder, Driving, Stopping, Becomes, Only, TypeOK
<1>11. CancellerMeetsNoDriver'
  BY <1>1, <1>2, <1>3, <1>4, NoJobAssumption DEF CancellerMeetsNoDriver,
     Jobs, Becomes, Only, TypeOK
<1>12. OneRunningRow'
  BY <1>1, <1>2, <1>3, <1>4, NoJobAssumption DEF OneRunningRow, Becomes,
     Only, TypeOK
<1> QED BY <1>5, <1>6, <1>7, <1>8, <1>9, <1>10, <1>11, <1>12

\* Stopping is still driving.
LEMMA NoticeCancelKeeps ==
  ASSUME Hazards = {}, ClaimsInv, TypeOK', NEW w \in Actors, NoticeCancel(w)
  PROVE  ClaimsInv'
<1> USE DEF ClaimsInv
<1>1. job[w] \in Jobs
  BY DEF NoticeCancel, OneHolder, TypeOK
<1>2. Moves(w, "interrupting")
  BY ProcessEffect DEF NoticeCancel, Stop
<1>3. pc[w] = "driving" /\ UNCHANGED <<row, canceller, tasks>>
  BY DEF NoticeCancel, Stop
<1>4. OneHolder'
  BY <1>1, <1>2, <1>3, NoJobAssumption DEF OneHolder, Working, Moves,
     TypeOK
<1>5. WaitingIsUnstarted'
  BY <1>1, <1>2, <1>3, NoJobAssumption DEF WaitingIsUnstarted, Unstarted,
     OneHolder, Early, Working, Moves, TypeOK
<1>6. TaskHadRow'
  BY <1>1, <1>2, <1>3, NoJobAssumption DEF TaskHadRow, OneHolder, Actors,
     Moves, TypeOK
<1>7. ClaimFromFreshRow'
  BY <1>1, <1>2, <1>3, NoJobAssumption DEF ClaimFromFreshRow, Unstarted,
     OneHolder, Claiming, Moves, TypeOK
<1>8. PendingIsUnstamped'
  BY <1>1, <1>2, <1>3, NoJobAssumption DEF PendingIsUnstamped, Moves,
     TypeOK
<1>9. DriverOwnsFreshRow'
  BY <1>1, <1>2, <1>3, NoJobAssumption DEF DriverOwnsFreshRow, OneHolder,
     Driving, Stopping, Moves, TypeOK
<1>10. CancellerMeetsNoDriver'
  BY <1>1, <1>2, <1>3, NoJobAssumption DEF CancellerMeetsNoDriver, Jobs,
     Moves, TypeOK
<1>11. OneRunningRow'
  BY <1>1, <1>2, <1>3, NoJobAssumption DEF OneRunningRow, Moves, TypeOK
<1> QED BY <1>4, <1>5, <1>6, <1>7, <1>8, <1>9, <1>10, <1>11

\* So is completing.
LEMMA LeaveLoopKeeps ==
  ASSUME Hazards = {}, ClaimsInv, TypeOK', NEW w \in Actors, LeaveLoop(w)
  PROVE  ClaimsInv'
<1> USE DEF ClaimsInv
<1>1. job[w] \in Jobs
  BY DEF LeaveLoop, OneHolder, TypeOK
<1>2. Moves(w, "completing")
  BY ProcessEffect DEF LeaveLoop, Stop
<1>3. pc[w] = "driving" /\ UNCHANGED <<row, canceller, tasks>>
  BY DEF LeaveLoop, Stop
<1>4. OneHolder'
  BY <1>1, <1>2, <1>3, NoJobAssumption DEF OneHolder, Working, Moves,
     TypeOK
<1>5. WaitingIsUnstarted'
  BY <1>1, <1>2, <1>3, NoJobAssumption DEF WaitingIsUnstarted, Unstarted,
     OneHolder, Early, Working, Moves, TypeOK
<1>6. TaskHadRow'
  BY <1>1, <1>2, <1>3, NoJobAssumption DEF TaskHadRow, OneHolder, Actors,
     Moves, TypeOK
<1>7. ClaimFromFreshRow'
  BY <1>1, <1>2, <1>3, NoJobAssumption DEF ClaimFromFreshRow, Unstarted,
     OneHolder, Claiming, Moves, TypeOK
<1>8. PendingIsUnstamped'
  BY <1>1, <1>2, <1>3, NoJobAssumption DEF PendingIsUnstamped, Moves,
     TypeOK
<1>9. DriverOwnsFreshRow'
  BY <1>1, <1>2, <1>3, NoJobAssumption DEF DriverOwnsFreshRow, OneHolder,
     Driving, Stopping, Moves, TypeOK
<1>10. CancellerMeetsNoDriver'
  BY <1>1, <1>2, <1>3, NoJobAssumption DEF CancellerMeetsNoDriver, Jobs,
     Moves, TypeOK
<1>11. OneRunningRow'
  BY <1>1, <1>2, <1>3, NoJobAssumption DEF OneRunningRow, Moves, TypeOK
<1> QED BY <1>4, <1>5, <1>6, <1>7, <1>8, <1>9, <1>10, <1>11

\* And so is Ctrl+C.
LEMMA InterruptKeeps ==
  ASSUME Hazards = {}, ClaimsInv, TypeOK', NEW w \in Actors, Interrupt(w)
  PROVE  ClaimsInv'
<1> USE DEF ClaimsInv
<1>1. job[w] \in Jobs
  BY DEF Interrupt, OneHolder, TypeOK
<1>2. Moves(w, "interrupting")
  BY ProcessEffect DEF Interrupt, Stop
<1>3. pc[w] = "driving" /\ UNCHANGED <<row, canceller, tasks>>
  BY DEF Interrupt, Stop
<1>4. OneHolder'
  BY <1>1, <1>2, <1>3, NoJobAssumption DEF OneHolder, Working, Moves,
     TypeOK
<1>5. WaitingIsUnstarted'
  BY <1>1, <1>2, <1>3, NoJobAssumption DEF WaitingIsUnstarted, Unstarted,
     OneHolder, Early, Working, Moves, TypeOK
<1>6. TaskHadRow'
  BY <1>1, <1>2, <1>3, NoJobAssumption DEF TaskHadRow, OneHolder, Actors,
     Moves, TypeOK
<1>7. ClaimFromFreshRow'
  BY <1>1, <1>2, <1>3, NoJobAssumption DEF ClaimFromFreshRow, Unstarted,
     OneHolder, Claiming, Moves, TypeOK
<1>8. PendingIsUnstamped'
  BY <1>1, <1>2, <1>3, NoJobAssumption DEF PendingIsUnstamped, Moves,
     TypeOK
<1>9. DriverOwnsFreshRow'
  BY <1>1, <1>2, <1>3, NoJobAssumption DEF DriverOwnsFreshRow, OneHolder,
     Driving, Stopping, Moves, TypeOK
<1>10. CancellerMeetsNoDriver'
  BY <1>1, <1>2, <1>3, NoJobAssumption DEF CancellerMeetsNoDriver, Jobs,
     Moves, TypeOK
<1>11. OneRunningRow'
  BY <1>1, <1>2, <1>3, NoJobAssumption DEF OneRunningRow, Moves, TypeOK
<1> QED BY <1>4, <1>5, <1>6, <1>7, <1>8, <1>9, <1>10, <1>11

\* The last write leaves no running row and no driver.
LEMMA FinishKeeps ==
  ASSUME Hazards = {}, ClaimsInv, TypeOK', NEW w \in Actors, Finish(w)
  PROVE  ClaimsInv'
<1> USE DEF ClaimsInv
<1>1. job[w] \in Jobs
  BY DEF Finish, OneHolder, TypeOK, Stopping
<1>2. Driving(w) /\ row[job[w]].status = "running" /\ row[job[w]].stamp = "fresh"
  BY DEF Finish, DriverOwnsFreshRow, Driving, Stopping
<1>3. \E verdict \in Terminal :
        Becomes(job[w], verdict, row[job[w]].cancel, "fresh")
  BY <1>1, <1>2, FinalWriteEffect DEF Finish, Exists, Terminal
<1>4. Leaves(w) /\ UNCHANGED <<canceller, tasks>>
  BY ProcessEffect DEF Finish
<1>5. OneHolder'
  BY <1>1, <1>2, <1>3, <1>4, NoJobAssumption DEF OneHolder, Working,
     Becomes, Only, Leaves, Terminal, TypeOK
<1>6. WaitingIsUnstarted'
  BY <1>1, <1>2, <1>3, <1>4, NoJobAssumption DEF WaitingIsUnstarted,
     Unstarted, OneHolder, Early, Working, Becomes, Only, Leaves, Terminal,
     TypeOK
<1>7. TaskHadRow'
  BY <1>1, <1>2, <1>3, <1>4, NoJobAssumption DEF TaskHadRow, OneHolder,
     Actors, Becomes, Only, Leaves, Terminal, TypeOK
<1>8. ClaimFromFreshRow'
  BY <1>1, <1>2, <1>3, <1>4, NoJobAssumption DEF ClaimFromFreshRow,
     Unstarted, OneHolder, Claiming, Becomes, Only, Leaves, Terminal, TypeOK
<1>9. PendingIsUnstamped'
  BY <1>1, <1>2, <1>3, <1>4, NoJobAssumption DEF PendingIsUnstamped,
     Becomes, Only, Leaves, Terminal, TypeOK
<1>10. DriverOwnsFreshRow'
  BY <1>1, <1>2, <1>3, <1>4, NoJobAssumption DEF DriverOwnsFreshRow,
     OneHolder, Driving, Stopping, Becomes, Only, Leaves, Terminal, TypeOK
<1>11. CancellerMeetsNoDriver'
  BY <1>1, <1>2, <1>3, <1>4, NoJobAssumption DEF CancellerMeetsNoDriver,
     Jobs, Becomes, Only, Leaves, Terminal, TypeOK
<1>12. OneRunningRow'
  BY <1>1, <1>2, <1>3, <1>4, NoJobAssumption DEF OneRunningRow, Becomes,
     Only, Leaves, Terminal, TypeOK
<1> QED BY <1>5, <1>6, <1>7, <1>8, <1>9, <1>10, <1>11, <1>12

\* Without failDrain the failing process is done with the phone.
LEMMA FailRunKeeps ==
  ASSUME Hazards = {}, ClaimsInv, TypeOK', NEW w \in Actors, FailRun(w)
  PROVE  ClaimsInv'
<1> USE DEF ClaimsInv
<1>1. job[w] \in Jobs
  BY DEF FailRun, OneHolder, TypeOK
<1>2. Driving(w) /\ row[job[w]].status = "running"
  BY DEF FailRun, DriverOwnsFreshRow, Driving
<1>3. Becomes(job[w], "failed", row[job[w]].cancel, "fresh")
  BY <1>1, <1>2, FinalWriteEffect DEF FailRun, Exists
<1>4. Leaves(w) /\ UNCHANGED <<canceller, tasks>>
  BY ProcessEffect DEF FailRun, May
<1>5. OneHolder'
  BY <1>1, <1>2, <1>3, <1>4, NoJobAssumption DEF OneHolder, Working,
     Becomes, Only, Leaves, TypeOK
<1>6. WaitingIsUnstarted'
  BY <1>1, <1>2, <1>3, <1>4, NoJobAssumption DEF WaitingIsUnstarted,
     Unstarted, OneHolder, Early, Working, Becomes, Only, Leaves, TypeOK
<1>7. TaskHadRow'
  BY <1>1, <1>2, <1>3, <1>4, NoJobAssumption DEF TaskHadRow, OneHolder,
     Actors, Becomes, Only, Leaves, TypeOK
<1>8. ClaimFromFreshRow'
  BY <1>1, <1>2, <1>3, <1>4, NoJobAssumption DEF ClaimFromFreshRow,
     Unstarted, OneHolder, Claiming, Becomes, Only, Leaves, TypeOK
<1>9. PendingIsUnstamped'
  BY <1>1, <1>2, <1>3, <1>4, NoJobAssumption DEF PendingIsUnstamped,
     Becomes, Only, Leaves, TypeOK
<1>10. DriverOwnsFreshRow'
  BY <1>1, <1>2, <1>3, <1>4, NoJobAssumption DEF DriverOwnsFreshRow,
     OneHolder, Driving, Stopping, Becomes, Only, Leaves, TypeOK
<1>11. CancellerMeetsNoDriver'
  BY <1>1, <1>2, <1>3, <1>4, NoJobAssumption DEF CancellerMeetsNoDriver,
     Jobs, Becomes, Only, Leaves, TypeOK
<1>12. OneRunningRow'
  BY <1>1, <1>2, <1>3, <1>4, NoJobAssumption DEF OneRunningRow, Becomes,
     Only, Leaves, TypeOK
<1> QED BY <1>5, <1>6, <1>7, <1>8, <1>9, <1>10, <1>11, <1>12

\* A killed process leaves its row behind, still running.
LEMMA CrashKeeps ==
  ASSUME Hazards = {}, ClaimsInv, TypeOK', NEW w \in Actors, Crash(w)
  PROVE  ClaimsInv'
<1> USE DEF ClaimsInv
<1>1. job[w] \in Jobs
  BY DEF Crash, OneHolder, TypeOK
<1>2. Leaves(w) /\ UNCHANGED <<row, canceller, tasks>> /\ pc[w] # "idle"
  BY ProcessEffect DEF Crash
<1>3. OneHolder'
  BY <1>1, <1>2, NoJobAssumption DEF OneHolder, Working, Leaves, TypeOK
<1>4. WaitingIsUnstarted'
  BY <1>1, <1>2, NoJobAssumption DEF WaitingIsUnstarted, Unstarted,
     OneHolder, Early, Working, Leaves, TypeOK
<1>5. TaskHadRow'
  BY <1>1, <1>2, NoJobAssumption DEF TaskHadRow, OneHolder, Actors,
     Leaves, TypeOK
<1>6. ClaimFromFreshRow'
  BY <1>1, <1>2, NoJobAssumption DEF ClaimFromFreshRow, Unstarted,
     OneHolder, Claiming, Leaves, TypeOK
<1>7. PendingIsUnstamped'
  BY <1>1, <1>2, NoJobAssumption DEF PendingIsUnstamped, Leaves, TypeOK
<1>8. DriverOwnsFreshRow'
  BY <1>1, <1>2, NoJobAssumption DEF DriverOwnsFreshRow, OneHolder,
     Driving, Stopping, Leaves, TypeOK
<1>9. CancellerMeetsNoDriver'
  BY <1>1, <1>2, NoJobAssumption DEF CancellerMeetsNoDriver, Jobs, Leaves,
     TypeOK
<1>10. OneRunningRow'
  BY <1>1, <1>2, NoJobAssumption DEF OneRunningRow, Leaves, TypeOK
<1> QED BY <1>3, <1>4, <1>5, <1>6, <1>7, <1>8, <1>9, <1>10

\* The message becomes the process: still one holder.
LEMMA TakeTaskKeeps ==
  ASSUME Hazards = {}, ClaimsInv, TypeOK', NEW w \in Actors, NEW j \in Jobs, TakeTask(w, j)
  PROVE  ClaimsInv'
<1> USE DEF ClaimsInv
<1>1. w \in Workers /\ tasks[j] = 1
  BY DEF TakeTask, OneHolder, TypeOK
<1>2. tasks' = [tasks EXCEPT ![j] = 0]
  BY <1>1 DEF TakeTask
<1>3. ~Working(j) /\ w \notin Shells
  BY <1>1, ClaimsAssumption DEF OneHolder
<1>4. pc[w] = "idle" /\ Begins(w, j, "task") /\ UNCHANGED <<row, canceller>>
  BY ProcessEffect DEF TakeTask, Begin
<1>5. OneHolder'
  BY <1>1, <1>2, <1>3, <1>4, NoJobAssumption DEF OneHolder, Working,
     Begins, TypeOK
<1>6. WaitingIsUnstarted'
  BY <1>1, <1>2, <1>3, <1>4, NoJobAssumption DEF WaitingIsUnstarted,
     Unstarted, OneHolder, Early, Working, Begins, TypeOK
<1>7. TaskHadRow'
  BY <1>1, <1>2, <1>3, <1>4, NoJobAssumption DEF TaskHadRow, OneHolder,
     Actors, Begins, TypeOK
<1>8. ClaimFromFreshRow'
  BY <1>1, <1>2, <1>3, <1>4, NoJobAssumption DEF ClaimFromFreshRow,
     Unstarted, OneHolder, Claiming, Begins, TypeOK
<1>9. PendingIsUnstamped'
  BY <1>1, <1>2, <1>3, <1>4, NoJobAssumption DEF PendingIsUnstamped,
     Begins, TypeOK
<1>10. DriverOwnsFreshRow'
  BY <1>1, <1>2, <1>3, <1>4, NoJobAssumption DEF DriverOwnsFreshRow,
     OneHolder, Driving, Stopping, Begins, TypeOK
<1>11. CancellerMeetsNoDriver'
  BY <1>1, <1>2, <1>3, <1>4, NoJobAssumption DEF CancellerMeetsNoDriver,
     Jobs, Begins, TypeOK
<1>12. OneRunningRow'
  BY <1>1, <1>2, <1>3, <1>4, NoJobAssumption DEF OneRunningRow, Begins,
     TypeOK
<1> QED BY <1>5, <1>6, <1>7, <1>8, <1>9, <1>10, <1>11, <1>12

\* A terminal takes an id that has no row, message or process.
LEMMA StartShellKeeps ==
  ASSUME Hazards = {}, ClaimsInv, TypeOK', NEW w \in Actors, NEW j \in Jobs, StartShell(w, j)
  PROVE  ClaimsInv'
<1> USE DEF ClaimsInv
<1>1. w \in Shells /\ j \in Runs /\ row[j].status = "absent" /\ ~Working(j) /\ tasks[j] = 0
  BY DEF StartShell, May, Outstanding, OneHolder, TypeOK
<1>2. pc[w] = "idle" /\ Begins(w, j, "lookup") /\ UNCHANGED <<row, canceller, tasks>>
  BY ProcessEffect DEF StartShell, Begin
<1>3. w \notin Workers
  BY <1>1, ClaimsAssumption
<1>4. OneHolder'
  BY <1>1, <1>2, <1>3, NoJobAssumption DEF OneHolder, Working, Begins,
     TypeOK
<1>5. WaitingIsUnstarted'
  BY <1>1, <1>2, <1>3, NoJobAssumption DEF WaitingIsUnstarted, Unstarted,
     OneHolder, Early, Working, Begins, TypeOK
<1>6. TaskHadRow'
  BY <1>1, <1>2, <1>3, NoJobAssumption DEF TaskHadRow, OneHolder, Actors,
     Begins, TypeOK
<1>7. ClaimFromFreshRow'
  BY <1>1, <1>2, <1>3, NoJobAssumption DEF ClaimFromFreshRow, Unstarted,
     OneHolder, Claiming, Begins, TypeOK
<1>8. PendingIsUnstamped'
  BY <1>1, <1>2, <1>3, NoJobAssumption DEF PendingIsUnstamped, Begins,
     TypeOK
<1>9. DriverOwnsFreshRow'
  BY <1>1, <1>2, <1>3, NoJobAssumption DEF DriverOwnsFreshRow, OneHolder,
     Driving, Stopping, Begins, TypeOK
<1>10. CancellerMeetsNoDriver'
  BY <1>1, <1>2, <1>3, NoJobAssumption DEF CancellerMeetsNoDriver, Jobs,
     Begins, TypeOK
<1>11. OneRunningRow'
  BY <1>1, <1>2, <1>3, NoJobAssumption DEF OneRunningRow, Begins, TypeOK
<1> QED BY <1>4, <1>5, <1>6, <1>7, <1>8, <1>9, <1>10, <1>11

\* The dashboard's releases take only rows without a process.
LEMMA PollKeeps ==
  ASSUME Hazards = {}, ClaimsInv, TypeOK', Poll
  PROVE  ClaimsInv'
<1> USE DEF ClaimsInv
<1>1. \A v \in Actors : pc[v] # "idle" => job[v] \in Jobs /\ Working(job[v])
  BY AtWork
<1>2. Released(row')
  BY ReleasedStep DEF Poll, PollReleaseRuns, PollReleasePreflights, ReleaseAbandonedRuns, ReleaseAbandonedPreflights
<1>3. UNCHANGED <<canceller, tasks, pc, job>>
  BY DEF Poll, PollReleaseRuns, PollReleasePreflights
<1>4. OneHolder'
  BY <1>1, <1>2, <1>3, NoJobAssumption DEF OneHolder, Working, Released,
     TypeOK
<1>5. WaitingIsUnstarted'
  BY <1>1, <1>2, <1>3, NoJobAssumption DEF WaitingIsUnstarted, Unstarted,
     OneHolder, Early, Working, Released, TypeOK
<1>6. TaskHadRow'
  BY <1>1, <1>2, <1>3, NoJobAssumption DEF TaskHadRow, OneHolder, Actors,
     Released, TypeOK
<1>7. ClaimFromFreshRow'
  BY <1>1, <1>2, <1>3, NoJobAssumption DEF ClaimFromFreshRow, Unstarted,
     OneHolder, Claiming, Released, TypeOK
<1>8. PendingIsUnstamped'
  BY <1>1, <1>2, <1>3, NoJobAssumption DEF PendingIsUnstamped, Released,
     TypeOK
<1>9. DriverOwnsFreshRow'
  BY <1>1, <1>2, <1>3, NoJobAssumption DEF DriverOwnsFreshRow, OneHolder,
     Driving, Stopping, Released, TypeOK
<1>10. CancellerMeetsNoDriver'
  BY <1>1, <1>2, <1>3, NoJobAssumption DEF CancellerMeetsNoDriver, Jobs,
     Released, TypeOK
<1>11. OneRunningRow'
  BY <1>1, <1>2, <1>3, NoJobAssumption DEF OneRunningRow, Released, TypeOK
<1> QED BY <1>4, <1>5, <1>6, <1>7, <1>8, <1>9, <1>10, <1>11

\* Steps that only the hazards allow.
LEMMA HazardStepsNever ==
  ASSUME Hazards = {}, ClaimsInv, NEW w \in Actors
  PROVE  /\ ~ClaimRefusalIgnored(w) /\ ~Drained(w)
         /\ ~RecordPreflight(w) /\ ~StorePreflight(w)
         /\ \A j \in Jobs : ~StartShellPreflight(w, j)
BY ClaimsNoRecorder
   DEF ClaimRefusalIgnored, Drained, RecordPreflight, StorePreflight,
       StartShellPreflight, May, ClaimsInv, OneHolder

\* A stuttering step.
LEMMA NothingKeeps ==
  ASSUME ClaimsInv, UNCHANGED vars
  PROVE  ClaimsInv'
BY DEF ClaimsInv, vars, TypeOK, OneHolder, WaitingIsUnstarted, TaskHadRow,
       ClaimFromFreshRow, PendingIsUnstamped, DriverOwnsFreshRow,
       CancellerMeetsNoDriver, OneRunningRow, Working, Unstarted, Early, Claiming,
       Driving, Stopping

\* Every step of a deployment without hazards keeps the invariant.
LEMMA ClaimsStep ==
  ASSUME Hazards = {}, ClaimsInv, [Next]_vars
  PROVE  ClaimsInv'
<1>1. TypeOK'
  BY TypeStep DEF ClaimsInv
<1>2. ASSUME NEW j \in Jobs, Request(j)
      PROVE  ClaimsInv'
  BY <1>1, <1>2, TriggerRunKeeps, DispatchRunKeeps, DeleteRunKeeps,
     CancelReadKeeps, CancelFlagKeeps, CancelInterruptKeeps,
     TriggerPreflightKeeps, CancelPreflightKeeps
     DEF Request, Endpoint
<1>3. ASSUME NEW j \in Jobs, Age(j) \/ LoseMessage(j)
      PROVE  ClaimsInv'
  BY <1>1, <1>3, AgeKeeps, LoseMessageKeeps
<1>4. CASE Poll
  BY <1>1, <1>4, PollKeeps
<1>5. ASSUME NEW w \in Actors, Start(w)
      PROVE  ClaimsInv'
  BY <1>1, <1>5, TakeTaskKeeps, StartShellKeeps, HazardStepsNever DEF Start
<1>6. ASSUME NEW w \in Actors, Prepare(w)
      PROVE  ClaimsInv'
  BY <1>1, <1>6, TaskLookupKeeps, LookupMissingKeeps, LookupCancelledKeeps,
     LookupReadyKeeps, ClaimReleasesRunsKeeps, ClaimReleasesPreflightsKeeps,
     ClaimKeeps, ClaimRefusedKeeps, HazardStepsNever
     DEF Prepare
<1>7. ASSUME NEW w \in Actors, Drive(w)
      PROVE  ClaimsInv'
  BY <1>1, <1>7, BeatKeeps, NoticeCancelKeeps, LeaveLoopKeeps, InterruptKeeps,
     FinishKeeps, FailRunKeeps, HazardStepsNever
     DEF Drive
<1>8. ASSUME NEW w \in Actors, Crash(w)
      PROVE  ClaimsInv'
  BY <1>1, <1>8, CrashKeeps
<1>9. CASE UNCHANGED vars
  BY <1>9, NothingKeeps
<1> QED BY <1>2, <1>3, <1>4, <1>5, <1>6, <1>7, <1>8, <1>9 DEF Next

-------------------------------------------------------------------------------
(* What follows in a deployment without hazards. *)

\* Empty tables and idle processes.
LEMMA ClaimsInit == Init => ClaimsInv
<1> SUFFICES ASSUME Init PROVE ClaimsInv
  OBVIOUS
<1>1. TypeOK
  BY DEF Init, TypeOK, Row, Status, Stamp, PC
<1>2. OneHolder /\ WaitingIsUnstarted /\ TaskHadRow
  BY NoJobAssumption
     DEF Init, OneHolder, WaitingIsUnstarted, TaskHadRow, Early, Unstarted, Working,
         Actors
<1>3. ClaimFromFreshRow /\ PendingIsUnstamped /\ DriverOwnsFreshRow
  BY DEF Init, ClaimFromFreshRow, PendingIsUnstamped, DriverOwnsFreshRow, Claiming,
         Driving, Stopping
<1>4. CancellerMeetsNoDriver /\ OneRunningRow
  BY DEF Init, CancellerMeetsNoDriver, OneRunningRow, Jobs
<1> QED BY <1>1, <1>2, <1>3, <1>4 DEF ClaimsInv

\* The inductive invariant holds for every number of ids, devices and processes.
THEOREM ClaimsInvariant ==
  ASSUME Hazards = {}
  PROVE  Spec => []ClaimsInv
<1>1. ClaimsInv /\ [Next]_vars => ClaimsInv'
  BY ClaimsStep
<1> QED BY ClaimsInit, <1>1, PTL DEF Spec

\* Two drivers are two running rows.
LEMMA DriversHoldRows ==
  ASSUME ClaimsInv
  PROVE  DeviceExclusive /\ DriverHoldsRow
<1>1. DriverHoldsRow
  BY DEF ClaimsInv, DriverOwnsFreshRow, DriverHoldsRow
<1>2. ASSUME NEW w \in Actors, NEW v \in Actors, w # v, Driving(w), Driving(v)
      PROVE  DeviceOf[job[w]] # DeviceOf[job[v]]
  <2>1. job[w] \in Jobs /\ job[v] \in Jobs
    BY <1>2, AtWork DEF Driving, Stopping
  <2>2. job[w] # job[v]
    BY <1>2, <2>1, NoJobAssumption DEF ClaimsInv, OneHolder
  <2> QED BY <1>1, <1>2, <2>1, <2>2 DEF ClaimsInv, OneRunningRow, DriverHoldsRow
<1> QED BY <1>1, <1>2 DEF DeviceExclusive

\* One phone is driven by one process at a time, however many workers,
\* terminals, runs, preflights and devices there are.
THEOREM Exclusion ==
  ASSUME Hazards = {}
  PROVE  Spec => []DeviceExclusive
BY ClaimsInvariant, DriversHoldRows, PTL

\* test_runs and preflight_reports never show two running rows of one device.
THEOREM RunningRowsExclude ==
  ASSUME Hazards = {}
  PROVE  Spec => []OneRunningRow
<1>1. ClaimsInv => OneRunningRow
  BY DEF ClaimsInv
<1> QED BY ClaimsInvariant, <1>1, PTL

\* Nobody takes the row from under a process that drives.
THEOREM DriversKeepTheirRow ==
  ASSUME Hazards = {}
  PROVE  Spec => []DriverHoldsRow
BY ClaimsInvariant, DriversHoldRows, PTL

\* The invariant keeps every write away from a run that ended.
LEMMA EndedStep ==
  ASSUME Hazards = {}, ClaimsInv, [Next]_vars, NEW r \in Runs,
         row[r].status \in {"completed", "failed"}
  PROVE  row'[r].status \in {row[r].status, "deleted"}
<1> DEFINE Kept == row'[r].status \in {row[r].status, "deleted"}
<1> USE DEF ClaimsInv
<1>1. r \in Jobs
  BY DEF Jobs
<1>2. \A j \in Jobs : Only(j) /\ (j = r => Kept) => Kept
  BY <1>1 DEF Only
<1>3. ASSUME NEW j \in Jobs, Request(j) \/ Age(j) \/ LoseMessage(j)
      PROVE  Kept
  <2>1. CASE j \in Runs /\ (TriggerRun(j) \/ DeleteRun(j))
    BY <2>1, <1>2, PutEffect DEF TriggerRun, DeleteRun, Becomes
  <2>2. CASE (j \in Runs /\ (DispatchRun(j) \/ CancelRead(j))) \/ LoseMessage(j)
    BY <2>2 DEF DispatchRun, CancelRead, LoseMessage
  <2>3. CASE j \in Runs /\ CancelFlag(j)
    BY <2>3, <1>2, PutEffect DEF CancelFlag, PutExisting, Becomes
  <2>4. CASE j \in Runs /\ CancelInterrupt(j)
    <3>1. j # r
      BY <2>4 DEF CancelInterrupt, CancellerMeetsNoDriver
    <3> QED BY <2>4, <3>1, <1>2, FinalWriteEffect DEF CancelInterrupt, Becomes
  <2>5. CASE j \in Preflights /\ (TriggerPreflight(j) \/ CancelPreflight(j))
    BY <2>5, <1>2, PutEffect DEF TriggerPreflight, CancelPreflight, Becomes
  <2>6. CASE Age(j)
    BY <2>6, <1>2, PutEffect DEF Age, Becomes
  <2> QED BY <1>3, <2>1, <2>2, <2>3, <2>4, <2>5, <2>6 DEF Request, Endpoint
<1>4. ASSUME Release(Runs, "interrupted") \/ Release(Preflights, "failed")
      PROVE  Kept
  BY <1>1, <1>4, ReleasedStep DEF Released
<1>5. CASE Poll
  BY <1>4, <1>5 DEF Poll, PollReleaseRuns, PollReleasePreflights,
     ReleaseAbandonedRuns, ReleaseAbandonedPreflights
<1>6. ASSUME NEW w \in Actors, Start(w) \/ Crash(w)
      PROVE  Kept
  BY <1>6 DEF Start, Crash, TakeTask, StartShell, StartShellPreflight
<1>7. ASSUME NEW w \in Actors, Prepare(w)
      PROVE  Kept
  <2>1. CASE TaskLookup(w)
    <3>1. job[w] \in Jobs
      BY <2>1, AtWork DEF TaskLookup
    <3> QED BY <2>1, <3>1, <1>2, PutEffect DEF TaskLookup, Becomes, Exists
  <2>2. CASE LookupMissing(w)
    <3>1. job[w] \in Jobs
      BY <2>2, AtWork DEF LookupMissing
    <3> QED BY <2>2, <3>1, <1>2, PutEffect DEF LookupMissing, Becomes, Exists
  <2>3. CASE LookupCancelled(w)
    <3>1. job[w] \in Jobs /\ job[w] # r
      BY <2>3, AtWork DEF LookupCancelled, WaitingIsUnstarted, Unstarted, Early
    <3> QED BY <2>3, <3>1, <1>2, FinalWriteEffect DEF LookupCancelled, Becomes
  <2>4. CASE LookupReady(w) \/ ClaimRefused(w) \/ ClaimRefusalIgnored(w)
    BY <2>4 DEF LookupReady, ClaimRefused, ClaimRefusalIgnored
  <2>5. CASE ClaimReleasesRuns(w) \/ ClaimReleasesPreflights(w)
    BY <2>5, <1>4 DEF ClaimReleasesRuns, ClaimReleasesPreflights,
       ReleaseAbandonedRuns, ReleaseAbandonedPreflights
  <2>6. CASE Claim(w)
    <3>1. job[w] \in Jobs /\ job[w] # r
      BY <2>6, AtWork DEF Claim, ClaimFromFreshRow, Unstarted, Claiming
    <3> QED BY <2>6, <3>1, <1>2, PutEffect DEF Claim, Becomes
  <2> QED BY <1>7, <2>1, <2>2, <2>3, <2>4, <2>5, <2>6 DEF Prepare
<1>8. ASSUME NEW w \in Actors, Drive(w)
      PROVE  Kept
  <2>1. CASE Beat(w) \/ FailRun(w) \/ Finish(w)
    <3>1. job[w] \in Jobs /\ job[w] # r
      BY <2>1, AtWork
         DEF Beat, FailRun, Finish, DriverOwnsFreshRow, Driving, Stopping
    <3> QED BY <2>1, <3>1, <1>2, FinalWriteEffect
            DEF Beat, FailRun, Finish, Becomes
  <2>2. CASE NoticeCancel(w) \/ LeaveLoop(w) \/ Interrupt(w)
    BY <2>2 DEF NoticeCancel, LeaveLoop, Interrupt, Stop
  <2> QED BY <1>8, <2>1, <2>2, HazardStepsNever DEF Drive
<1>9. CASE UNCHANGED vars
  BY <1>9 DEF vars
<1> QED BY <1>3, <1>5, <1>6, <1>7, <1>8, <1>9 DEF Next

\* A run that completed or failed is never set running, failed or interrupted
\* again: not by a retried task, a late heartbeat, a release or a cancel.
THEOREM RunsEndOnce ==
  ASSUME Hazards = {}
  PROVE  Spec => EndedOnce
<1>1. ClaimsInv /\ [Next]_vars =>
        [\A r \in Runs : row[r].status \in {"completed", "failed"}
           => row'[r].status \in {row[r].status, "deleted"}]_vars
  BY EndedStep
<1> QED BY ClaimsInvariant, <1>1, PTL DEF Spec, EndedOnce

-------------------------------------------------------------------------------
(* Dispatch, by any number of callers, until a race is met.                *)

\* No hazard of DeviceClaims and no terminal; of Dispatch nothing is assumed.
WorkersOnly == Hazards = {} /\ Shells = {}

\* The caller c has chosen r and has not sent it yet.
Holds(c, r) == call[c].at \in {"picked", "marked"} /\ call[c].run = r

\* What Celery has keeps its mark while its row waits.
OutstandingIsMarked ==
  \A r \in Runs : Outstanding(r) /\ Waits(r) => queuedAt[r] = "fresh"

\* What a caller holds nobody else has, it has not started, and once marked it
\* keeps its mark while its row waits.
HeldIsFree ==
  \A c \in Dispatchers, r \in Runs : Holds(c, r) =>
    /\ row[r].status # "absent" /\ Unstarted(r) /\ ~Outstanding(r)
    /\ call[c].at = "marked" /\ Waits(r) => queuedAt[r] = "fresh"
    /\ \A e \in Dispatchers : Holds(e, r) => e = c

DispatchInv == ClaimsInv /\ DispatchTypeOK /\ OutstandingIsMarked /\ HeldIsFree

\* Kept by every step: once a race is met nothing more is said.
UntilRaced == raced \/ DispatchInv

\* A set of runs that is not empty has an oldest run, and Oldest is one.
LEMMA OldestIsOne ==
  ASSUME NEW S, S \subseteq Runs, S # {}
  PROVE  Oldest(S) \in S
<1> DEFINE Ids == {RowId[r] : r \in S}
           Less == {ss \in Nat \X Nat : ss[1] < ss[2]}
<1>1. Ids \subseteq Nat /\ Ids # {}
  BY DispatchAssumption
<1>2. IsWellFoundedOn(Less, Nat)
  BY NatLessThanWellFounded DEF OpToRel
<1>3. PICK i \in Ids : \A k \in Ids : ~(<<k, i>> \in Less)
  <2> HIDE DEF Ids, Less
  <2> QED BY <1>1, <1>2, WFMin
<1>4. \A k \in Ids : ~(k < i)
  BY <1>3, <1>1
<1>5. PICK r \in S : RowId[r] = i
  OBVIOUS
<1>6. \A s \in S : RowId[r] <= RowId[s]
  BY <1>1, <1>4, <1>5
<1> QED BY <1>6 DEF Oldest

\* Outside dispatch_pending a row comes to wait only when it is inserted, and a
\* row nobody has is not started.
LEMMA WaitingRowStep ==
  ASSUME Hazards = {}, ClaimsInv, NEW r \in Runs,
         \/ \E j \in Jobs : Age(j) \/ Endpoint(j)
         \/ Poll
         \/ \E w \in Actors : Start(w) \/ Prepare(w) \/ Drive(w)
  PROVE  /\ row'[r].status = "absent" => row[r].status = "absent"
         /\ Waits(r)' => Waits(r) \/ ~Exists(r)
         /\ Unstarted(r) /\ row[r].status # "absent" /\ ~Outstanding(r) => Unstarted(r)'
<1> DEFINE Kept == /\ row'[r].status = "absent" => row[r].status = "absent"
                   /\ Waits(r)' => Waits(r) \/ ~Exists(r)
                   /\ Unstarted(r) /\ row[r].status # "absent" /\ ~Outstanding(r) => Unstarted(r)'
<1> USE DEF ClaimsInv
<1>1. r \in Jobs /\ r \notin Preflights
  BY ClaimsAssumption DEF Jobs
<1>2. row'[r] = row[r] => Kept
  BY DEF Waits, Unstarted
<1>3. \A j \in Jobs : Only(j) /\ (j = r => Kept) => Kept
  BY <1>1, <1>2 DEF Only
<1>4. ASSUME NEW j \in Jobs, Endpoint(j)
      PROVE  Kept
  <2>1. CASE j \in Runs /\ (TriggerRun(j) \/ DeleteRun(j))
    <3>1. \/ Becomes(j, "pending", FALSE, "none") /\ ~Exists(j)
          \/ Becomes(j, "deleted", FALSE, "none")
      BY <2>1, PutEffect DEF TriggerRun, DeleteRun, Exists
    <3> QED BY <3>1, <1>3 DEF Becomes, Waits, Unstarted
  <2>2. CASE j \in Runs /\ CancelRead(j)
    BY <2>2, <1>2 DEF CancelRead
  <2>3. CASE j \in Runs /\ CancelFlag(j)
    BY <2>3, <1>1, <1>2, <1>3, PutEffect
       DEF CancelFlag, PutExisting, Becomes, Waits, Unstarted
  <2>4. CASE j \in Runs /\ CancelInterrupt(j)
    <3>1. row[j].cancel
      BY <2>4 DEF CancelInterrupt, CancellerMeetsNoDriver
    <3> QED BY <2>4, <3>1, <1>1, <1>2, <1>3, FinalWriteEffect
            DEF CancelInterrupt, Becomes, Waits, Unstarted
  <2>5. CASE j \in Preflights /\ (TriggerPreflight(j) \/ CancelPreflight(j))
    BY <2>5, <1>1, <1>3, PutEffect DEF TriggerPreflight, CancelPreflight, Becomes
  <2> QED BY <1>4, <2>1, <2>2, <2>3, <2>4, <2>5 DEF Endpoint
<1>5. ASSUME NEW j \in Jobs, Age(j)
      PROVE  Kept
  BY <1>5, <1>1, <1>3, PutEffect DEF Age, Becomes, Waits, Unstarted
<1>6. ASSUME Release(Runs, "interrupted") \/ Release(Preflights, "failed")
      PROVE  Kept
  BY <1>1, <1>6, ReleasedStep DEF Released, Waits, Unstarted
<1>7. CASE Poll
  BY <1>6, <1>7 DEF Poll, PollReleaseRuns, PollReleasePreflights,
     ReleaseAbandonedRuns, ReleaseAbandonedPreflights
<1>8. ASSUME NEW w \in Actors, Start(w)
      PROVE  Kept
  BY <1>8, <1>2 DEF Start, TakeTask, StartShell, StartShellPreflight
<1>9. ASSUME NEW w \in Actors, pc[w] # "idle", Only(job[w]),
             job[w] = r => /\ row'[r].status # "absent"
                           /\ Waits(r)' => Waits(r) \/ ~Exists(r)
      PROVE  Kept
  <2>1. job[w] \in Jobs /\ Working(job[w])
    BY <1>9, AtWork
  <2> QED BY <2>1, <1>3, <1>9 DEF Outstanding
<1>10. ASSUME NEW w \in Actors, Prepare(w)
       PROVE  Kept
  <2>1. CASE TaskLookup(w) \/ LookupMissing(w)
    <3>1. job[w] \in Jobs /\ pc[w] # "idle"
      BY <2>1, AtWork DEF TaskLookup, LookupMissing
    <3> QED BY <2>1, <3>1, <1>2, <1>9, PutEffect
            DEF TaskLookup, LookupMissing, Becomes, Exists
  <2>2. CASE LookupCancelled(w)
    <3>1. job[w] \in Jobs /\ pc[w] # "idle"
      BY <2>2, AtWork DEF LookupCancelled
    <3> QED BY <2>2, <3>1, <1>9, FinalWriteEffect DEF LookupCancelled, Becomes, Waits
  <2>3. CASE LookupReady(w) \/ ClaimRefused(w) \/ ClaimRefusalIgnored(w)
    BY <2>3, <1>2 DEF LookupReady, ClaimRefused, ClaimRefusalIgnored
  <2>4. CASE ClaimReleasesRuns(w) \/ ClaimReleasesPreflights(w)
    BY <2>4, <1>6 DEF ClaimReleasesRuns, ClaimReleasesPreflights,
       ReleaseAbandonedRuns, ReleaseAbandonedPreflights
  <2>5. CASE Claim(w)
    <3>1. job[w] \in Jobs /\ pc[w] # "idle"
      BY <2>5, AtWork DEF Claim
    <3> QED BY <2>5, <3>1, <1>9, PutEffect DEF Claim, Becomes, Waits
  <2> QED BY <1>10, <2>1, <2>2, <2>3, <2>4, <2>5 DEF Prepare
<1>11. ASSUME NEW w \in Actors, Drive(w)
       PROVE  Kept
  <2>1. CASE Beat(w) \/ FailRun(w) \/ Finish(w)
    <3>1. job[w] \in Jobs /\ pc[w] # "idle" /\ Driving(w)
      BY <2>1, AtWork DEF Beat, FailRun, Finish, Driving, Stopping
    <3>2. Exists(job[w])
      BY <3>1 DEF DriverOwnsFreshRow, Exists
    <3> QED BY <2>1, <3>1, <3>2, <1>9, FinalWriteEffect
            DEF Beat, FailRun, Finish, Becomes, Waits
  <2>2. CASE NoticeCancel(w) \/ LeaveLoop(w) \/ Interrupt(w)
    BY <2>2, <1>2 DEF NoticeCancel, LeaveLoop, Interrupt, Stop
  <2> QED BY <1>11, <2>1, <2>2, HazardStepsNever DEF Drive
<1> QED BY <1>4, <1>5, <1>7, <1>8, <1>10, <1>11

\* Outside dispatch_pending nobody gets a run that nobody had.
LEMMA HandedByDispatch ==
  ASSUME Hazards = {}, Shells = {}, ClaimsInv, NEW r \in Runs,
         \/ \E j \in Jobs : Age(j) \/ Endpoint(j)
         \/ Poll
         \/ \E w \in Actors : Start(w) \/ Prepare(w) \/ Drive(w),
         Outstanding(r)'
  PROVE  Outstanding(r)
<1> USE DEF ClaimsInv
<1>1. r \in Jobs /\ r \notin Preflights /\ Actors = Workers
  BY ClaimsAssumption DEF Jobs, Actors
<1>2. tasks'[r] = tasks[r] /\ (\A w \in Actors : job'[w] = job[w] \/ job'[w] = NoJob)
        => Outstanding(r)
  BY <1>1, NoJobAssumption DEF Outstanding, Working
<1>3. ASSUME NEW j \in Jobs, Age(j) \/ Endpoint(j)
      PROVE  Outstanding(r)
  <2>1. CASE j \in Preflights /\ TriggerPreflight(j)
    <3>1. tasks'[r] = tasks[r] /\ job' = job
      BY <2>1, <1>1 DEF TriggerPreflight, TypeOK
    <3> QED BY <3>1, <1>2
  <2>2. CASE UNCHANGED <<tasks, job>>
    BY <2>2, <1>2
  <2> QED BY <1>3, <2>1, <2>2
          DEF Age, Endpoint, TriggerRun, DeleteRun, CancelRead, CancelFlag,
              CancelInterrupt, CancelPreflight
<1>4. CASE Poll
  BY <1>2, <1>4 DEF Poll, PollReleaseRuns, PollReleasePreflights
<1>5. ASSUME NEW w \in Actors, Start(w)
      PROVE  Outstanding(r)
  <2>1. PICK j \in Jobs : TakeTask(w, j)
    BY <1>1, <1>5, HazardStepsNever DEF Start, StartShell
  <2>2. CASE j = r
    BY <2>1, <2>2 DEF TakeTask, Outstanding
  <2>3. CASE j # r
    <3>1. tasks'[r] = tasks[r] /\ Begins(w, j, "task")
      BY <2>1, <2>3, <1>1, ProcessEffect DEF TakeTask, TypeOK
    <3> QED BY <3>1, <2>3, <1>1 DEF Begins, Outstanding, Working
  <2> QED BY <2>2, <2>3
<1>6. ASSUME NEW w \in Actors, Prepare(w) \/ Drive(w)
      PROVE  Outstanding(r)
  <2>1. CASE ClaimRefused(w)
    <3>1. job[w] \in Jobs /\ Leaves(w)
      BY <2>1, AtWork, ProcessEffect DEF ClaimRefused
    <3>2. CASE job[w] = r
      BY <3>2 DEF Outstanding, Working
    <3>3. CASE job[w] # r
      <4>1. tasks'[r] = tasks[r]
        BY <2>1, <3>1, <3>3, <1>1 DEF ClaimRefused, TypeOK
      <4> QED BY <4>1, <3>1, <1>2 DEF Leaves
    <3> QED BY <3>2, <3>3
  <2>2. CASE UNCHANGED <<tasks, job>>
    BY <2>2, <1>2
  <2>3. CASE UNCHANGED tasks /\ Quit(w)
    <3>1. Leaves(w)
      BY <2>3, ProcessEffect
    <3> QED BY <2>3, <3>1, <1>2 DEF Leaves
  <2> QED BY <1>6, <2>1, <2>2, <2>3
          DEF Prepare, Drive, TaskLookup, LookupMissing, LookupCancelled,
              LookupReady, ClaimReleasesRuns, ClaimReleasesPreflights, Claim,
              ClaimRefusalIgnored, Beat, NoticeCancel, LeaveLoop, Interrupt, Stop,
              Finish, FailRun, Drained, RecordPreflight, StorePreflight
<1> QED BY <1>3, <1>4, <1>5, <1>6

\* The marks keep their type, and callers keep to the runs there are.
LEMMA DispatchTypeStep ==
  ASSUME DispatchTypeOK, TypeOK', [DispatchNext]_allVars
  PROVE  DispatchTypeOK'
<1> USE DEF DispatchTypeOK
<1>1. {"none", "fresh", "stale"} = Stamp
  BY DEF Stamp
<1>2. CASE Elsewhere
  <2>1. queuedAt' \in [Runs -> Stamp]
    BY <1>2, <1>1 DEF Elsewhere, Around, KeepQueuedAt
  <2>2. faults' \in 0..MaxFaults
    BY <1>2, DispatchAssumption DEF Elsewhere, Around, Fault
  <2>3. raced' \in BOOLEAN
    BY <1>2 DEF Elsewhere, Around, Meets
  <2> QED BY <1>2, <2>1, <2>2, <2>3 DEF Elsewhere, Around
<1>3. ASSUME NEW c \in Dispatchers, NEW d \in Devices, Check(c, d)
      PROVE  DispatchTypeOK'
  BY <1>3 DEF Check, Goes, Call
<1>12. ASSUME NEW c \in Dispatchers, PickNothing(c)
       PROVE  DispatchTypeOK'
  BY <1>12 DEF PickNothing, Goes, Call, NoCall
<1>4. ASSUME NEW c \in Dispatchers, Pick(c)
      PROVE  DispatchTypeOK'
  <2>1. Oldest(Waiting(call[c].device)) \in Runs
    BY <1>4, OldestIsOne DEF Waiting, Pick
  <2>2. raced' \in BOOLEAN
    BY <1>4 DEF Pick, Meets
  <2> QED BY <1>4, <2>1, <2>2 DEF Pick, Goes, Call
<1>5. ASSUME NEW c \in Dispatchers, Mark(c)
      PROVE  DispatchTypeOK'
  BY <1>5, <1>1 DEF Mark, Goes
<1>6. ASSUME NEW c \in Dispatchers, Send(c)
      PROVE  DispatchTypeOK'
  BY <1>6 DEF Send, Goes, NoCall, Call
<1>7. ASSUME NEW c \in Dispatchers, CallFails(c)
      PROVE  DispatchTypeOK'
  BY <1>7, DispatchAssumption DEF CallFails, Goes, NoCall, Call, Fault
<1>8. ASSUME NEW r \in Runs, AgeQueued(r)
      PROVE  DispatchTypeOK'
  BY <1>8, <1>1 DEF AgeQueued, Meets
<1>9. ASSUME NEW j \in Jobs, MessageLost(j)
      PROVE  DispatchTypeOK'
  BY <1>9, DispatchAssumption DEF MessageLost, Fault
<1>10. ASSUME NEW w \in Actors, WorkerDies(w)
       PROVE  DispatchTypeOK'
  BY <1>10, DispatchAssumption DEF WorkerDies, Fault
<1>11. CASE UNCHANGED allVars
  BY <1>11 DEF allVars
<1> QED BY <1>2, <1>3, <1>4, <1>5, <1>6, <1>7, <1>8, <1>9, <1>10, <1>11, <1>12
        DEF DispatchNext, DispatchStep

\* What a caller sends is what DeviceClaims lets DispatchRun hand out.
LEMMA DispatchSimulates ==
  ASSUME DispatchInv, [DispatchNext]_allVars
  PROVE  [Next]_vars
<1>1. CASE Elsewhere
  BY <1>1 DEF Elsewhere, Next, Request
<1>2. ASSUME NEW c \in Dispatchers, Send(c)
      PROVE  Next
  <2>1. call[c].run \in Runs
    BY <1>2 DEF DispatchInv, DispatchTypeOK, Send
  <2>2. /\ row[call[c].run].status # "absent"
        /\ Unstarted(call[c].run) /\ ~Outstanding(call[c].run)
    BY <1>2, <2>1 DEF DispatchInv, HeldIsFree, Holds, Send
  <2>3. DispatchRun(call[c].run)
    BY <1>2, <2>2 DEF Send, DispatchRun
  <2> QED BY <2>1, <2>3 DEF Next, Request, Jobs
<1>3. ASSUME NEW c \in Dispatchers, DispatchStep(c) \/ CallFails(c)
      PROVE  Next \/ UNCHANGED vars
  BY <1>2, <1>3 DEF DispatchStep, Check, PickNothing, Pick, Mark, CallFails
<1>4. (\E r \in Runs : AgeQueued(r)) \/ UNCHANGED allVars => UNCHANGED vars
  BY DEF AgeQueued, allVars, vars
<1>5. (\E j \in Jobs : MessageLost(j)) \/ (\E w \in Actors : WorkerDies(w)) => Next
  BY DEF MessageLost, WorkerDies, Next
<1> QED BY <1>1, <1>3, <1>4, <1>5 DEF DispatchNext

\* What Celery has was inserted once.
LEMMA OutstandingWasInserted ==
  ASSUME WorkersOnly, ClaimsInv, NEW r \in Runs, Outstanding(r)
  PROVE  row[r].status # "absent"
<1> USE DEF ClaimsInv
<1>1. r \in Jobs /\ r # NoJob /\ Actors = Workers
  BY ClaimsAssumption, NoJobAssumption DEF Jobs, Actors, WorkersOnly
<1>2. tasks[r] > 0 => row[r].status # "absent"
  BY <1>1 DEF OneHolder, TaskHadRow
<1>3. \A w \in Workers : job[w] = r => row[r].status # "absent"
  BY <1>1 DEF OneHolder, TaskHadRow
<1> QED BY <1>1, <1>2, <1>3 DEF Outstanding, Working

\* A row that is inserted may wait from then on only if it was never there or if
\* it meets the race of a deleted run; any other keeps its mark.
LEMMA InsertedKeepsMark ==
  ASSUME WorkersOnly, DispatchInv, Elsewhere, ~raced', NEW r \in Runs,
         row[r].status # "absent", Waits(r)'
  PROVE  Waits(r) /\ queuedAt'[r] = queuedAt[r]
<1>1. Waits(r) \/ ~Exists(r)
  BY WaitingRowStep DEF WorkersOnly, DispatchInv, Elsewhere
<1>2. Exists(r)'
  BY DEF Waits, Exists
<1>3. row[r].status # "deleted"
  BY <1>2 DEF Elsewhere, Around, Meets, Recreates
<1> QED BY <1>1, <1>2, <1>3 DEF Elsewhere, Around, KeepQueuedAt, Exists

\* Outstanding runs stay marked.
LEMMA MarkedStep ==
  ASSUME WorkersOnly, DispatchInv, [DispatchNext]_allVars, ~raced'
  PROVE  OutstandingIsMarked'
<1> USE DEF DispatchInv
<1>1. CASE Elsewhere
  <2> SUFFICES ASSUME NEW r \in Runs, Outstanding(r)', Waits(r)'
               PROVE  queuedAt'[r] = "fresh"
    BY DEF OutstandingIsMarked
  <2>1. Outstanding(r)
    BY <1>1, HandedByDispatch DEF Elsewhere, WorkersOnly
  <2>2. row[r].status # "absent"
    BY <2>1, OutstandingWasInserted
  <2> QED BY <1>1, <2>1, <2>2, InsertedKeepsMark DEF OutstandingIsMarked
<1>2. ASSUME row' = row, queuedAt' = queuedAt, \A r \in Runs : Outstanding(r)' => Outstanding(r)
      PROVE  OutstandingIsMarked'
  BY <1>2 DEF OutstandingIsMarked, Waits
<1>3. UNCHANGED <<vars, queuedAt>> => OutstandingIsMarked'
  BY <1>2 DEF vars, Outstanding, Working
<1>4. ASSUME NEW c \in Dispatchers, Mark(c)
      PROVE  OutstandingIsMarked'
  <2>1. \A r \in Runs : queuedAt'[r] = queuedAt[r] \/ queuedAt'[r] = "fresh"
    BY <1>4 DEF Mark, DispatchTypeOK
  <2> QED BY <1>4, <2>1 DEF Mark, vars, OutstandingIsMarked, Outstanding, Working, Waits
<1>5. ASSUME NEW c \in Dispatchers, Send(c)
      PROVE  OutstandingIsMarked'
  <2>1. call[c].run \in Runs
    BY <1>5 DEF DispatchTypeOK, Send
  <2>2. Waits(call[c].run) => queuedAt[call[c].run] = "fresh"
    BY <1>5, <2>1 DEF HeldIsFree, Holds, Send
  <2>3. ASSUME NEW r \in Runs, r # call[c].run, Outstanding(r)'
        PROVE  Outstanding(r)
    BY <1>5, <2>1, <2>3 DEF Send, Outstanding, Working, TypeOK, DispatchTypeOK
  <2> QED BY <1>5, <2>1, <2>2, <2>3 DEF Send, OutstandingIsMarked, Waits
<1>6. ASSUME NEW r \in Runs, AgeQueued(r)
      PROVE  OutstandingIsMarked'
  <2>1. ~(Outstanding(r) /\ Waits(r))
    BY <1>6 DEF AgeQueued, Meets, HandedOut
  <2>2. \A s \in Runs : s # r => queuedAt'[s] = queuedAt[s]
    BY <1>6 DEF AgeQueued, DispatchTypeOK
  <2> QED BY <1>6, <2>1, <2>2
          DEF AgeQueued, vars, OutstandingIsMarked, Outstanding, Working, Waits
<1>7. ASSUME NEW j \in Jobs, MessageLost(j)
      PROVE  OutstandingIsMarked'
  <2>1. \A r \in Runs : tasks'[r] > 0 => tasks[r] > 0
    BY <1>7 DEF MessageLost, LoseMessage, TypeOK, DispatchTypeOK, Jobs
  <2> QED BY <1>7, <2>1, <1>2 DEF MessageLost, LoseMessage, Outstanding, Working
<1>8. ASSUME NEW w \in Actors, WorkerDies(w)
      PROVE  OutstandingIsMarked'
  <2>1. \A v \in Actors : job'[v] \in {job[v], NoJob}
    BY <1>8, ProcessEffect DEF WorkerDies, Crash, Leaves, DispatchTypeOK
  <2>2. \A r \in Runs : r # NoJob
    BY NoJobAssumption DEF Jobs
  <2> QED BY <1>8, <2>1, <2>2, <1>2 DEF WorkerDies, Crash, Outstanding, Working
<1> QED BY <1>1, <1>3, <1>4, <1>5, <1>6, <1>7, <1>8
        DEF DispatchNext, DispatchStep, Check, PickNothing, Pick, CallFails, allVars, vars

\* What a caller holds stays its own and free until it is sent.
LEMMA HeldStep ==
  ASSUME WorkersOnly, DispatchInv, [DispatchNext]_allVars, ~raced'
  PROVE  HeldIsFree'
<1> USE DEF DispatchInv
<1>1. CASE Elsewhere
  <2>1. call' = call
    BY <1>1 DEF Elsewhere, Around
  <2> SUFFICES ASSUME NEW c \in Dispatchers, NEW r \in Runs, Holds(c, r)
               PROVE  /\ row'[r].status # "absent" /\ Unstarted(r)' /\ ~Outstanding(r)'
                      /\ call[c].at = "marked" /\ Waits(r)' => queuedAt'[r] = "fresh"
    BY <2>1 DEF HeldIsFree, Holds
  <2>2. row[r].status # "absent" /\ Unstarted(r) /\ ~Outstanding(r)
    BY DEF HeldIsFree
  <2>3. ~Outstanding(r)'
    BY <1>1, <2>2, HandedByDispatch DEF Elsewhere, WorkersOnly
  <2>4. row'[r].status # "absent" /\ Unstarted(r)'
    BY <1>1, <2>2, WaitingRowStep DEF Elsewhere, WorkersOnly
  <2>5. Waits(r)' => Waits(r) /\ queuedAt'[r] = queuedAt[r]
    BY <1>1, <2>2, InsertedKeepsMark
  <2> QED BY <2>3, <2>4, <2>5 DEF HeldIsFree
<1>2. ASSUME UNCHANGED <<vars, queuedAt>>,
             \A c \in Dispatchers : call'[c] = call[c] \/ call'[c].at \in {"idle", "checked"}
      PROVE  HeldIsFree'
  BY <1>2 DEF HeldIsFree, Holds, vars, Unstarted, Outstanding, Working, Waits
<1>3. ASSUME NEW c \in Dispatchers, NEW d \in Devices, Check(c, d)
      PROVE  HeldIsFree'
  BY <1>2, <1>3 DEF Check, Goes, Call, DispatchTypeOK
<1>4. ASSUME NEW c \in Dispatchers, CallFails(c)
      PROVE  HeldIsFree'
  BY <1>2, <1>4 DEF CallFails, Goes, Call, NoCall, DispatchTypeOK
<1>13. ASSUME NEW c \in Dispatchers, PickNothing(c)
       PROVE  HeldIsFree'
  BY <1>2, <1>13 DEF PickNothing, Goes, Call, NoCall, DispatchTypeOK
<1>5. ASSUME NEW c \in Dispatchers, Pick(c)
      PROVE  HeldIsFree'
  <2>1. PICK r \in Waiting(call[c].device) : r = Oldest(Waiting(call[c].device))
    BY <1>5, OldestIsOne DEF Waiting, Pick
  <2>2. r \in Runs /\ Waits(r) /\ queuedAt[r] # "fresh"
    BY <2>1 DEF Waiting
  <2>3. row[r].status # "absent" /\ Unstarted(r) /\ ~Outstanding(r)
    BY <2>2 DEF OutstandingIsMarked, Unstarted, Waits
  <2>4. ~PickedBefore(r)
    BY <1>5, <2>1 DEF Pick, Meets
  <2>5. \A e \in Dispatchers : ~Holds(e, r)
    BY <2>2, <2>4 DEF HeldIsFree, Holds, PickedBefore
  <2>6. /\ call'[c].at = "picked" /\ call'[c].run = r
        /\ \A e \in Dispatchers \ {c} : call'[e] = call[e]
    BY <1>5, <2>1 DEF Pick, Goes, Call, DispatchTypeOK
  <2>7. UNCHANGED <<vars, queuedAt>>
    BY <1>5 DEF Pick
  <2>8. \A e \in Dispatchers, s \in Runs :
          Holds(e, s)' <=> IF e = c THEN s = r ELSE Holds(e, s)
    BY <2>6 DEF Holds
  <2> SUFFICES ASSUME NEW e \in Dispatchers, NEW s \in Runs, Holds(e, s)'
               PROVE  /\ row'[s].status # "absent" /\ Unstarted(s)' /\ ~Outstanding(s)'
                      /\ call'[e].at = "marked" /\ Waits(s)' => queuedAt'[s] = "fresh"
                      /\ \A f \in Dispatchers : Holds(f, s)' => f = e
    BY DEF HeldIsFree
  <2>9. \A f \in Dispatchers : Holds(f, s)' => f = e
    BY <2>2, <2>5, <2>8 DEF HeldIsFree
  <2>10. row[s].status # "absent" /\ Unstarted(s) /\ ~Outstanding(s)
    BY <2>3, <2>8 DEF HeldIsFree
  <2>11. row'[s].status # "absent" /\ Unstarted(s)' /\ ~Outstanding(s)'
    BY <2>7, <2>10 DEF vars, Unstarted, Outstanding, Working
  <2>12. call'[e].at = "marked" /\ Waits(s)' => queuedAt'[s] = "fresh"
    BY <2>6, <2>7, <2>8 DEF HeldIsFree, vars, Waits
  <2> QED BY <2>9, <2>11, <2>12
<1>6. ASSUME NEW c \in Dispatchers, Mark(c)
      PROVE  HeldIsFree'
  <2>1. PICK r \in Runs : r = call[c].run
    BY <1>6 DEF Mark, DispatchTypeOK
  <2>2. Holds(c, r)
    BY <1>6, <2>1 DEF Mark, Holds
  <2>3. /\ call'[c].run = r /\ call'[c].at = "marked"
        /\ \A e \in Dispatchers \ {c} : call'[e] = call[e]
    BY <1>6, <2>1 DEF Mark, Goes, DispatchTypeOK
  <2>4. \A e \in Dispatchers, s \in Runs : Holds(e, s)' <=> Holds(e, s)
    BY <2>1, <2>2, <2>3 DEF Holds
  <2>5. UNCHANGED vars
    BY <1>6 DEF Mark
  <2>6. /\ Waits(r) => queuedAt'[r] = "fresh"
        /\ \A s \in Runs \ {r} : queuedAt'[s] = queuedAt[s]
    BY <1>6, <2>1 DEF Mark, DispatchTypeOK, Waits, Exists
  <2> SUFFICES ASSUME NEW e \in Dispatchers, NEW s \in Runs, Holds(e, s)
               PROVE  /\ row'[s].status # "absent" /\ Unstarted(s)' /\ ~Outstanding(s)'
                      /\ call'[e].at = "marked" /\ Waits(s)' => queuedAt'[s] = "fresh"
                      /\ \A f \in Dispatchers : Holds(f, s) => f = e
    BY <2>4 DEF HeldIsFree
  <2>7. row[s].status # "absent" /\ Unstarted(s) /\ ~Outstanding(s)
    BY DEF HeldIsFree
  <2>8. row'[s].status # "absent" /\ Unstarted(s)' /\ ~Outstanding(s)'
    BY <2>5, <2>7 DEF vars, Unstarted, Outstanding, Working
  <2>9. CASE s = r
    BY <2>5, <2>6, <2>8, <2>9 DEF vars, Waits, HeldIsFree
  <2>10. CASE s # r
    <3>1. e # c
      BY <2>1, <2>10 DEF Holds
    <3> QED BY <2>3, <2>5, <2>6, <2>8, <2>10, <3>1 DEF vars, Waits, HeldIsFree
  <2> QED BY <2>9, <2>10
<1>7. ASSUME NEW c \in Dispatchers, Send(c)
      PROVE  HeldIsFree'
  <2>1. PICK r \in Runs : r = call[c].run
    BY <1>7 DEF Send, DispatchTypeOK
  <2>2. Holds(c, r)
    BY <1>7, <2>1 DEF Send, Holds
  <2>3. /\ call'[c].at = "idle"
        /\ \A e \in Dispatchers \ {c} : call'[e] = call[e]
    BY <1>7 DEF Send, Goes, NoCall, Call, DispatchTypeOK
  <2>4. \A e \in Dispatchers, s \in Runs : Holds(e, s)' => Holds(e, s) /\ e # c /\ s # r
    BY <2>2, <2>3 DEF Holds, HeldIsFree
  <2>5. \A s \in Runs : s # r => tasks'[s] = tasks[s]
    BY <1>7, <2>1 DEF Send, TypeOK, DispatchTypeOK
  <2>6. UNCHANGED <<row, job, queuedAt>>
    BY <1>7 DEF Send
  <2> SUFFICES ASSUME NEW e \in Dispatchers, NEW s \in Runs, Holds(e, s)'
               PROVE  /\ row'[s].status # "absent" /\ Unstarted(s)' /\ ~Outstanding(s)'
                      /\ call'[e].at = "marked" /\ Waits(s)' => queuedAt'[s] = "fresh"
                      /\ \A f \in Dispatchers : Holds(f, s)' => f = e
    BY DEF HeldIsFree
  <2>7. Holds(e, s) /\ e # c /\ s # r
    BY <2>4
  <2>8. row'[s].status # "absent" /\ Unstarted(s)' /\ ~Outstanding(s)'
    BY <2>5, <2>6, <2>7 DEF HeldIsFree, Unstarted, Outstanding, Working
  <2> QED BY <2>3, <2>4, <2>6, <2>7, <2>8 DEF HeldIsFree, Waits
<1>8. ASSUME NEW r \in Runs, AgeQueued(r)
      PROVE  HeldIsFree'
  <2>1. \A c \in Dispatchers : ~(Holds(c, r) /\ Waits(r))
    BY <1>8 DEF AgeQueued, Meets, HandedOut, Holds
  <2>2. \A s \in Runs : s # r => queuedAt'[s] = queuedAt[s]
    BY <1>8 DEF AgeQueued, DispatchTypeOK
  <2> QED BY <1>8, <2>1, <2>2
          DEF AgeQueued, HeldIsFree, Holds, vars, Unstarted, Outstanding, Working, Waits
<1>9. ASSUME row' = row, queuedAt' = queuedAt, call' = call,
             \A r \in Runs : Outstanding(r)' => Outstanding(r)
      PROVE  HeldIsFree'
  BY <1>9 DEF HeldIsFree, Holds, Unstarted, Waits
<1>10. ASSUME NEW j \in Jobs, MessageLost(j)
      PROVE  HeldIsFree'
  <2>1. \A r \in Runs : tasks'[r] > 0 => tasks[r] > 0
    BY <1>10 DEF MessageLost, LoseMessage, TypeOK, DispatchTypeOK, Jobs
  <2> QED BY <1>10, <2>1, <1>9 DEF MessageLost, LoseMessage, Outstanding, Working
<1>11. ASSUME NEW w \in Actors, WorkerDies(w)
      PROVE  HeldIsFree'
  <2>1. \A v \in Actors : job'[v] \in {job[v], NoJob}
    BY <1>11, ProcessEffect DEF WorkerDies, Crash, Leaves, DispatchTypeOK
  <2>2. \A r \in Runs : r # NoJob
    BY NoJobAssumption DEF Jobs
  <2> QED BY <1>11, <2>1, <2>2, <1>9 DEF WorkerDies, Crash, Outstanding, Working
<1>12. CASE UNCHANGED allVars
  BY <1>2, <1>12 DEF allVars, vars
<1> QED BY <1>1, <1>3, <1>4, <1>5, <1>6, <1>7, <1>8, <1>10, <1>11, <1>12, <1>13
        DEF DispatchNext, DispatchStep

\* A race that was met has been met for good.
LEMMA RacedStays ==
  ASSUME raced, [DispatchNext]_allVars
  PROVE  raced'
BY DEF DispatchNext, DispatchStep, Elsewhere, Around, Check, PickNothing, Pick, Mark,
       Send, AgeQueued, CallFails, MessageLost, WorkerDies, Meets, allVars

\* Every step of dispatching keeps the invariant, or is a race.
LEMMA DispatchKeeps ==
  ASSUME WorkersOnly, UntilRaced, [DispatchNext]_allVars
  PROVE  UntilRaced'
<1>1. CASE raced
  BY <1>1, RacedStays DEF UntilRaced
<1>2. CASE DispatchInv /\ ~raced'
  <2>1. ClaimsInv'
    BY <1>2, DispatchSimulates, ClaimsStep DEF WorkersOnly, DispatchInv
  <2>2. DispatchTypeOK'
    BY <1>2, <2>1, DispatchTypeStep DEF DispatchInv, ClaimsInv
  <2> QED BY <1>2, <2>1, <2>2, MarkedStep, HeldStep DEF DispatchInv, UntilRaced
<1> QED BY <1>1, <1>2 DEF UntilRaced

\* At first nothing is handed out.
LEMMA DispatchStarts ==
  ASSUME DispatchInit
  PROVE  DispatchInv
<1>1. ClaimsInv
  BY ClaimsInit DEF DispatchInit
<1>2. DispatchTypeOK
  <2>1. TypeOK /\ faults \in 0..MaxFaults /\ raced \in BOOLEAN
    <3>1. TypeOK
      BY <1>1 DEF ClaimsInv
    <3>2. faults \in 0..MaxFaults
      BY DispatchAssumption DEF DispatchInit
    <3> QED BY <3>1, <3>2 DEF DispatchInit
  <2>2. queuedAt \in [Runs -> Stamp]
    BY DEF DispatchInit, Stamp
  <2> QED BY <2>1, <2>2 DEF DispatchInit, DispatchTypeOK, NoCall, Call
<1>3. \A r \in Runs : ~Outstanding(r)
  BY NoJobAssumption DEF DispatchInit, Init, Outstanding, Working, Jobs
<1> QED BY <1>1, <1>2, <1>3
        DEF DispatchInv, DispatchInit, OutstandingIsMarked, HeldIsFree, Holds, NoCall, Call

\* The invariant holds of every behaviour of the dispatching program.
LEMMA DispatchInvariant ==
  ASSUME WorkersOnly
  PROVE  DispatchSpec => []UntilRaced
<1>1. DispatchInit => UntilRaced
  BY DispatchStarts DEF UntilRaced
<1>2. UntilRaced /\ [DispatchNext]_allVars => UntilRaced'
  BY DispatchKeeps
<1> QED BY <1>1, <1>2, PTL DEF DispatchSpec

\* Dispatching in steps, by however many callers, whatever workers fail and
\* messages are lost, implements the one step DeviceClaims has for it until a
\* race is met.
THEOREM DispatchImplementsClaims ==
  ASSUME WorkersOnly
  PROVE  DispatchSpec => ImplementsDeviceClaims
<1>1. DispatchInit => Init
  BY DEF DispatchInit
<1>2. UntilRaced /\ [DispatchNext]_allVars => [~raced' => Next]_vars
  <2> SUFFICES ASSUME UntilRaced, [DispatchNext]_allVars, ~raced'
               PROVE  [Next]_vars
    OBVIOUS
  <2>1. DispatchInv
    BY RacedStays DEF UntilRaced
  <2> QED BY <2>1, DispatchSimulates
<1> QED BY DispatchInvariant, <1>1, <1>2, PTL DEF DispatchSpec, ImplementsDeviceClaims

\* However callers, workers and messages fail, a run is with Celery once until a
\* race is met.
THEOREM RunsAreHandedOutOnce ==
  ASSUME WorkersOnly
  PROVE  DispatchSpec => []HandedOutOnce
<1>1. UntilRaced => HandedOutOnce
  BY NoJobAssumption DEF UntilRaced, DispatchInv, ClaimsInv, OneHolder, HandedOutOnce, Jobs
<1> QED BY DispatchInvariant, <1>1, PTL

\* So the exclusion of drivers holds of the program that dispatches in steps, by
\* however many callers, until a race is met.
THEOREM DispatchedExclusion ==
  ASSUME WorkersOnly
  PROVE  DispatchSpec => [](~raced => DeviceExclusive)
<1>1. UntilRaced => (~raced => DeviceExclusive)
  BY DriversHoldRows DEF UntilRaced, DispatchInv
<1> QED BY DispatchInvariant, <1>1, PTL
==============================================================================
