-------------------------------- MODULE RunLoop --------------------------------
(***************************************************************************)
(* TestRunner.run from the moment it has claimed the device.  The run's    *)
(* thread goes round a control loop: it hears a cancel, takes in the       *)
(* collectors and the scenario steps that are over, reports the ones that  *)
(* take too long, and hands those that are due to a thread pool.  Then it  *)
(* quiets the device, waits for what is in flight, records it and ends its *)
(* row.  The threads of the pool drive the device meanwhile.               *)
(* The claim of the row is in DeviceClaims, the writer in BatchWriter.     *)
(***************************************************************************)
EXTENDS Integers, Sequences, FiniteSets

CONSTANTS
  Collectors,        \* the collectors' names
  NumSteps,          \* len(scenario)
  At,                \* the scripted times of the sorted steps
  Interval,          \* collector.interval
  Duration,          \* duration
  CollectorTimeout,  \* collector_timeout
  ActionTimeout,     \* adapter_action_timeout
  CheckInterval,     \* cancel_check_interval
  Horizon            \* bound: the clock stops here, after Duration

Steps == 1..NumSteps
Jobs == Collectors \cup Steps

ASSUME LoopAssumption ==
  /\ IsFiniteSet(Collectors)
  /\ NumSteps \in Nat /\ Collectors \cap Steps = {}
  /\ At \in [Steps -> Nat] /\ \A s, t \in Steps : s <= t => At[s] <= At[t]
  /\ Interval \in [Collectors -> Nat \ {0}]
  /\ {Duration, CollectorTimeout, ActionTimeout, CheckInterval, Horizon} \subseteq Nat
  /\ Duration <= Horizon

VARIABLES
  clock,      \* time.monotonic() - started, as a round reads it: now
  pc,         \* where the run's thread is
  stop,       \* the loop's stop flag
  cancelled,  \* the row's cancel_requested
  lastCheck,  \* last_cancel_check
  due,        \* when each collector is to be asked next
  next,       \* next_step, from 1
  active,     \* the keys of active and of scenario_active
  since,      \* when each active call was submitted
  timedOut,   \* timed_out and scenario_timed_out
  fut,        \* the future of each collector's latest call and of each step
  pool,       \* the executor's work queue
  verdict,    \* what the run has recorded of that call
  status,     \* the status the run is about to write
  row,        \* the status in the database
  quiet,      \* what the cleanup has done to the device and no step has undone:
              \* "stopped" the driven app, "home" on screen
  refused     \* the cleanup calls the device refused: "stop", "home"

loopVars == <<lastCheck, due, next>>
callVars == <<active, since, timedOut, verdict>>
poolVars == <<fut, pool>>
deviceVars == <<quiet, refused>>
endVars == <<status, row>>
vars == <<clock, pc, stop, cancelled, loopVars, callVars, poolVars, deviceVars, endVars>>

Over == {"ok", "raised"}
Ended == {"completed", "interrupted", "failed"}

Init ==
  /\ clock = 0 /\ pc = "head" /\ stop = FALSE /\ cancelled = FALSE /\ lastCheck = 0
  /\ due = [c \in Collectors |-> 0] /\ next = 1
  /\ active = {} /\ since = [j \in Jobs |-> 0] /\ timedOut = {}
  /\ fut = [j \in Jobs |-> "none"] /\ pool = <<>> /\ verdict = [j \in Jobs |-> {}]
  /\ status = "running" /\ row = "running"
  /\ quiet = {} /\ refused = {}

-------------------------------------------------------------------------------
(* The control loop. *)

\* Mutant: the loop forgets the duration.
RoundUntilStopped ==
  /\ pc = "head"
  /\ IF stop
     THEN pc' = "quiet"
     ELSE pc' = "check"
  /\ UNCHANGED <<clock, stop, cancelled, loopVars, callVars, poolVars, deviceVars, endVars>>

Round ==
  /\ pc = "head"
  /\ IF stop \/ clock >= Duration
     THEN pc' = "quiet"
     ELSE pc' = "check"
  /\ UNCHANGED <<clock, stop, cancelled, loopVars, callVars, poolVars, deviceVars, endVars>>

HeedCancel ==
  /\ pc = "check"
  /\ IF clock - lastCheck < CheckInterval
     THEN pc' = "reap" /\ UNCHANGED <<stop, lastCheck>>
     ELSE /\ lastCheck' = clock
          /\ stop' = (stop \/ cancelled)
          /\ pc' = IF cancelled THEN "quiet" ELSE "reap"
  /\ UNCHANGED <<clock, cancelled, due, next, callVars, poolVars, deviceVars, endVars>>

Limit(j) == IF j \in Collectors THEN CollectorTimeout ELSE ActionTimeout

\* What a finished future leaves in the record: its samples or its outcome, or
\* an error event.  A put of a collector's samples that raises is caught, and an
\* error event is put in their place.
Record(js, caught) ==
  [j \in Jobs |-> IF j \in js
                  THEN verdict[j] \cup {IF j \in caught THEN "raised" ELSE fut[j]}
                  ELSE verdict[j]]

IsOver(j) == j \in active /\ fut[j] \in Over

IsLate(j) == /\ j \in active \ timedOut /\ ~IsOver(j)
             /\ clock - since[j] >= Limit(j)

\* Mutant: what has been reported as timed out is recorded when it comes in.
TakeInAll(js, lost, caught) ==
  LET over == {j \in js : IsOver(j)}
      late == {j \in js : IsLate(j)}
  IN /\ active' = active \ over
     /\ since' = [j \in Jobs |-> IF j \in over THEN 0 ELSE since[j]]
     /\ timedOut' = (timedOut \ over) \cup late
     /\ verdict' = [j \in Jobs |-> IF j \in late \ lost THEN verdict[j] \cup {"timeout"}
                                   ELSE Record(over \ lost, caught)[j]]

\* A call that is over leaves active, and its result is recorded unless it has
\* been reported as timed out; one that takes too long is reported once.  The
\* run fails when it cannot record the lost one.
TakeInBut(js, lost, caught) ==
  LET over == {j \in js : IsOver(j)}
      late == {j \in js : IsLate(j)}
  IN /\ active' = active \ over
     /\ since' = [j \in Jobs |-> IF j \in over THEN 0 ELSE since[j]]
     /\ timedOut' = (timedOut \ over) \cup late
     /\ verdict' = [j \in Jobs |-> IF j \in late \ lost THEN verdict[j] \cup {"timeout"}
                                   ELSE Record(over \ (timedOut \cup lost), caught)[j]]

ReapCollectors ==
  /\ pc = "reap"
  /\ \E caught \in SUBSET Collectors : TakeInBut(Collectors, {}, caught)
  /\ pc' = "submit"
  /\ UNCHANGED <<clock, stop, cancelled, loopVars, poolVars, deviceVars, endVars>>

Due == {c \in Collectors : clock >= due[c] /\ c \notin active}

Enter(j) ==
  /\ fut' = [fut EXCEPT ![j] = "queued"]
  /\ pool' = Append(pool, j)
  /\ active' = active \cup {j}
  /\ since' = [since EXCEPT ![j] = clock]
  /\ verdict' = [verdict EXCEPT ![j] = {}]
  /\ UNCHANGED timedOut

Submit(c) ==
  /\ pc = "submit" /\ c \in Due
  /\ Enter(c)
  /\ due' = [due EXCEPT ![c] = clock + Interval[c]]
  /\ UNCHANGED <<clock, pc, stop, cancelled, lastCheck, next, deviceVars, endVars>>

ReapSteps ==
  /\ pc = "submit" /\ Due = {}
  /\ TakeInBut(Steps, {}, {})
  /\ pc' = "fire"
  /\ UNCHANGED <<clock, stop, cancelled, loopVars, poolVars, deviceVars, endVars>>

Fire(s) ==
  /\ pc = "fire" /\ s = next /\ clock >= At[s]
  /\ Enter(s)
  /\ next' = next + 1
  /\ UNCHANGED <<clock, pc, stop, cancelled, lastCheck, due, deviceVars, endVars>>

\* The heartbeat writes what the row says already.
Sleep ==
  /\ pc = "fire" /\ (next \in Steps => clock < At[next])
  /\ pc' = "head"
  /\ UNCHANGED <<clock, stop, cancelled, loopVars, callVars, poolVars, deviceVars, endVars>>

-------------------------------------------------------------------------------
(* The end of the run. *)

\* _stop_driven_app, which records an adapter_error if the device refuses.  The
\* run drives an app: it has an adapter, and its script names the package.
StopApp ==
  \/ quiet' = quiet \cup {"stopped"} /\ UNCHANGED refused
  \/ refused' = refused \cup {"stop"} /\ UNCHANGED quiet

\* Only a run that is being stopped quiets the device before it waits.
QuietFirst ==
  /\ pc = "quiet"
  /\ IF stop THEN StopApp ELSE UNCHANGED deviceVars
  /\ pc' = "shutdown"
  /\ UNCHANGED <<clock, stop, cancelled, loopVars, callVars, poolVars, endVars>>

CancelFutures ==
  /\ fut' = [j \in Jobs |-> IF fut[j] = "queued" THEN "cancelled" ELSE fut[j]]
  /\ pool' = <<>>

\* executor.shutdown(wait=True, cancel_futures=True) drops what has not started ...
Shutdown ==
  /\ pc = "shutdown"
  /\ CancelFutures
  /\ pc' = "wait"
  /\ UNCHANGED <<clock, stop, cancelled, loopVars, callVars, deviceVars, endVars>>

Running == {j \in Jobs : fut[j] = "running"}

\* ... and waits for the rest; what had not timed out is recorded.
Drain ==
  /\ pc = "wait" /\ Running = {}
  /\ \E caught \in SUBSET Collectors :
       verdict' = Record({j \in active \ timedOut : fut[j] # "cancelled"}, caught)
  /\ pc' = "sweep"
  /\ UNCHANGED <<clock, stop, cancelled, loopVars, active, since, timedOut, poolVars, deviceVars, endVars>>

\* Mutant: a run that has quieted the device before it waited does not again.
SweepOnce ==
  /\ pc = "sweep"
  /\ status' = IF stop THEN "interrupted" ELSE "completed"
  /\ IF stop THEN UNCHANGED deviceVars ELSE StopApp
  /\ pc' = "home"
  /\ UNCHANGED <<clock, stop, cancelled, loopVars, callVars, poolVars, row>>

Sweep ==
  /\ pc = "sweep"
  /\ status' = IF stop THEN "interrupted" ELSE "completed"
  /\ StopApp
  /\ pc' = "home"
  /\ UNCHANGED <<clock, stop, cancelled, loopVars, callVars, poolVars, row>>

\* Ctrl+C may have come since the status was chosen.
PressHome ==
  /\ pc = "home"
  /\ \/ stop /\ quiet' = quiet \cup {"home"} /\ UNCHANGED refused
     \/ stop /\ refused' = refused \cup {"home"} /\ UNCHANGED quiet
     \/ ~stop /\ UNCHANGED deviceVars
  /\ pc' = "close"
  /\ UNCHANGED <<clock, stop, cancelled, loopVars, callVars, poolVars, endVars>>

Finish ==
  /\ pc = "close"
  /\ row' = status
  /\ pc' = "done"
  /\ UNCHANGED <<clock, stop, cancelled, loopVars, callVars, poolVars, deviceVars, status>>

\* The row fails, unless that raises as well, and only then the pool is shut down.
GiveUp ==
  /\ row' \in {row, "failed"}
  /\ pc' = "leave"
  /\ UNCHANGED <<clock, stop, cancelled, loopVars, poolVars, deviceVars, status>>

\* A put, a call to the database or the writer's close raises.
Fail ==
  /\ pc \notin {"shutdown", "wait", "leave", "done"}
  /\ GiveUp
  /\ UNCHANGED callVars

\* A put raises while finished and late calls are taken in, some of them already:
\* that of a step, of a collector's timeout, or of the error event in place of its
\* samples.
FailTakingIn(js) ==
  /\ pc = IF js = Steps THEN "submit" ELSE "reap"
  /\ pc = "submit" => Due = {}
  /\ \E part \in SUBSET js : \E j \in part \ timedOut, caught \in SUBSET Collectors :
       (IsOver(j) \/ IsLate(j)) /\ TakeInBut(part, {j}, caught)
  /\ GiveUp

\* A put raises while the last results are recorded.
FailDraining ==
  /\ pc = "wait" /\ Running = {}
  /\ \E part \in SUBSET {j \in active \ timedOut : fut[j] # "cancelled"},
        caught \in SUBSET Collectors :
       verdict' = Record(part, caught)
  /\ GiveUp
  /\ UNCHANGED <<active, since, timedOut>>

CancelAtLast ==
  /\ pc = "leave" /\ pool # <<>>
  /\ CancelFutures
  /\ UNCHANGED <<clock, pc, stop, cancelled, loopVars, callVars, deviceVars, endVars>>

Leave ==
  /\ pc = "leave" /\ pool = <<>> /\ Running = {}
  /\ pc' = "done"
  /\ UNCHANGED <<clock, stop, cancelled, loopVars, callVars, poolVars, deviceVars, endVars>>

-------------------------------------------------------------------------------
(* The pool, the device, and the world outside. *)

Threads ==
  IF Collectors = {} THEN 1 ELSE Cardinality(Collectors) + (IF NumSteps > 0 THEN 1 ELSE 0)

\* Work starts in the order it was submitted.
Start ==
  /\ pool # <<>> /\ Cardinality(Running) < Threads
  /\ fut' = [fut EXCEPT ![Head(pool)] = "running"]
  /\ pool' = Tail(pool)
  /\ UNCHANGED <<clock, pc, stop, cancelled, loopVars, callVars, deviceVars, endVars>>

\* A step may undo the cleanup, by launching the app or by a tap that lands on
\* whatever is on screen by then.  A collector only reads.
Touch(j) == IF j \in Steps THEN quiet' = {} ELSE UNCHANGED quiet

Return(j) ==
  /\ fut[j] = "running"
  /\ \E r \in Over : fut' = [fut EXCEPT ![j] = r]
  /\ Touch(j)
  /\ UNCHANGED <<clock, pc, stop, cancelled, loopVars, callVars, pool, refused, endVars>>

\* A round reads the clock once; the time it takes passes between two rounds.
Tick ==
  /\ pc = "head" /\ clock < Horizon
  /\ clock' = clock + 1
  /\ UNCHANGED <<pc, stop, cancelled, loopVars, callVars, poolVars, deviceVars, endVars>>

\* A cancel and a Ctrl+C may come at any time; they come where they are read next.
RequestCancel ==
  /\ pc = "check" /\ ~cancelled
  /\ cancelled' = TRUE
  /\ UNCHANGED <<clock, pc, stop, loopVars, callVars, poolVars, deviceVars, endVars>>

\* request_stop, the SIGINT handler of a run on the main thread.
Interrupt ==
  /\ pc \in {"head", "quiet", "sweep", "home"} /\ ~stop
  /\ stop' = TRUE
  /\ UNCHANGED <<clock, pc, cancelled, loopVars, callVars, poolVars, deviceVars, endVars>>

\* The run is over and nothing of it is left.
Quiescent == pc = "done" /\ UNCHANGED vars

RunThread ==
  \/ Round \/ HeedCancel \/ ReapCollectors \/ (\E c \in Collectors : Submit(c))
  \/ ReapSteps \/ (\E s \in Steps : Fire(s)) \/ Sleep
  \/ QuietFirst \/ Shutdown \/ Drain \/ Sweep \/ PressHome \/ Finish
  \/ CancelAtLast \/ Leave

Next ==
  \/ Round \/ HeedCancel \/ ReapCollectors \/ (\E c \in Collectors : Submit(c))
  \/ ReapSteps \/ (\E s \in Steps : Fire(s)) \/ Sleep
  \/ QuietFirst \/ Shutdown \/ Drain \/ Sweep \/ PressHome \/ Finish
  \/ Fail \/ FailTakingIn(Collectors) \/ FailTakingIn(Steps) \/ FailDraining
  \/ CancelAtLast \/ Leave
  \/ Start \/ (\E j \in Jobs : Return(j))
  \/ Tick \/ RequestCancel \/ Interrupt \/ Quiescent

Spec == Init /\ [][Next]_vars

\* Time passes, the run's thread and the pool's are scheduled, and every call to
\* the device returns: adb gives up on it after a timeout.
FairSpec ==
  /\ Spec
  /\ WF_vars(RunThread) /\ WF_vars(Start) /\ SF_vars(Tick)
  /\ \A j \in Jobs : WF_vars(Return(j))

-------------------------------------------------------------------------------
(* Properties. *)

Places == {"head", "check", "reap", "submit", "fire", "quiet", "shutdown", "wait", "sweep",
           "home", "close", "done", "leave"}

\* The variables have their types, and a call is marked as timed out only while it
\* is active.
TypeOK ==
  /\ {clock, lastCheck} \subseteq Nat
  /\ pc \in Places /\ {stop, cancelled} \subseteq BOOLEAN
  /\ due \in [Collectors -> Nat] /\ next \in 1..NumSteps + 1
  /\ active \subseteq Jobs /\ since \in [Jobs -> Nat] /\ timedOut \subseteq active
  /\ fut \in [Jobs -> {"none", "queued", "running", "cancelled"} \cup Over]
  /\ pool \in Seq(Jobs)
  /\ verdict \in [Jobs -> SUBSET (Over \cup {"timeout"})]
  /\ status \in {"running"} \cup Ended /\ row \in {"running"} \cup Ended
  /\ quiet \subseteq {"stopped", "home"} /\ refused \subseteq {"stop", "home"}

Finished == row \in {"completed", "interrupted"}

\* What the run records of a call is one thing: its result, its error, or that it
\* timed out, and then nothing more when it comes in after all.  Until it leaves,
\* a call the run has let go of has been recorded, and so has every call a
\* finished run made, but for those it dropped before they started.
OneVerdict ==
  /\ \A j \in Jobs : \A v, w \in verdict[j] : v = w
  /\ pc \notin {"leave", "done"} =>
       \A j \in Jobs \ active : fut[j] # "none" => verdict[j] # {}
  /\ Finished => \A j \in Jobs : fut[j] \notin {"none", "cancelled"} => verdict[j] # {}

\* A run that says it is finished has nothing left in flight on its device, the
\* app it drove is stopped unless the device refused, and an interrupted run
\* leaves the home screen: no late step undoes the cleanup.
QuietAtEnd ==
  Finished =>
    /\ pool = <<>> /\ Running = {}
    /\ "stopped" \in quiet \/ "stop" \in refused
    /\ row = "interrupted" => "home" \in quiet \/ "home" \in refused

\* No collector's call waits for a thread because another collector is stuck,
\* nor because of one slow step: only steps that overlap take its thread.
SamplingUnblocked ==
  Cardinality(Running) >= Threads /\ (\E c \in Collectors : fut[c] = "queued")
    => Cardinality({s \in Steps : fut[s] = "running"}) >= 2

\* A collector is asked again only when its last call has come back and been
\* recorded; a step is handed to the pool once.
FreshCall ==
  [][\A j \in Jobs : fut'[j] = "queued" /\ fut[j] # "queued" =>
       \/ fut[j] = "none"
       \/ j \in Collectors /\ fut[j] \in Over /\ verdict[j] # {}]_vars

\* The run ends: neither a stuck call nor a failure at any point keeps it.
RunEnds == <>(pc = "done")

=============================================================================
