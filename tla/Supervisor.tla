---- MODULE Supervisor ----
(***************************************************************************
 `autoperf run-many`: DeviceSupervisor.run_many (workers.py) starts one
 process per device and watches them over one queue of heartbeats; each
 process (_device_worker) drives one run with TestRunner and beats from a
 thread of its own.

 Time is counted in ticks of about a second. The supervisor's wait for a beat
 (at most half a second) ends when the queue is empty for that long, so a tick
 passes only in that wait or in the join of a terminated process.
 ***************************************************************************)
EXTENDS Integers, Sequences, FiniteSets

CONSTANTS
  Workers,      \* the devices given to run_many, one worker process each
  Timeout,      \* heartbeat_timeout, in ticks
  JoinWait,     \* how long the join of a terminated process waits, in ticks
  MaxFaults,    \* bound: faults of processes, deletions and Ctrl+C together
  Nobody        \* not a worker

ASSUME SupervisorAssumption ==
  /\ IsFiniteSet(Workers) /\ Nobody \notin Workers
  /\ Timeout \in Nat \ {0} /\ JoinWait \in Nat /\ MaxFaults \in Nat
  /\ JoinWait < Timeout

VARIABLES
  row,      \* status of the worker's row in test_runs, "none" before create_run
  phase,    \* where the worker is in TestRunner.run: "start", "found" (its row is looked up or
            \* made), "driving", or "over", when it gets no further in it
  said,     \* the verdict the worker itself has written, "none" before
  proc,     \* "unborn", "alive", "exiting" (the finally of _device_worker is over) or "exited"
  code,     \* 0, or 1 for any other exit code
  fault,    \* what went wrong with the process: "none", "hung", "stopped" or "died"
  due,      \* the worker has a heartbeat to send
  lock,     \* which worker holds the write lock of the multiprocessing queue
  beats,    \* the queue: sequence of [from, age], the age of the beat's timestamp
  seen,     \* the age of last_seen[run_id]
  sup,      \* where run_many is: "spawn", "get", "check", "join", "returned" or "raised"
  alive,    \* run_many's set of that name
  late,     \* the workers this pass finds silent too long: `now` is read before the pass
  joining,  \* the process terminated and joined, or Nobody
  patience, \* ticks left of that join
  faults

supVars == <<row, phase, said, proc, code, fault, due, lock, beats, seen, sup, alive, late,
             joining, patience, faults>>
workerVars == <<phase, said, proc, code, fault, due, lock>>
passVars == <<sup, alive, late, joining, patience>>

Verdicts == {"completed", "interrupted", "failed"}

SupTypeOK ==
  /\ row \in [Workers -> Verdicts \cup {"none", "pending", "running", "deleted"}]
  /\ phase \in [Workers -> {"start", "found", "driving", "over"}]
  /\ said \in [Workers -> Verdicts \cup {"none"}]
  /\ proc \in [Workers -> {"unborn", "alive", "exiting", "exited"}]
  /\ code \in [Workers -> {0, 1}]
  /\ fault \in [Workers -> {"none", "hung", "stopped", "died"}]
  /\ due \in [Workers -> BOOLEAN]
  /\ lock \in Workers \cup {Nobody}
  /\ beats \in Seq([from : Workers, age : 0 .. Timeout + 1])
  /\ seen \in [Workers -> 0 .. Timeout + 1]
  /\ sup \in {"spawn", "get", "check", "join", "returned", "raised"}
  /\ alive \subseteq Workers /\ late \subseteq Workers
  /\ joining \in Workers \cup {Nobody}
  /\ patience \in Nat /\ faults \in 0 .. MaxFaults

SupInit ==
  /\ row = [w \in Workers |-> "none"] /\ phase = [w \in Workers |-> "start"]
  /\ said = [w \in Workers |-> "none"]
  /\ proc = [w \in Workers |-> "unborn"] /\ code = [w \in Workers |-> 0]
  /\ fault = [w \in Workers |-> "none"] /\ due = [w \in Workers |-> FALSE]
  /\ lock = Nobody /\ beats = <<>> /\ seen = [w \in Workers |-> 0]
  /\ sup = "spawn" /\ alive = {} /\ late = {}
  /\ joining = Nobody /\ patience = 0 /\ faults = 0

----
\* Time

Older(age) == IF age > Timeout THEN age ELSE age + 1

\* A process that runs: it has no fault and has not ended.
Well(w) == proc[w] \in {"alive", "exiting"} /\ fault[w] = "none"

\* The write lock is held by a process that will never give it back.
LockLost == lock # Nobody /\ (proc[lock] = "exited" \/ fault[lock] \in {"hung", "stopped"})

\* Beat threads and the exit of a well process take far less than a tick.
NothingUrgent ==
  \A w \in Workers : Well(w) => LockLost \/ (~due[w] /\ proc[w] = "alive")

\* A second passes: every timestamp is older, and every beat thread has a beat to send.
Tick ==
  /\ beats' = [i \in DOMAIN beats |-> [beats[i] EXCEPT !.age = Older(@)]]
  /\ due' = [w \in Workers |-> due[w] \/ (proc[w] = "alive" /\ fault[w] = "none")]

----
\* run_many

\* create_run, Process.start and the first entry of last_seen; after the last one, the loop.
Spawn(w) ==
  /\ sup = "spawn" /\ proc[w] = "unborn"
  /\ row' = [row EXCEPT ![w] = "pending"]
  /\ proc' = [proc EXCEPT ![w] = "alive"]
  /\ due' = [due EXCEPT ![w] = TRUE]
  /\ alive' = alive \cup {w}
  /\ sup' = IF alive' = Workers THEN "get" ELSE "spawn"
  /\ UNCHANGED <<phase, said, code, fault, lock, beats, seen, late, joining, patience, faults>>

\* The wait for a beat is over: `now` is read, and the pass begins. Of a worker no longer in
\* alive, last_seen is never read again.
BeginPass(ages) ==
  /\ seen' = [w \in Workers |-> IF w \in alive THEN ages[w] ELSE 0]
  /\ late' = {w \in alive : ages[w] > Timeout}
  /\ sup' = "check"
  /\ UNCHANGED <<alive, joining, patience>>

\* heartbeat.get returns: one beat per pass, whatever the queue holds.
GetBeat ==
  /\ sup = "get" /\ beats # <<>>
  /\ BeginPass([seen EXCEPT ![Head(beats).from] = Head(beats).age])
  /\ beats' = Tail(beats)
  /\ UNCHANGED <<row, workerVars, faults>>

\* queue.Empty
GetNothing ==
  /\ sup = "get" /\ beats = <<>> /\ NothingUrgent
  /\ Tick
  /\ BeginPass([w \in Workers |-> Older(seen[w])])
  /\ UNCHANGED <<row, phase, said, proc, code, fault, lock, faults>>

\* Mutant: only a row that says running is looked after.
BadExitOfRunning(w) == code[w] # 0 /\ row[w] = "running"

\* Mutant: every process that has ended without a failure on record has failed.
BadExitAny(w) == row[w] \notin {"failed", "interrupted"}

\* What run_many does about a process that has ended: a bad exit of a row that has no
\* failure on record yet is a failure.
BadExit(w) == code[w] # 0 /\ row[w] \notin {"failed", "interrupted"}

\* A row deleted in the meantime is None, and None has no status: run_many raises.
CheckEnded(w) ==
  /\ sup = "check" /\ w \in alive /\ proc[w] = "exited"
  /\ alive' = alive \ {w}
  /\ IF code[w] # 0 /\ row[w] = "deleted"
       THEN sup' = "raised" /\ UNCHANGED row
       ELSE /\ row' = IF BadExit(w) THEN [row EXCEPT ![w] = "failed"] ELSE row
            /\ UNCHANGED sup
  /\ UNCHANGED <<workerVars, beats, seen, late, joining, patience, faults>>

\* Mutant: the join waits longer than a process may be silent.
TerminateTimeoutLong == Timeout + 1

TerminateTimeout == JoinWait

\* SIGTERM ends a hung process at once; a stopped one gets it when it goes on.
CheckLate(w) ==
  /\ sup = "check" /\ w \in alive \cap late /\ proc[w] # "exited"
  /\ IF fault[w] = "stopped"
       THEN UNCHANGED <<proc, code>>
       ELSE proc' = [proc EXCEPT ![w] = "exited"] /\ code' = [code EXCEPT ![w] = 1]
  /\ sup' = "join" /\ joining' = w /\ patience' = TerminateTimeout
  /\ UNCHANGED <<row, phase, said, fault, due, lock, beats, seen, alive, late, faults>>

JoinTick ==
  /\ sup = "join" /\ proc[joining] # "exited" /\ patience > 0 /\ NothingUrgent
  /\ Tick /\ patience' = patience - 1
  /\ seen' = [w \in Workers |-> Older(seen[w])]
  /\ UNCHANGED <<row, phase, said, proc, code, fault, lock, sup, alive, late, joining, faults>>

\* Mutant: a join without a timeout.
JoinReturnsAtExit == proc[joining] = "exited"

JoinReturns == proc[joining] = "exited" \/ patience = 0

\* The join is over, ended or not; the row is failed whatever it says.
Joined ==
  /\ sup = "join" /\ JoinReturns
  /\ row' = IF row[joining] = "deleted" THEN row ELSE [row EXCEPT ![joining] = "failed"]
  /\ alive' = alive \ {joining}
  /\ sup' = "check" /\ joining' = Nobody /\ patience' = 0
  /\ UNCHANGED <<workerVars, beats, seen, late, faults>>

\* The pass is over when every worker left in alive was found running and not late. (One that
\* ends after its check is seen in the next pass; that is the same as in this one.)
EndPass ==
  /\ sup = "check" /\ \A w \in alive \ late : proc[w] # "exited"
  /\ alive \cap late = {}
  /\ sup' = IF alive = {} THEN "returned" ELSE "get"
  /\ late' = {}
  /\ UNCHANGED <<row, workerVars, beats, seen, alive, joining, patience, faults>>

----
\* _device_worker

\* The queue's feeder thread takes the write lock, writes, and gives it back.
TakeLock(w) ==
  /\ due[w] /\ Well(w) /\ lock = Nobody
  /\ lock' = w
  /\ UNCHANGED <<row, phase, said, proc, code, fault, due, beats, seen, passVars, faults>>

Beat(w) ==
  /\ lock = w /\ Well(w)
  /\ beats' = Append(beats, [from |-> w, age |-> 0])
  /\ due' = [due EXCEPT ![w] = FALSE] /\ lock' = Nobody
  /\ UNCHANGED <<row, phase, said, proc, code, fault, seen, passVars, faults>>

\* TestRunner.run looks its row up. One that somebody has deleted by then is made again:
\* run-many does not say that the row exists already (require_existing).
Lookup(w) ==
  /\ proc[w] = "alive" /\ Well(w) /\ phase[w] = "start"
  /\ phase' = [phase EXCEPT ![w] = "found"]
  /\ row' = IF row[w] = "deleted" THEN [row EXCEPT ![w] = "pending"] ELSE row
  /\ UNCHANGED <<said, proc, code, fault, due, lock, beats, seen, passVars, faults>>

\* It claims the device.
Claim(w) ==
  /\ proc[w] = "alive" /\ Well(w) /\ phase[w] = "found" /\ row[w] = "pending"
  /\ phase' = [phase EXCEPT ![w] = "driving"]
  /\ row' = [row EXCEPT ![w] = "running"]
  /\ UNCHANGED <<said, proc, code, fault, due, lock, beats, seen, passVars, faults>>

\* It can end with this verdict: of a run it drove, or of one it never started, cancelled or
\* (the device busy, the row deleted since it was looked up) without a verdict.
MayEnd(w, verdict) ==
  \/ phase[w] = "driving" /\ verdict # "none"
  \/ phase[w] = "found" /\ verdict = "none"
  \/ phase[w] = "found" /\ row[w] = "pending" /\ verdict = "interrupted"

\* run is over: its row has a verdict or none; the last beat is put. An exception of run
\* leaves _device_worker with exit code 1.
Finish(w, verdict) ==
  /\ proc[w] = "alive" /\ Well(w) /\ MayEnd(w, verdict)
  /\ row' = IF row[w] = "deleted" \/ verdict = "none" THEN row ELSE [row EXCEPT ![w] = verdict]
  /\ said' = [said EXCEPT ![w] = verdict] /\ phase' = [phase EXCEPT ![w] = "over"]
  /\ code' = [code EXCEPT ![w] = IF verdict \in {"failed", "none"} THEN 1 ELSE 0]
  /\ proc' = [proc EXCEPT ![w] = "exiting"] /\ due' = [due EXCEPT ![w] = TRUE]
  /\ UNCHANGED <<fault, lock, beats, seen, passVars, faults>>

\* The interpreter waits for the queue's feeder thread before it exits.
Exit(w) ==
  /\ proc[w] = "exiting" /\ Well(w) /\ ~due[w]
  /\ proc' = [proc EXCEPT ![w] = "exited"]
  /\ UNCHANGED <<row, phase, said, code, fault, due, lock, beats, seen, passVars, faults>>

----
\* Faults

\* No fault is looked for once run_many is over.
MayFail == sup \notin {"returned", "raised"} /\ faults < MaxFaults /\ faults' = faults + 1

\* The process dies, or goes on without ever beating again (a thread that will not end keeps
\* it from exiting, or it is stopped), wherever it is.
Fail(w, how) ==
  /\ MayFail /\ Well(w)
  /\ fault' = [fault EXCEPT ![w] = how]
  /\ proc' = IF how = "died" THEN [proc EXCEPT ![w] = "exited"] ELSE proc
  /\ code' = IF how = "died" THEN [code EXCEPT ![w] = 1] ELSE code
  /\ phase' = [phase EXCEPT ![w] = "over"]
  /\ UNCHANGED <<row, said, due, lock, beats, seen, passVars>>

\* A stopped process that was terminated ends as soon as it goes on.
GoOn(w) ==
  /\ fault[w] = "stopped" /\ proc[w] # "exited" /\ (w \notin alive \/ w = joining)
  /\ proc' = [proc EXCEPT ![w] = "exited"] /\ code' = [code EXCEPT ![w] = 1]
  /\ UNCHANGED <<row, phase, said, fault, due, lock, beats, seen, passVars, faults>>

\* Somebody deletes the row in the dashboard.
Delete(w) ==
  /\ MayFail /\ row[w] \notin {"none", "deleted"}
  /\ row' = [row EXCEPT ![w] = "deleted"]
  /\ UNCHANGED <<workerVars, beats, seen, passVars>>

\* Ctrl+C leaves run_many wherever it is.
Interrupt ==
  /\ MayFail /\ sup \in {"get", "check", "join"}
  /\ sup' = "raised"
  /\ UNCHANGED <<row, workerVars, beats, seen, alive, late, joining, patience>>

RunMany ==
  \/ GetBeat \/ GetNothing \/ JoinTick \/ Joined \/ EndPass
  \/ \E w \in Workers : Spawn(w) \/ CheckEnded(w) \/ CheckLate(w)

Working(w) == Lookup(w) \/ Claim(w) \/ (\E v \in Verdicts \cup {"none"} : Finish(w, v)) \/ Exit(w)

SupNext ==
  \/ RunMany
  \/ /\ sup \notin {"returned", "raised"}
     /\ \E w \in Workers :
       \/ TakeLock(w) \/ Beat(w) \/ Working(w) \/ GoOn(w) \/ Delete(w)
       \/ \E how \in {"died", "hung", "stopped"} : Fail(w, how)
  \/ Interrupt

\* run_many never waits without a timeout; a process that runs gets on with its run, whose
\* loop ends (RunLoop, RunEnds). Nothing is assumed of a process with a fault.
SupFairness ==
  /\ WF_supVars(RunMany)
  /\ \A w \in Workers : WF_supVars(TakeLock(w) \/ Beat(w)) /\ WF_supVars(Working(w))

SupSpec == SupInit /\ [][SupNext]_supVars /\ SupFairness

----
\* When run_many returns, no row it made is left waiting or running: whatever became of the
\* processes, each run has a verdict (workers.py:81-92).
RowsClosed == sup = "returned" => \A w \in Workers : row[w] \in Verdicts \cup {"deleted"}

\* run_many terminates no process that is still beating, even when it has just waited for
\* another one and reads one beat per pass (workers.py:74-88), as long as the queue's lock is
\* not lost with a process that died holding it. So it is while the joins of all devices but
\* one are within the timeout, and with more devices it need not be (SupervisorProofs, FewEnough).
SparesTheBeating ==
  [][\A w \in Workers : joining' = w /\ joining # w /\ Well(w) /\ proc[w] = "alive"
       => LockLost]_supVars

\* A run that ended and said so is not called failed, unless its process met a fault (in the
\* time from its verdict to its exit) or the queue's lock was lost (workers.py:83-92).
VerdictStands ==
  \A w \in Workers : row[w] = "failed" /\ said[w] \in {"completed", "interrupted"}
    => fault[w] # "none" \/ LockLost

\* run_many comes to its end, with any process hung, stopped or dead (workers.py:72-93).
ReturnsInTheEnd == <>(sup \in {"returned", "raised"})
====
