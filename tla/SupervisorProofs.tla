---- MODULE SupervisorProofs ----
(***************************************************************************
 Proofs about DeviceSupervisor.run_many (Supervisor), for any number of
 devices: the types of its state; that no row is left waiting or running when
 it returns; and, as long as the joins of all devices but one are within the
 heartbeat timeout (FewEnough: up to three devices, with the code's ten and
 five seconds), that it terminates no process that still beats and calls no
 run failed that ended well. With four devices of which two are stopped it
 can do both: a model of that size has the counterexample.
 ***************************************************************************)
EXTENDS Supervisor, FiniteSetTheorems, TLAPS

----
\* Where the rows and the processes are

\* The processes are started one after the other, before any beat is waited for.
Started ==
  /\ sup = "spawn" =>
       /\ alive = {w \in Workers : proc[w] # "unborn"}
       /\ late = {} /\ seen = [w \in Workers |-> 0] /\ \A i \in DOMAIN beats : beats[i].age = 0
  /\ \A w \in Workers : proc[w] = "unborn" => fault[w] = "none"
  /\ sup # "spawn" => \A w \in Workers : proc[w] # "unborn"
  /\ sup = "join" => joining \in alive /\ patience <= JoinWait
  /\ sup = "returned" => alive = {}

Closed(w) == row[w] \in Verdicts \cup {"deleted"}

\* A worker run_many has done with has a verdict, and so has one that ended with exit code 0.
Accounted ==
  \A w \in Workers :
    /\ proc[w] # "unborn" /\ w \notin alive => Closed(w)
    /\ proc[w] \in {"exiting", "exited"} /\ code[w] = 0 => Closed(w)

\* run_many has done with no process that runs, and waits for none.
Watched ==
  /\ \A w \in Workers : Well(w) => w \in alive
  /\ sup = "join" => ~Well(joining)

RowInv == SupTypeOK /\ Started /\ Accounted /\ Watched

----
\* How long a process that beats can seem silent

Queued(w) == \E i \in DOMAIN beats : beats[i].from = w

\* The workers run_many has done with whose beats it has read.
Quiet == {w \in Workers \ alive : ~Queued(w)}

\* The ticks run_many can have spent in joins since the queue was last empty: a worker that was
\* joined has no beat left.
Waited == JoinWait * Cardinality(Quiet) + (IF sup = "join" THEN JoinWait - patience ELSE 0)

\* The joins of all the other workers are within the timeout.
FewEnough == JoinWait * (Cardinality(Workers) - 1) <= Timeout

\* run_many will hear of w: its process runs, or a beat of it waits in the queue.
Heard(w) == w \in alive /\ (Well(w) \/ Queued(w))

\* The last beat of a process that runs is from this very tick: due, waiting or seen.
Fresh(w) ==
  \/ due[w]
  \/ seen[w] = 0 /\ ~Queued(w)
  \/ \E i \in DOMAIN beats :
       beats[i] = [from |-> w, age |-> 0] /\ \A j \in DOMAIN beats : j > i => beats[j].from # w

Going == sup \in {"spawn", "get", "check", "join"}

InTime ==
  /\ \A w \in Workers :
       /\ Well(w) => w \in alive /\ Fresh(w)
       /\ Heard(w) => w \notin late /\ (Going => seen[w] <= 1 + Waited)
  /\ \A i \in DOMAIN beats : Going => beats[i].age <= Waited

\* Whatever run_many terminates, and whatever it calls failed after it said otherwise, has met
\* a fault.
Blamed ==
  /\ sup = "join" => fault[joining] # "none" /\ ~Queued(joining)
  /\ \A w \in Workers : code[w] = 1 /\ said[w] \in {"completed", "interrupted"} => fault[w] # "none"
  /\ \A w \in Workers : row[w] = "failed" /\ said[w] \in {"completed", "interrupted"} => fault[w] # "none"

TimeInv == LockLost \/ (InTime /\ Blamed)

----
\* Steps

\* The steps of run_many, of the processes and of their surroundings.
LEMMA SupSteps ==
  ASSUME SupNext
  PROVE  \/ GetBeat \/ GetNothing \/ JoinTick \/ Joined \/ EndPass \/ Interrupt
         \/ \E w \in Workers :
              \/ Spawn(w) \/ CheckEnded(w) \/ CheckLate(w)
              \/ TakeLock(w) \/ Beat(w) \/ Lookup(w) \/ Claim(w) \/ Exit(w) \/ GoOn(w) \/ Delete(w)
              \/ \E v \in Verdicts \cup {"none"} : Finish(w, v)
              \/ \E how \in {"died", "hung", "stopped"} : Fail(w, how)
<1>1. CASE RunMany
  BY <1>1 DEF RunMany
<1>2. CASE Interrupt
  BY <1>2
<1>3. CASE \E w \in Workers :
       \/ TakeLock(w) \/ Beat(w) \/ Working(w) \/ GoOn(w) \/ Delete(w)
       \/ \E how \in {"died", "hung", "stopped"} : Fail(w, how)
  BY <1>3 DEF Working
<1> QED
  BY <1>1, <1>2, <1>3 DEF SupNext

\* Nothing grows older than the cap.
LEMMA OlderType ==
  ASSUME NEW a \in 0 .. Timeout + 1
  PROVE  Older(a) \in 0 .. Timeout + 1 /\ a <= Older(a) /\ Older(a) <= a + 1
  BY SupervisorAssumption DEF Older

\* A tick leaves the queue as it was, but for the ages.
LEMMA TickKeepsQueue ==
  ASSUME SupTypeOK, Tick
  PROVE  /\ beats' \in Seq([from : Workers, age : 0 .. Timeout + 1])
         /\ DOMAIN beats' = DOMAIN beats
         /\ \A i \in DOMAIN beats : beats'[i].from = beats[i].from /\ beats'[i].age = Older(beats[i].age)
         /\ due' \in [Workers -> BOOLEAN]
<1> DEFINE B == [from : Workers, age : 0 .. Timeout + 1]
<1>1. beats \in Seq(B) /\ beats' = [i \in DOMAIN beats |-> [beats[i] EXCEPT !.age = Older(@)]]
  BY DEF SupTypeOK, Tick
<1>2. Len(beats) \in Nat /\ DOMAIN beats = 1 .. Len(beats) /\ \A i \in DOMAIN beats : beats[i] \in B
  <2> HIDE DEF B
  <2> QED
    BY <1>1
<1>3. \A i \in DOMAIN beats : [beats[i] EXCEPT !.age = Older(@)]
         = [from |-> beats[i].from, age |-> Older(beats[i].age)]
  BY <1>2
<1>4. ASSUME NEW i \in DOMAIN beats
      PROVE  [from |-> beats[i].from, age |-> Older(beats[i].age)] \in B
  BY <1>2, OlderType
<1>5. beats' = [i \in 1 .. Len(beats) |-> [from |-> beats[i].from, age |-> Older(beats[i].age)]]
  BY <1>1, <1>2, <1>3
<1>6. beats' \in [1 .. Len(beats) -> B]
  BY <1>2, <1>4, <1>5
<1>7. beats' \in Seq(B)
  <2> HIDE DEF B
  <2> QED
    BY <1>2, <1>6
<1>8. due' \in [Workers -> BOOLEAN]
  <2>1. due' = [w \in Workers |-> due[w] \/ (proc[w] = "alive" /\ fault[w] = "none")]
    BY DEF Tick
  <2> QED
    BY <2>1, Zenon DEF SupTypeOK
<1> QED
  BY <1>2, <1>5, <1>7, <1>8

\* The head of the queue, and what is behind it.
LEMMA HeadAndTail ==
  ASSUME SupTypeOK, beats # <<>>
  PROVE  /\ Head(beats) = beats[1] /\ 1 \in DOMAIN beats
         /\ beats[1].from \in Workers /\ beats[1].age \in 0 .. Timeout + 1
         /\ Tail(beats) \in Seq([from : Workers, age : 0 .. Timeout + 1])
         /\ DOMAIN Tail(beats) = 1 .. Len(beats) - 1
         /\ \A i \in 1 .. Len(beats) - 1 : Tail(beats)[i] = beats[i + 1] /\ i + 1 \in DOMAIN beats
<1> DEFINE B == [from : Workers, age : 0 .. Timeout + 1]
<1>1. beats \in Seq(B) /\ \A b \in B : b.from \in Workers /\ b.age \in 0 .. Timeout + 1
  BY DEF SupTypeOK
<1> HIDE DEF B
<1>2. /\ Head(beats) = beats[1] /\ 1 \in DOMAIN beats /\ beats[1] \in B
      /\ Tail(beats) \in Seq(B)
      /\ DOMAIN Tail(beats) = 1 .. Len(beats) - 1
      /\ \A i \in 1 .. Len(beats) - 1 : Tail(beats)[i] = beats[i + 1] /\ i + 1 \in DOMAIN beats
  BY <1>1
<1> QED
  BY <1>1, <1>2 DEF B

\* A beat is put behind the others.
LEMMA BeatIsLast ==
  ASSUME SupTypeOK, NEW w \in Workers, Beat(w)
  PROVE  /\ beats' \in Seq([from : Workers, age : 0 .. Timeout + 1])
         /\ Len(beats) \in Nat /\ DOMAIN beats = 1 .. Len(beats)
         /\ DOMAIN beats' = 1 .. Len(beats) + 1
         /\ \A i \in DOMAIN beats : beats'[i] = beats[i]
         /\ beats'[Len(beats) + 1] = [from |-> w, age |-> 0]
<1> DEFINE B == [from : Workers, age : 0 .. Timeout + 1]
           b == [from |-> w, age |-> 0]
<1>1. beats \in Seq(B) /\ beats' = Append(beats, b) /\ b \in B
  BY SupervisorAssumption DEF SupTypeOK, Beat
<1> HIDE DEF B, b
<1>2. /\ beats' \in Seq(B) /\ Len(beats) \in Nat /\ DOMAIN beats = 1 .. Len(beats)
      /\ DOMAIN beats' = 1 .. Len(beats) + 1
      /\ \A i \in DOMAIN beats : beats'[i] = beats[i]
      /\ beats'[Len(beats) + 1] = b
  BY <1>1
<1> QED
  BY <1>2 DEF B, b
----
\* Types

\* The pass begins with ages within the cap.
LEMMA PassTypes ==
  ASSUME SupTypeOK, NEW ages \in [Workers -> 0 .. Timeout + 1], BeginPass(ages)
  PROVE  /\ seen' \in [Workers -> 0 .. Timeout + 1]
         /\ sup' \in {"spawn", "get", "check", "join", "returned", "raised"}
         /\ alive' \subseteq Workers /\ late' \subseteq Workers
         /\ joining' \in Workers \cup {Nobody} /\ patience' \in Nat
<1>1. seen' \in [Workers -> 0 .. Timeout + 1]
  BY SupervisorAssumption DEF BeginPass
<1>2. late' \subseteq Workers
  BY DEF BeginPass, SupTypeOK
<1> QED
  BY <1>1, <1>2 DEF BeginPass, SupTypeOK

\* Every step of run_many keeps the types.
LEMMA TypesOfRunMany ==
  ASSUME SupTypeOK,
         \/ GetBeat \/ GetNothing \/ JoinTick \/ Joined \/ EndPass \/ Interrupt
         \/ \E w \in Workers : Spawn(w) \/ CheckEnded(w) \/ CheckLate(w)
  PROVE  SupTypeOK'
<1>1. CASE GetBeat
  <2>1. [seen EXCEPT ![Head(beats).from] = Head(beats).age] \in [Workers -> 0 .. Timeout + 1]
    BY <1>1, HeadAndTail DEF SupTypeOK, GetBeat
  <2>2. beats' \in Seq([from : Workers, age : 0 .. Timeout + 1])
    BY <1>1, HeadAndTail DEF GetBeat
  <2> QED
    BY <1>1, <2>1, <2>2, PassTypes DEF GetBeat, SupTypeOK, workerVars
<1>2. CASE GetNothing
  <2>1. [w \in Workers |-> Older(seen[w])] \in [Workers -> 0 .. Timeout + 1]
    BY OlderType DEF SupTypeOK
  <2> QED
    BY <1>2, <2>1, PassTypes, TickKeepsQueue DEF GetNothing, SupTypeOK
<1>3. CASE JoinTick
  <2>1. [w \in Workers |-> Older(seen[w])] \in [Workers -> 0 .. Timeout + 1]
    BY OlderType DEF SupTypeOK
  <2>2. patience' \in Nat
    BY <1>3 DEF JoinTick, SupTypeOK
  <2> QED
    BY <1>3, <2>1, <2>2, TickKeepsQueue DEF JoinTick, SupTypeOK
<1>4. CASE Joined
  <2>1. row' \in [Workers -> Verdicts \cup {"none", "pending", "running", "deleted"}]
    BY <1>4 DEF Joined, SupTypeOK, Verdicts
  <2> QED
    BY <1>4, <2>1 DEF Joined, SupTypeOK, workerVars
<1>5. CASE EndPass
  BY <1>5 DEF EndPass, SupTypeOK, workerVars
<1>6. CASE Interrupt
  <2>1. faults' \in 0 .. MaxFaults
    BY <1>6, SupervisorAssumption DEF Interrupt, MayFail, SupTypeOK
  <2> QED
    BY <1>6, <2>1 DEF Interrupt, SupTypeOK, workerVars
<1>7. ASSUME NEW w \in Workers, Spawn(w)
      PROVE  SupTypeOK'
  <2>1. due' \in [Workers -> BOOLEAN]
    BY <1>7, Zenon DEF Spawn, SupTypeOK
  <2> QED
    BY <1>7, <2>1 DEF Spawn, SupTypeOK
<1>8. ASSUME NEW w \in Workers, CheckEnded(w)
      PROVE  SupTypeOK'
  <2>1. row' \in [Workers -> Verdicts \cup {"none", "pending", "running", "deleted"}]
    BY <1>8 DEF CheckEnded, SupTypeOK, Verdicts
  <2> QED
    BY <1>8, <2>1 DEF CheckEnded, SupTypeOK, workerVars
<1>9. ASSUME NEW w \in Workers, CheckLate(w)
      PROVE  SupTypeOK'
  <2>1. proc' \in [Workers -> {"unborn", "alive", "exiting", "exited"}] /\ code' \in [Workers -> {0, 1}]
    <3>1. \/ UNCHANGED <<proc, code>>
          \/ proc' = [proc EXCEPT ![w] = "exited"] /\ code' = [code EXCEPT ![w] = 1]
      BY <1>9 DEF CheckLate
    <3> QED
      BY <3>1 DEF SupTypeOK
  <2>2. patience' \in Nat
    BY <1>9, SupervisorAssumption DEF CheckLate, TerminateTimeout
  <2> QED
    BY <1>9, <2>1, <2>2 DEF CheckLate, SupTypeOK
<1> QED
  BY <1>1, <1>2, <1>3, <1>4, <1>5, <1>6, <1>7, <1>8, <1>9

\* Every step of a process, a fault and a deletion keep the types.
LEMMA TypesOfWorkers ==
  ASSUME SupTypeOK, NEW w \in Workers,
         \/ TakeLock(w) \/ Beat(w) \/ Lookup(w) \/ Claim(w) \/ Exit(w) \/ GoOn(w) \/ Delete(w)
         \/ \E v \in Verdicts \cup {"none"} : Finish(w, v)
         \/ \E how \in {"died", "hung", "stopped"} : Fail(w, how)
  PROVE  SupTypeOK'
<1>1. CASE TakeLock(w)
  BY <1>1 DEF TakeLock, SupTypeOK, passVars
<1>2. CASE Beat(w)
  <2>1. due' \in [Workers -> BOOLEAN]
    BY <1>2, Zenon DEF Beat, SupTypeOK
  <2> QED
    BY <1>2, <2>1, BeatIsLast DEF Beat, SupTypeOK, passVars
<1>3. CASE Lookup(w) \/ Claim(w)
  <2>1. phase' \in [Workers -> {"start", "found", "driving", "over"}]
    <3>1. \/ phase' = [phase EXCEPT ![w] = "found"]
          \/ phase' = [phase EXCEPT ![w] = "driving"]
      BY <1>3 DEF Lookup, Claim
    <3> QED
      BY <3>1 DEF SupTypeOK
  <2>2. row' \in [Workers -> Verdicts \cup {"none", "pending", "running", "deleted"}]
    <3>1. \/ row' = row
          \/ row' = [row EXCEPT ![w] = "pending"]
          \/ row' = [row EXCEPT ![w] = "running"]
      BY <1>3 DEF Lookup, Claim
    <3> QED
      BY <3>1 DEF SupTypeOK
  <2> QED
    BY <1>3, <2>1, <2>2 DEF Lookup, Claim, SupTypeOK, passVars
<1>4. CASE Exit(w)
  BY <1>4 DEF Exit, SupTypeOK, passVars
<1>5. CASE GoOn(w)
  BY <1>5 DEF GoOn, SupTypeOK, passVars
<1>6. CASE Delete(w)
  <2>1. faults' \in 0 .. MaxFaults
    BY <1>6, SupervisorAssumption DEF Delete, MayFail, SupTypeOK
  <2> QED
    BY <1>6, <2>1 DEF Delete, SupTypeOK, passVars, workerVars
<1>7. ASSUME NEW v \in Verdicts \cup {"none"}, Finish(w, v)
      PROVE  SupTypeOK'
  <2>1. due' \in [Workers -> BOOLEAN]
    BY <1>7, Zenon DEF Finish, SupTypeOK
  <2>2. row' \in [Workers -> Verdicts \cup {"none", "pending", "running", "deleted"}]
    BY <1>7 DEF Finish, SupTypeOK, Verdicts
  <2>3. said' \in [Workers -> Verdicts \cup {"none"}]
    BY <1>7 DEF Finish, SupTypeOK
  <2>4. code' \in [Workers -> {0, 1}]
    BY <1>7 DEF Finish, SupTypeOK
  <2>5. phase' \in [Workers -> {"start", "found", "driving", "over"}]
    BY <1>7 DEF Finish, SupTypeOK
  <2> QED
    BY <1>7, <2>1, <2>2, <2>3, <2>4, <2>5 DEF Finish, SupTypeOK, passVars
<1>8. ASSUME NEW how \in {"died", "hung", "stopped"}, Fail(w, how)
      PROVE  SupTypeOK'
  <2>1. faults' \in 0 .. MaxFaults
    BY <1>8, SupervisorAssumption DEF Fail, MayFail, SupTypeOK
  <2>2. proc' \in [Workers -> {"unborn", "alive", "exiting", "exited"}] /\ code' \in [Workers -> {0, 1}]
    <3>1. proc' = proc \/ proc' = [proc EXCEPT ![w] = "exited"]
      BY <1>8 DEF Fail
    <3>2. code' = code \/ code' = [code EXCEPT ![w] = 1]
      BY <1>8 DEF Fail
    <3> QED
      BY <3>1, <3>2 DEF SupTypeOK
  <2> QED
    BY <1>8, <2>1, <2>2 DEF Fail, SupTypeOK, passVars
<1> QED
  BY <1>1, <1>2, <1>3, <1>4, <1>5, <1>6, <1>7, <1>8

\* Every step keeps the types.
LEMMA SupTypesKept ==
  ASSUME SupTypeOK, [SupNext]_supVars
  PROVE  SupTypeOK'
<1>1. CASE SupNext
  BY <1>1, SupSteps, TypesOfRunMany, TypesOfWorkers
<1>2. CASE UNCHANGED supVars
  BY <1>2 DEF supVars, SupTypeOK
<1> QED
  BY <1>1, <1>2

\* The state run_many starts in has the types.
LEMMA SupTypesInit == SupInit => SupTypeOK
<1> SUFFICES ASSUME SupInit PROVE SupTypeOK
  OBVIOUS
<1>1. beats \in Seq([from : Workers, age : 0 .. Timeout + 1])
  BY DEF SupInit
<1>2. due \in [Workers -> BOOLEAN]
  BY Zenon DEF SupInit
<1>3. seen \in [Workers -> 0 .. Timeout + 1] /\ faults \in 0 .. MaxFaults
  BY SupervisorAssumption DEF SupInit
<1> QED
  BY <1>1, <1>2, <1>3 DEF SupInit, SupTypeOK

\* Of any number of devices, every variable of the supervisor keeps its type.
THEOREM SupervisorTypeCorrect == SupSpec => []SupTypeOK
  BY SupTypesInit, SupTypesKept, PTL DEF SupSpec
----
\* What never comes back

\* A lost lock stays lost; a fault stays; a process that does not run does not run again.
LEMMA NothingHeals ==
  ASSUME RowInv, SupNext
  PROVE  /\ LockLost => LockLost'
         /\ \A w \in Workers : fault[w] # "none" => fault'[w] # "none"
         /\ \A w \in Workers : Well(w)' => Well(w) \/ Spawn(w)
<1>a. /\ DOMAIN proc = Workers /\ DOMAIN fault = Workers
      /\ lock \in Workers \cup {Nobody} /\ joining \in Workers \cup {Nobody}
  BY DEF RowInv, SupTypeOK
<1>b. ASSUME UNCHANGED fault,
             \A w \in Workers : proc'[w] = proc[w]
               \/ (proc'[w] \notin {"alive", "exiting"} /\ (proc[w] = "exited" => proc'[w] = "exited"))
               \/ (proc[w] = "alive" /\ proc'[w] = "exiting") \/ Spawn(w),
             UNCHANGED lock \/ lock = Nobody \/ (lock \in Workers /\ Well(lock))
      PROVE  /\ LockLost => LockLost'
             /\ \A w \in Workers : fault[w] # "none" => fault'[w] # "none"
             /\ \A w \in Workers : Well(w)' => Well(w) \/ Spawn(w)
  BY <1>a, <1>b DEF LockLost, Well, Spawn
<1>1. CASE \/ GetBeat \/ GetNothing \/ JoinTick \/ Joined \/ EndPass \/ Interrupt
  BY <1>1, <1>b DEF GetBeat, GetNothing, JoinTick, Joined, EndPass, Interrupt, workerVars
<1>2. ASSUME NEW w \in Workers, Spawn(w) \/ CheckEnded(w) \/ CheckLate(w)
      PROVE  /\ LockLost => LockLost'
             /\ \A u \in Workers : fault[u] # "none" => fault'[u] # "none"
             /\ \A u \in Workers : Well(u)' => Well(u) \/ Spawn(u)
  <2>1. UNCHANGED <<fault, lock>>
    BY <1>2 DEF Spawn, CheckEnded, CheckLate, workerVars
  <2>2. \A u \in Workers : proc'[u] = proc[u] \/ proc'[u] = "exited" \/ Spawn(u)
    BY <1>2, <1>a DEF Spawn, CheckEnded, CheckLate, workerVars
  <2> QED
    BY <1>b, <2>1, <2>2
<1>3. ASSUME NEW w \in Workers,
             \/ TakeLock(w) \/ Beat(w) \/ Lookup(w) \/ Claim(w) \/ Exit(w) \/ GoOn(w) \/ Delete(w)
             \/ \E v \in Verdicts \cup {"none"} : Finish(w, v)
      PROVE  /\ LockLost => LockLost'
             /\ \A u \in Workers : fault[u] # "none" => fault'[u] # "none"
             /\ \A u \in Workers : Well(u)' => Well(u) \/ Spawn(u)
  <2>1. UNCHANGED fault /\ (UNCHANGED lock \/ lock = Nobody \/ (lock \in Workers /\ Well(lock)))
    BY <1>3 DEF TakeLock, Beat, Lookup, Claim, Exit, GoOn, Delete, Finish, workerVars
  <2>2. \A u \in Workers : \/ proc'[u] = proc[u] \/ proc'[u] = "exited"
                           \/ (proc[u] = "alive" /\ proc'[u] = "exiting")
    BY <1>3, <1>a DEF TakeLock, Beat, Lookup, Claim, Exit, GoOn, Delete, Finish, workerVars
  <2> QED
    BY <1>b, <2>1, <2>2
<1>4. ASSUME NEW w \in Workers, NEW how \in {"died", "hung", "stopped"}, Fail(w, how)
      PROVE  /\ LockLost => LockLost'
             /\ \A u \in Workers : fault[u] # "none" => fault'[u] # "none"
             /\ \A u \in Workers : Well(u)' => Well(u) \/ Spawn(u)
  <2>1. UNCHANGED lock /\ fault[w] = "none" /\ fault' = [fault EXCEPT ![w] = how] /\ how # "none"
    BY <1>4 DEF Fail, Well
  <2>2. proc' = proc \/ proc' = [proc EXCEPT ![w] = "exited"]
    BY <1>4 DEF Fail
  <2>3. Well(w) /\ ~Well(w)'
    BY <1>4, <1>a, <2>1 DEF Fail, Well
  <2>4. \A u \in Workers \ {w} : Well(u)' => Well(u)
    BY <1>a, <2>1, <2>2 DEF Well
  <2>5. LockLost => LockLost'
    BY <1>a, <2>1, <2>2, <2>3 DEF LockLost, Well
  <2> QED
    BY <1>a, <2>1, <2>3, <2>4, <2>5
<1> QED
  BY <1>1, <1>2, <1>3, <1>4, SupSteps

\* Every step keeps Watched.
LEMMA WatchedKept ==
  ASSUME RowInv, SupNext
  PROVE  Watched'
<1>a. /\ DOMAIN proc = Workers /\ DOMAIN fault = Workers
      /\ sup = "join" => joining \in Workers
  BY DEF RowInv, SupTypeOK, Started
<1>1. ASSUME UNCHANGED <<sup, alive, joining>>, ~\E w \in Workers : Spawn(w) PROVE Watched'
  <2>1. \A w \in Workers : Well(w)' => Well(w)
    BY <1>1, NothingHeals
  <2> QED
    BY <1>a, <1>1, <2>1 DEF RowInv, Watched
<1>2. ASSUME NEW w \in Workers, Spawn(w) PROVE Watched'
  <2>1. sup' # "join" /\ w \in alive' /\ alive \subseteq alive'
    BY <1>2 DEF Spawn
  <2>2. \A u \in Workers \ {w} : Well(u)' => Well(u)
    BY <1>2, <1>a DEF Spawn, Well
  <2> QED
    BY <2>1, <2>2 DEF RowInv, Watched
<1>3. ASSUME \/ GetBeat \/ GetNothing \/ JoinTick \/ EndPass \/ Interrupt PROVE Watched'
  <2>1. UNCHANGED <<alive, proc, fault, joining>> /\ (sup' = "join" => sup = "join")
    BY <1>3 DEF GetBeat, GetNothing, BeginPass, JoinTick, EndPass, Interrupt, workerVars
  <2> QED
    BY <2>1 DEF RowInv, Watched, Well
<1>4. ASSUME Joined PROVE Watched'
  <2>1. alive' = alive \ {joining} /\ UNCHANGED <<proc, fault>> /\ sup = "join" /\ sup' # "join"
    BY <1>4 DEF Joined, workerVars
  <2> QED
    BY <1>a, <2>1 DEF RowInv, Watched, Well
<1>5. ASSUME NEW w \in Workers, CheckEnded(w) PROVE Watched'
  <2>1. /\ alive' = alive \ {w} /\ UNCHANGED <<proc, fault, joining>> /\ proc[w] = "exited"
        /\ sup' # "join"
    BY <1>5 DEF CheckEnded, workerVars
  <2> QED
    BY <2>1 DEF RowInv, Watched, Well
<1>6. ASSUME NEW w \in Workers, CheckLate(w) PROVE Watched'
  <2>1. alive' = alive /\ fault' = fault /\ joining' = w
    BY <1>6 DEF CheckLate
  <2>2. ~Well(w)'
    BY <1>6, <1>a DEF CheckLate, Well
  <2>3. \A u \in Workers : Well(u)' => Well(u)
    BY <1>6, <1>a DEF CheckLate, Well
  <2> QED
    BY <2>1, <2>2, <2>3 DEF RowInv, Watched
<1>7. ASSUME NEW w \in Workers,
             \/ TakeLock(w) \/ Beat(w) \/ Lookup(w) \/ Claim(w) \/ Exit(w) \/ GoOn(w) \/ Delete(w)
             \/ \E v \in Verdicts \cup {"none"} : Finish(w, v)
             \/ \E how \in {"died", "hung", "stopped"} : Fail(w, how)
      PROVE  Watched'
  <2>1. UNCHANGED <<sup, alive, joining>>
    BY <1>7 DEF TakeLock, Beat, Lookup, Claim, Exit, GoOn, Delete, Finish, Fail, passVars
  <2> QED
    BY <1>1, <1>2, <2>1
<1> QED
  BY <1>2, <1>3, <1>4, <1>5, <1>6, <1>7, SupSteps

----
\* Every row is closed

\* run_many's own steps keep Started and Accounted.
LEMMA RowsOfRunMany ==
  ASSUME RowInv,
         \/ GetBeat \/ GetNothing \/ JoinTick \/ Joined \/ EndPass \/ Interrupt
         \/ \E w \in Workers : Spawn(w) \/ CheckEnded(w) \/ CheckLate(w)
  PROVE  Started' /\ Accounted'
<1>1. CASE GetBeat
  BY <1>1 DEF GetBeat, BeginPass, RowInv, Started, Accounted, Closed, workerVars
<1>2. CASE GetNothing
  BY <1>2 DEF GetNothing, BeginPass, RowInv, Started, Accounted, Closed
<1>3. CASE JoinTick
  <2>1. patience' <= JoinWait
    BY <1>3, SupervisorAssumption DEF JoinTick, RowInv, SupTypeOK, Started
  <2> QED
    BY <1>3, <2>1 DEF JoinTick, RowInv, Started, Accounted, Closed
<1>4. CASE Joined
  <2>1. \A w \in Workers : Closed(w) \/ w = joining => Closed(w)'
    BY <1>4 DEF Joined, Closed, Verdicts, RowInv, SupTypeOK
  <2> QED
    BY <1>4, <2>1 DEF Joined, RowInv, Started, Accounted, workerVars
<1>5. CASE EndPass
  BY <1>5 DEF EndPass, RowInv, Started, Accounted, Closed, workerVars
<1>6. CASE Interrupt
  BY <1>6 DEF Interrupt, RowInv, Started, Accounted, Closed, workerVars
<1>7. ASSUME NEW w \in Workers, Spawn(w)
      PROVE  Started' /\ Accounted'
  <2>1. proc' = [proc EXCEPT ![w] = "alive"] /\ DOMAIN proc = Workers /\ DOMAIN row = Workers
    BY <1>7 DEF Spawn, RowInv, SupTypeOK
  <2>2. alive' = {u \in Workers : proc'[u] # "unborn"}
    BY <1>7, <2>1 DEF Spawn, RowInv, Started
  <2>3. Started'
    BY <1>7, <2>2 DEF Spawn, RowInv, Started
  <2>4. ASSUME NEW u \in Workers
        PROVE  /\ proc'[u] # "unborn" /\ u \notin alive' => Closed(u)'
               /\ proc'[u] \in {"exiting", "exited"} /\ code'[u] = 0 => Closed(u)'
    <3>1. CASE u = w
      BY <1>7, <3>1, <2>1, <2>2
    <3>2. CASE u # w
      BY <1>7, <3>2, <2>1, <2>2 DEF Spawn, RowInv, Started, Accounted, Closed
    <3> QED
      BY <3>1, <3>2
  <2> QED
    BY <2>3, <2>4 DEF Accounted
<1>8. ASSUME NEW w \in Workers, CheckEnded(w)
      PROVE  Started' /\ Accounted'
  <2>1. Closed(w)'
    BY <1>8 DEF CheckEnded, BadExit, Closed, Verdicts, RowInv, Accounted, SupTypeOK
  <2>2. \A u \in Workers \ {w} : Closed(u) => Closed(u)'
    BY <1>8 DEF CheckEnded, Closed, RowInv, SupTypeOK
  <2> QED
    BY <1>8, <2>1, <2>2 DEF CheckEnded, RowInv, Started, Accounted, workerVars
<1>9. ASSUME NEW w \in Workers, CheckLate(w)
      PROVE  Started' /\ Accounted'
  <2>1. \A u \in Workers : (proc'[u] = proc[u] /\ code'[u] = code[u]) \/ (u = w /\ proc'[u] = "exited" /\ code'[u] = 1)
    BY <1>9 DEF CheckLate, RowInv, SupTypeOK
  <2>2. patience' <= JoinWait
    BY <1>9, SupervisorAssumption DEF CheckLate, TerminateTimeout
  <2> QED
    BY <1>9, <2>1, <2>2 DEF CheckLate, RowInv, Started, Accounted, Closed
<1> QED
  BY <1>1, <1>2, <1>3, <1>4, <1>5, <1>6, <1>7, <1>8, <1>9

\* The processes, their faults and the deletions keep Started and Accounted.
LEMMA RowsOfWorkers ==
  ASSUME RowInv, sup \notin {"returned", "raised"}, NEW w \in Workers,
         \/ TakeLock(w) \/ Beat(w) \/ Lookup(w) \/ Claim(w) \/ Exit(w) \/ GoOn(w) \/ Delete(w)
         \/ \E v \in Verdicts \cup {"none"} : Finish(w, v)
         \/ \E how \in {"died", "hung", "stopped"} : Fail(w, how)
  PROVE  Started' /\ Accounted'
<1>a. DOMAIN proc = Workers /\ DOMAIN row = Workers /\ DOMAIN code = Workers
  BY DEF RowInv, SupTypeOK
<1>1. CASE TakeLock(w)
  BY <1>1 DEF TakeLock, RowInv, Started, Accounted, Closed, passVars
<1>2. CASE Beat(w)
  <2>1. sup = "spawn" => \A i \in DOMAIN beats' : beats'[i].age = 0
    <3>a. DOMAIN beats' = 1 .. Len(beats) + 1 /\ DOMAIN beats = 1 .. Len(beats) /\ Len(beats) \in Nat
      BY <1>2, BeatIsLast DEF RowInv
    <3>1. \A i \in DOMAIN beats' : i \in DOMAIN beats \/ i = Len(beats) + 1
      BY <3>a
    <3> QED
      BY <1>2, <3>1, BeatIsLast DEF RowInv, Started, Beat, passVars
  <2> QED
    BY <1>2, <2>1 DEF Beat, RowInv, Started, Accounted, Closed, passVars
<1>3. CASE Lookup(w) \/ Claim(w)
  <2>1. \A u \in Workers \ {w} : Closed(u) => Closed(u)'
    BY <1>3, <1>a DEF Lookup, Claim, Closed, Verdicts
  <2>2. w \in alive /\ proc[w] = "alive"
    BY <1>3 DEF Lookup, Claim, RowInv, Watched
  <2>3. UNCHANGED <<proc, code, fault, beats, seen, sup, alive, late, joining, patience>>
    BY <1>3 DEF Lookup, Claim, passVars
  <2>4. Started'
    BY <2>3 DEF RowInv, Started
  <2> QED
    BY <2>1, <2>2, <2>3, <2>4 DEF RowInv, Accounted
<1>4. CASE Exit(w)
  BY <1>4, <1>a DEF Exit, RowInv, Started, Accounted, Closed, passVars
<1>5. CASE GoOn(w)
  <2>1. \A u \in Workers : \/ proc'[u] = proc[u] /\ code'[u] = code[u]
                           \/ u = w /\ proc'[u] = "exited" /\ code'[u] = 1 /\ proc[u] # "exited"
    BY <1>5, <1>a DEF GoOn
  <2>2. proc[w] # "unborn"
    BY <1>5 DEF GoOn, RowInv, Started
  <2> QED
    BY <1>5, <2>1, <2>2 DEF GoOn, RowInv, Started, Accounted, Closed, passVars
<1>6. CASE Delete(w)
  <2>1. \A u \in Workers : Closed(u) => Closed(u)'
    BY <1>6, <1>a DEF Delete, Closed, Verdicts
  <2> QED
    BY <1>6, <2>1 DEF Delete, RowInv, Started, Accounted, passVars, workerVars
<1>7. ASSUME NEW v \in Verdicts \cup {"none"}, Finish(w, v)
      PROVE  Started' /\ Accounted'
  <2>1. \A u \in Workers : Closed(u) => Closed(u)'
    BY <1>7, <1>a DEF Finish, Closed, Verdicts
  <2>2. code'[w] = 0 => Closed(w)'
    BY <1>7, <1>a DEF Finish, Closed, Verdicts
  <2>3. \A u \in Workers \ {w} : proc'[u] = proc[u] /\ code'[u] = code[u]
    BY <1>7, <1>a DEF Finish
  <2>4. proc[w] = "alive" /\ proc'[w] = "exiting"
    BY <1>7, <1>a DEF Finish
  <2> QED
    BY <1>7, <2>1, <2>2, <2>3, <2>4 DEF Finish, RowInv, Started, Accounted, passVars
<1>8. ASSUME NEW how \in {"died", "hung", "stopped"}, Fail(w, how)
      PROVE  Started' /\ Accounted'
  <2>1. \A u \in Workers : \/ proc'[u] = proc[u] /\ code'[u] = code[u]
                           \/ u = w /\ proc'[u] = "exited" /\ code'[u] = 1
    BY <1>8, <1>a DEF Fail
  <2>2. proc[w] # "unborn"
    BY <1>8 DEF Fail, Well
  <2>3. \A u \in Workers \ {w} : fault'[u] = fault[u]
    BY <1>8 DEF Fail, RowInv, SupTypeOK
  <2> QED
    BY <1>8, <2>1, <2>2, <2>3 DEF Fail, RowInv, Started, Accounted, Closed, passVars
<1> QED
  BY <1>1, <1>2, <1>3, <1>4, <1>5, <1>6, <1>7, <1>8

\* The invariant holds at the start.
LEMMA RowInvInit == SupInit => RowInv
<1> SUFFICES ASSUME SupInit PROVE RowInv
  OBVIOUS
<1>1. DOMAIN beats = {}
  BY DEF SupInit
<1> QED
  BY <1>1, SupTypesInit DEF SupInit, RowInv, Started, Accounted, Watched, Well

\* The invariant is kept.
LEMMA RowInvKept ==
  ASSUME RowInv, [SupNext]_supVars
  PROVE  RowInv'
<1>1. SupTypeOK'
  BY SupTypesKept DEF RowInv
<1>2. CASE RunMany \/ Interrupt
  <2>1. Started' /\ Accounted'
    BY <1>2, RowsOfRunMany DEF RunMany
  <2> QED
    BY <1>1, <1>2, <2>1, WatchedKept DEF RowInv, SupNext
<1>3. CASE SupNext /\ ~(RunMany \/ Interrupt)
  <2>1. Started' /\ Accounted'
    BY <1>3, RowsOfWorkers DEF SupNext, Working
  <2> QED
    BY <1>1, <1>3, <2>1, WatchedKept DEF RowInv
<1>4. CASE UNCHANGED supVars
  BY <1>1, <1>4 DEF supVars, RowInv, Started, Accounted, Closed, Watched, Well
<1> QED
  BY <1>2, <1>3, <1>4

\* For any number of devices: when run_many returns, every row it made has a verdict, or was
\* deleted (workers.py:81-92).
THEOREM ReturnsWithVerdicts == SupSpec => []RowsClosed
<1>1. RowInv => RowsClosed
  BY DEF RowInv, Started, Accounted, Closed, RowsClosed
<1> QED
  BY <1>1, RowInvInit, RowInvKept, PTL DEF SupSpec
----
\* The arithmetic of the joins

\* A multiple of the join's wait.
LEMMA JoinProduct ==
  ASSUME NEW a \in Nat, NEW b \in Nat
  PROVE  /\ JoinWait * a \in Nat
         /\ a <= b => JoinWait * a <= JoinWait * b
         /\ a < b => JoinWait * a + JoinWait <= JoinWait * b
<1>1. JoinWait \in Nat
  BY SupervisorAssumption
<1>2. \A j, c \in Nat : j * c \in Nat
  OBVIOUS
<1>3. \A j, c, d \in Nat : j * (c + d) = j * c + j * d
  OBVIOUS
<1>4. ASSUME a <= b PROVE JoinWait * a <= JoinWait * b
  <2>1. b - a \in Nat /\ b = a + (b - a)
    BY <1>4
  <2>2. JoinWait * b = JoinWait * a + JoinWait * (b - a)
    BY <1>1, <1>3, <2>1
  <2> QED
    BY <1>1, <1>2, <2>1, <2>2
<1>5. ASSUME a < b PROVE JoinWait * a + JoinWait <= JoinWait * b
  <2>1. b - a - 1 \in Nat /\ b = (a + 1) + (b - a - 1)
    BY <1>5
  <2>2. JoinWait * b = JoinWait * (a + 1) + JoinWait * (b - a - 1)
    BY <1>1, <1>3, <2>1
  <2>3. JoinWait * (a + 1) = JoinWait * a + JoinWait
    BY <1>1, <1>3
  <2>4. JoinWait * (b - a - 1) \in Nat /\ JoinWait * a \in Nat
    BY <1>1, <1>2, <2>1
  <2> QED
    BY <1>1, <2>2, <2>3, <2>4
<1> QED
  BY <1>1, <1>2, <1>4, <1>5

\* The number of the workers run_many has done with.
LEMMA QuietFinite == /\ IsFiniteSet(Quiet) /\ Quiet \subseteq Workers
                     /\ Cardinality(Quiet) \in Nat /\ Cardinality(Workers) \in Nat
  BY SupervisorAssumption, FS_Subset, FS_CardinalityType DEF Quiet

\* One worker, or two, that run_many has not done with.
LEMMA QuietBound ==
  ASSUME NEW u \in Workers \ Quiet, NEW v \in Workers \ Quiet
  PROVE  /\ Cardinality(Quiet) <= Cardinality(Workers) - 1
         /\ u # v => Cardinality(Quiet) <= Cardinality(Workers) - 2
<1>1. /\ IsFiniteSet(Workers \ {u}) /\ Cardinality(Workers \ {u}) = Cardinality(Workers) - 1
      /\ Quiet \subseteq Workers \ {u}
  BY SupervisorAssumption, QuietFinite, FS_RemoveElement
<1>2. Cardinality(Quiet) <= Cardinality(Workers) - 1
  BY <1>1, FS_Subset
<1>3. ASSUME u # v PROVE Cardinality(Quiet) <= Cardinality(Workers) - 2
  <2> DEFINE R == (Workers \ {u}) \ {v}
  <2>1. v \in Workers \ {u} /\ Quiet \subseteq R
    BY <1>1, <1>3
  <2>2. IsFiniteSet(R) /\ Cardinality(R) = Cardinality(Workers \ {u}) - 1
    BY <1>1, <2>1, FS_RemoveElement
  <2>3. Cardinality(Quiet) <= Cardinality(R)
    BY <2>1, <2>2, FS_Subset
  <2>4. Cardinality(Workers) \in Nat
    BY QuietFinite
  <2> QED
    BY <1>1, <2>2, <2>3, <2>4
<1> QED
  BY <1>2, <1>3

\* A run_many that has done with more workers can have waited longer.
LEMMA QuietGrows ==
  ASSUME Quiet \subseteq Quiet'
  PROVE  /\ Cardinality(Quiet') \in Nat
         /\ JoinWait * Cardinality(Quiet) <= JoinWait * Cardinality(Quiet')
         /\ Quiet # Quiet' => JoinWait * Cardinality(Quiet) + JoinWait <= JoinWait * Cardinality(Quiet')
<1>1. Quiet' \subseteq Workers
  BY DEF Quiet
<1>2. IsFiniteSet(Quiet') /\ Cardinality(Quiet') \in Nat
  BY <1>1, SupervisorAssumption, FS_Subset, FS_CardinalityType
<1>3. Cardinality(Quiet) <= Cardinality(Quiet')
  BY <1>2, FS_Subset
<1>4. Quiet # Quiet' => Cardinality(Quiet) < Cardinality(Quiet')
  BY <1>2, <1>3, FS_Subset, QuietFinite
<1> QED
  BY <1>2, <1>3, <1>4, QuietFinite, JoinProduct

\* The time spent in joins is a number of ticks.
LEMMA WaitedType ==
  ASSUME RowInv
  PROVE  Waited \in Nat /\ JoinWait * Cardinality(Quiet) \in Nat
<1>1. JoinWait * Cardinality(Quiet) \in Nat
  BY QuietFinite, JoinProduct
<1>2. sup = "join" => JoinWait - patience \in Nat
  BY SupervisorAssumption DEF RowInv, SupTypeOK, Started
<1> QED
  BY <1>1, <1>2 DEF Waited
----
\* run_many hears of every process that runs in time

\* A step of a process that sends no beat: nothing run_many sees changes.
LEMMA NoBeatKeepsTime ==
  ASSUME InTime, UNCHANGED <<beats, seen, passVars>>,
         \A w \in Workers : (Well(w)' => Well(w)) /\ (due[w] => due'[w])
  PROVE  InTime'
<1>1. \A w \in Workers : Queued(w)' <=> Queued(w)
  BY DEF Queued
<1>2. Quiet' = Quiet
  BY <1>1 DEF Quiet, passVars
<1>3. Waited' = Waited /\ (Going' <=> Going)
  BY <1>2, Zenon DEF Waited, passVars, Going
<1>4. \A w \in Workers : Fresh(w) => Fresh(w)'
  BY <1>1 DEF Fresh
<1> QED
  BY <1>1, <1>3, <1>4 DEF InTime, Heard, passVars

\* The next device's process is started: no time has passed.
LEMMA SpawnKeepsTime ==
  ASSUME RowInv, InTime, RowInv', NEW w \in Workers, Spawn(w)
  PROVE  InTime'
<1>1. /\ seen' = seen /\ beats' = beats /\ late' = {} /\ alive' = alive \cup {w}
      /\ \A u \in Workers : seen[u] = 0
      /\ \A i \in DOMAIN beats : beats[i].age = 0
  BY DEF Spawn, RowInv, Started
<1>2. Waited' \in Nat
  <2>1. JoinWait * Cardinality(Quiet') \in Nat
    <3>1. Quiet' \subseteq Workers
      BY DEF Quiet
    <3>2. Cardinality(Quiet') \in Nat
      BY <3>1, SupervisorAssumption, FS_Subset, FS_CardinalityType
    <3> QED
      BY <3>2, JoinProduct
  <2>2. sup' # "join"
    BY DEF Spawn
  <2> QED
    BY <2>1, <2>2 DEF Waited
<1>3. due' = [due EXCEPT ![w] = TRUE] /\ proc' = [proc EXCEPT ![w] = "alive"] /\ fault' = fault
  BY DEF Spawn
<1>4. ASSUME NEW u \in Workers, Well(u)'
      PROVE  u \in alive' /\ Fresh(u)'
  <2>1. CASE u = w
    <3>1. due'[u]
      BY <1>3, <2>1, Zenon DEF RowInv, SupTypeOK
    <3> QED
      BY <1>1, <2>1, <3>1 DEF Fresh
  <2>2. CASE u # w
    <3>1. Well(u)
      BY <1>3, <1>4, <2>2 DEF Well, RowInv, SupTypeOK
    <3>2. due[u] => due'[u]
      <4>1. due \in [Workers -> BOOLEAN] /\ due' = [due EXCEPT ![w] = TRUE]
        BY <1>3 DEF RowInv, SupTypeOK
      <4> QED
        BY <2>2, <4>1, Zenon
    <3>3. Fresh(u) => Fresh(u)'
      BY <1>1, <3>2 DEF Fresh, Queued
    <3> QED
      BY <1>1, <3>1, <3>3 DEF InTime
  <2> QED
    BY <2>1, <2>2
<1>5. \A u \in Workers : u \notin late' /\ seen'[u] <= 1 + Waited'
  BY <1>1, <1>2
<1>6. \A i \in DOMAIN beats' : beats'[i].age <= Waited'
  BY <1>1, <1>2
<1> QED
  BY <1>4, <1>5, <1>6 DEF InTime

\* A beat is sent.
LEMMA BeatKeepsTime ==
  ASSUME RowInv, InTime, NEW w \in Workers, Beat(w)
  PROVE  InTime' /\ \A u \in Workers : Queued(u)' => Queued(u) \/ u = w
<1>1. /\ Len(beats) \in Nat /\ DOMAIN beats = 1 .. Len(beats)
      /\ DOMAIN beats' = 1 .. Len(beats) + 1
      /\ \A i \in DOMAIN beats : beats'[i] = beats[i]
      /\ beats'[Len(beats) + 1] = [from |-> w, age |-> 0]
  BY BeatIsLast DEF RowInv
<1>2. \A i \in DOMAIN beats' : i \in DOMAIN beats \/ i = Len(beats) + 1
  BY <1>1
<1>3. \A i \in DOMAIN beats : i \in DOMAIN beats' /\ i < Len(beats) + 1
  BY <1>1
<1>4. Len(beats) + 1 \in DOMAIN beats'
  BY <1>1
<1>5. \A u \in Workers : Queued(u)' <=> Queued(u) \/ u = w
  BY <1>1, <1>2, <1>3, <1>4 DEF Queued
<1>6. /\ w \in alive /\ Well(w)
      /\ UNCHANGED <<proc, fault, seen, sup, alive, late, joining, patience>>
      /\ \A u \in Workers \ {w} : due'[u] = due[u]
  BY Zenon DEF InTime, Beat, passVars, RowInv, SupTypeOK
<1>7. Quiet' = Quiet
  BY <1>5, <1>6 DEF Quiet
<1>8. Waited' = Waited /\ (Going' <=> Going) /\ \A u \in Workers : Well(u)' <=> Well(u)
  BY <1>6, <1>7, Zenon DEF Waited, Going, Well
<1>9. ASSUME NEW u \in Workers, Well(u) PROVE Fresh(u)'
  <2>1. CASE u = w
    <3>1. \A j \in DOMAIN beats' : ~(j > Len(beats) + 1)
      BY <1>1
    <3> QED
      BY <1>1, <1>4, <2>1, <3>1 DEF Fresh
  <2>2. CASE u # w
    <3>1. Fresh(u)
      BY <1>9 DEF InTime
    <3>2. CASE due[u]
      BY <1>6, <2>2, <3>2 DEF Fresh
    <3>3. CASE seen[u] = 0 /\ ~Queued(u)
      BY <1>5, <1>6, <2>2, <3>3 DEF Fresh
    <3>4. ASSUME NEW i \in DOMAIN beats, beats[i] = [from |-> u, age |-> 0],
                 \A j \in DOMAIN beats : j > i => beats[j].from # u
          PROVE  Fresh(u)'
      <4>1. \A j \in DOMAIN beats' : j > i => beats'[j].from # u
        BY <1>1, <1>2, <2>2, <3>4
      <4>2. beats'[i] = [from |-> u, age |-> 0] /\ i \in DOMAIN beats'
        BY <1>1, <1>3, <3>4
      <4> QED
        BY <4>1, <4>2 DEF Fresh
    <3> QED
      BY <3>1, <3>2, <3>3, <3>4 DEF Fresh
  <2> QED
    BY <2>1, <2>2
<1>10. \A i \in DOMAIN beats' : Going' => beats'[i].age <= Waited'
  BY <1>1, <1>2, <1>8, WaitedType DEF InTime
<1>11. \A u \in Workers : Heard(u)' => Heard(u)
  BY <1>5, <1>6, <1>8 DEF Heard
<1> QED
  BY <1>5, <1>6, <1>8, <1>9, <1>10, <1>11 DEF InTime

\* A join's second: whatever run_many has seen or will see is a tick older, and so is its wait.
LEMMA JoinTickKeepsTime ==
  ASSUME RowInv, InTime, ~LockLost, JoinTick
  PROVE  InTime' /\ \A u \in Workers : Queued(u)' <=> Queued(u)
<1>1. /\ DOMAIN beats' = DOMAIN beats
      /\ \A i \in DOMAIN beats : /\ beats'[i].from = beats[i].from
                                 /\ beats'[i].age = Older(beats[i].age)
                                 /\ beats[i].age \in 0 .. Timeout + 1
  <2>1. SupTypeOK /\ Tick
    BY DEF RowInv, JoinTick
  <2>2. beats \in Seq([from : Workers, age : 0 .. Timeout + 1])
    BY <2>1 DEF SupTypeOK
  <2>3. \A i \in DOMAIN beats : beats[i] \in [from : Workers, age : 0 .. Timeout + 1]
    <3> DEFINE B == [from : Workers, age : 0 .. Timeout + 1]
    <3> HIDE DEF B
    <3>1. beats \in Seq(B)
      BY <2>2 DEF B
    <3>2. \A i \in DOMAIN beats : beats[i] \in B
      BY <3>1
    <3> QED
      BY <3>2 DEF B
  <2> QED
    BY <2>1, <2>3, TickKeepsQueue
<1>2. \A u \in Workers : Queued(u)' <=> Queued(u)
  BY <1>1 DEF Queued
<1>3. UNCHANGED <<sup, alive, late, joining, proc, fault>> /\ patience' = patience - 1 /\ sup = "join"
  BY DEF JoinTick
<1>4. Quiet' = Quiet
  BY <1>2, <1>3 DEF Quiet
<1>5. Waited' = Waited + 1
  <2>1. Cardinality(Quiet') = Cardinality(Quiet)
    BY <1>4, Zenon
  <2>2. patience \in Nat /\ JoinWait \in Nat
    BY SupervisorAssumption DEF RowInv, SupTypeOK
  <2>3. JoinWait * Cardinality(Quiet) \in Nat
    BY WaitedType
  <2> DEFINE c == JoinWait * Cardinality(Quiet)
  <2>4. Waited = c + (JoinWait - patience) /\ Waited' = c + (JoinWait - patience')
    BY <1>3, <2>1 DEF Waited
  <2> HIDE DEF c
  <2> QED
    BY <1>3, <2>2, <2>3, <2>4 DEF c
<1>6. \A u \in Workers : Well(u)' <=> Well(u)
  BY <1>3 DEF Well
<1>7. ASSUME NEW u \in Workers, Well(u) PROVE Fresh(u)'
  <2>1. due' = [x \in Workers |-> due[x] \/ (proc[x] = "alive" /\ fault[x] = "none")]
    BY DEF JoinTick, Tick
  <2>2. proc[u] = "alive" /\ fault[u] = "none"
    BY <1>7 DEF JoinTick, NothingUrgent, Well
  <2>3. due'[u]
    BY <2>1, <2>2
  <2> QED
    BY <2>3 DEF Fresh
<1>8. \A u \in Workers : seen[u] \in 0 .. Timeout + 1 /\ seen'[u] = Older(seen[u])
  BY DEF JoinTick, RowInv, SupTypeOK
<1>9. \A u \in Workers : seen'[u] <= seen[u] + 1
  BY <1>8, OlderType
<1>10. \A i \in DOMAIN beats : beats'[i].age <= beats[i].age + 1
  BY <1>1, OlderType
<1>11. Waited \in Nat /\ Going
  BY WaitedType, <1>3 DEF Going
<1>12. \A u \in Workers : Heard(u)' => Heard(u)
  BY <1>2, <1>3, <1>6 DEF Heard
<1>13. \A u \in Workers : Heard(u)' => seen'[u] <= 1 + Waited'
  BY <1>5, <1>8, <1>9, <1>11, <1>12, OlderType DEF InTime
<1>14. \A i \in DOMAIN beats' : beats'[i].age <= Waited'
  BY <1>1, <1>5, <1>10, <1>11, OlderType DEF InTime
<1> QED
  BY <1>2, <1>3, <1>6, <1>7, <1>12, <1>13, <1>14 DEF InTime

\* A beat is read, of a worker in alive or of one run_many has done with: those it finds late
\* neither run nor have a beat in the queue.
LEMMA GetBeatKeepsTime ==
  ASSUME FewEnough, RowInv, InTime, GetBeat
  PROVE  InTime'
<1> DEFINE u == beats[1].from
           a == beats[1].age
           c == Cardinality(Quiet)
           N == Cardinality(Workers)
<1>1. /\ 1 \in DOMAIN beats /\ u \in Workers /\ a \in 0 .. Timeout + 1
      /\ Len(beats) \in Nat /\ DOMAIN beats = 1 .. Len(beats)
      /\ DOMAIN beats' = 1 .. Len(beats) - 1
      /\ \A i \in DOMAIN beats' : beats'[i] = beats[i + 1] /\ i + 1 \in DOMAIN beats
  BY HeadAndTail DEF GetBeat, RowInv, SupTypeOK
<1>2. /\ UNCHANGED <<proc, fault, due, alive>> /\ sup = "get" /\ sup' = "check"
      /\ \A w \in alive : seen'[w] = IF w = u THEN a ELSE seen[w]
      /\ late' = {w \in alive : seen'[w] > Timeout}
  <2>1. Head(beats).from = u /\ Head(beats).age = a
    BY HeadAndTail DEF GetBeat, RowInv
  <2>2. alive \subseteq Workers /\ DOMAIN seen = Workers
    BY DEF RowInv, SupTypeOK
  <2>3. BeginPass([seen EXCEPT ![u] = a])
    BY <2>1 DEF GetBeat
  <2> HIDE DEF u, a
  <2>4. \A w \in alive : [seen EXCEPT ![u] = a][w] = IF w = u THEN a ELSE seen[w]
    BY <1>1, <2>2
  <2> QED
    BY <2>2, <2>3, <2>4 DEF GetBeat, BeginPass, workerVars
<1> HIDE DEF u, a, c, N
<1>3. Queued(u) /\ \A w \in Workers : Queued(w)' => Queued(w)
  BY <1>1 DEF Queued, u
<1>4. Quiet \subseteq Quiet'
  BY <1>2, <1>3 DEF Quiet
<1>5. /\ c \in Nat /\ N \in Nat /\ JoinWait * c \in Nat
      /\ Waited = JoinWait * c /\ Waited <= Waited' /\ Waited' \in Nat
  <2>1. sup # "join" /\ sup' # "join"
    BY <1>2
  <2>2. JoinWait * Cardinality(Quiet') \in Nat
    BY <1>4, QuietGrows, JoinProduct
  <2>3. Waited = JoinWait * c + 0 /\ Waited' = JoinWait * Cardinality(Quiet') + 0
    BY <2>1 DEF Waited, c
  <2> QED
    BY <1>4, <2>2, <2>3, QuietGrows, QuietFinite, WaitedType DEF c, N
<1>6. a <= Waited
  BY <1>1, <1>2 DEF InTime, Going, a
<1>7. \A w \in Workers : Well(w)' <=> Well(w)
  BY <1>2 DEF Well
<1>8. ASSUME NEW w \in Workers, Well(w) PROVE w \in alive' /\ Fresh(w)'
  <2>1. w \in alive /\ Fresh(w)
    BY <1>8 DEF InTime
  <2>2. CASE due[w]
    BY <1>2, <2>1, <2>2 DEF Fresh
  <2>3. CASE seen[w] = 0 /\ ~Queued(w)
    BY <1>2, <1>3, <2>1, <2>3 DEF Fresh
  <2>4. ASSUME NEW i \in DOMAIN beats, beats[i] = [from |-> w, age |-> 0],
               \A j \in DOMAIN beats : j > i => beats[j].from # w
        PROVE  Fresh(w)'
    <3>1. CASE i = 1
      <4>1. w = u /\ a = 0
        BY <2>4, <3>1 DEF u, a
      <4>2. \A j \in DOMAIN beats' : beats'[j].from # w
        <5> SUFFICES ASSUME NEW j \in DOMAIN beats' PROVE beats'[j].from # w
          OBVIOUS
        <5>1. j + 1 \in DOMAIN beats /\ j + 1 > 1
          BY <1>1
        <5> QED
          BY <1>1, <2>4, <3>1, <5>1
      <4> QED
        BY <1>2, <2>1, <4>1, <4>2 DEF Fresh, Queued
    <3>2. CASE i # 1
      <4>1. i - 1 \in DOMAIN beats' /\ i = (i - 1) + 1
        BY <1>1, <2>4, <3>2
      <4>2. beats'[i - 1] = [from |-> w, age |-> 0]
        BY <1>1, <2>4, <4>1
      <4>3. \A j \in DOMAIN beats' : j > i - 1 => beats'[j].from # w
        <5> SUFFICES ASSUME NEW j \in DOMAIN beats', j > i - 1 PROVE beats'[j].from # w
          OBVIOUS
        <5>1. j \in Nat /\ i \in Nat /\ j + 1 \in DOMAIN beats
          BY <1>1, <2>4
        <5>2. j + 1 > i
          BY <5>1
        <5> QED
          BY <1>1, <2>4, <5>1, <5>2
      <4> QED
        BY <4>1, <4>2, <4>3 DEF Fresh
    <3> QED
      BY <3>1, <3>2
  <2> QED
    BY <1>2, <2>1, <2>2, <2>3, <2>4 DEF Fresh
<1>9. ASSUME NEW w \in Workers, Heard(w)'
      PROVE  w \notin late' /\ seen'[w] <= 1 + Waited'
  <2>1. w \in alive /\ Heard(w)
    BY <1>2, <1>3, <1>7, <1>9 DEF Heard
  <2>2. seen[w] <= 1 + Waited
    BY <1>2, <2>1 DEF InTime, Going
  <2>3. seen[w] \in Nat /\ Timeout \in Nat \ {0} /\ JoinWait \in Nat
    BY SupervisorAssumption DEF RowInv, SupTypeOK
  <2>4. w \in Workers \ Quiet /\ u \in Workers \ Quiet
    BY <1>1, <1>3, <2>1 DEF Quiet
  <2>5. JoinWait * (N - 1) <= Timeout
    BY DEF FewEnough, N
  <2>6. c <= N - 1 /\ (w # u => c <= N - 2)
    BY <2>4, QuietBound DEF c, N
  <2>7. N - 1 \in Nat
    BY <1>5, <2>6
  <2>8. JoinWait * c <= JoinWait * (N - 1) /\ (w # u => JoinWait * c + JoinWait <= JoinWait * (N - 1))
    BY <1>5, <2>6, <2>7, JoinProduct
  <2>9. JoinWait * (N - 1) \in Nat
    BY <2>7, JoinProduct
  <2>10. CASE w = u
    BY <1>1, <1>2, <1>5, <1>6, <2>1, <2>5, <2>8, <2>9, <2>10, <2>3
  <2>11. CASE w # u
    <3>1. seen'[w] = seen[w]
      BY <1>2, <2>1, <2>11
    <3>2. JoinWait = 0 => JoinWait * c = 0
      BY <1>5
    <3>3. seen[w] <= Timeout
      BY <1>5, <2>2, <2>3, <2>5, <2>8, <2>9, <2>11, <3>2
    <3> QED
      BY <1>2, <1>5, <2>2, <2>3, <3>1, <3>3
  <2> QED
    BY <2>10, <2>11
<1>10. ASSUME NEW i \in DOMAIN beats' PROVE beats'[i].age <= Waited'
  <2>1. i + 1 \in DOMAIN beats /\ beats'[i] = beats[i + 1]
    BY <1>1
  <2>2. beats[i + 1].age <= Waited
    BY <1>2, <2>1 DEF InTime, Going
  <2>3. beats[i + 1].age \in Nat
    <3> DEFINE B == [from : Workers, age : 0 .. Timeout + 1]
    <3> HIDE DEF B
    <3>1. beats \in Seq(B)
      BY DEF RowInv, SupTypeOK, B
    <3>2. beats[i + 1] \in B
      BY <2>1, <3>1
    <3> QED
      BY <3>2, SupervisorAssumption DEF B
  <2> QED
    BY <1>5, <2>1, <2>2, <2>3
<1> QED
  BY <1>2, <1>7, <1>8, <1>9, <1>10 DEF InTime

\* The queue stayed empty for a tick: whatever runs has been seen in the tick before.
LEMMA GetNothingKeepsTime ==
  ASSUME RowInv, InTime, ~LockLost, GetNothing
  PROVE  InTime'
<1>1. /\ UNCHANGED <<proc, fault, alive>> /\ sup = "get" /\ sup' = "check"
      /\ \A w \in alive : seen'[w] = Older(seen[w])
      /\ late' = {w \in alive : seen'[w] > Timeout}
      /\ DOMAIN beats = {} /\ DOMAIN beats' = {}
  <2>1. SupTypeOK /\ Tick /\ beats = <<>>
    BY DEF RowInv, GetNothing
  <2>2. DOMAIN beats = {} /\ DOMAIN beats' = {}
    BY <2>1, TickKeepsQueue
  <2>3. alive \subseteq Workers
    BY <2>1 DEF SupTypeOK
  <2> QED
    BY <2>2, <2>3 DEF GetNothing, BeginPass
<1>2. \A w \in Workers : Well(w)' <=> Well(w)
  BY <1>1 DEF Well
<1>3. ASSUME NEW w \in Workers, Well(w)
      PROVE  seen'[w] = 1 /\ Fresh(w)' /\ w \in alive
  <2>1. w \in alive /\ Fresh(w) /\ proc[w] = "alive" /\ fault[w] = "none" /\ ~due[w]
    BY <1>3 DEF InTime, GetNothing, NothingUrgent, Well
  <2>2. seen[w] = 0
    BY <1>1, <2>1 DEF Fresh
  <2>3. due' = [x \in Workers |-> due[x] \/ (proc[x] = "alive" /\ fault[x] = "none")]
    BY DEF GetNothing, Tick
  <2>4. due'[w]
    BY <2>1, <2>3
  <2> QED
    BY <1>1, <2>1, <2>2, <2>4, SupervisorAssumption DEF Older, Fresh
<1>4. Waited' \in Nat
  <2>1. Quiet' \subseteq Workers
    BY DEF Quiet
  <2>2. JoinWait * Cardinality(Quiet') \in Nat
    BY <2>1, SupervisorAssumption, FS_Subset, FS_CardinalityType, JoinProduct
  <2>3. Waited' = JoinWait * Cardinality(Quiet') + 0
    BY <1>1 DEF Waited
  <2> QED
    BY <2>2, <2>3
<1>5. \A w \in Workers : Heard(w)' => Well(w)
  BY <1>1, <1>2 DEF Heard, Queued
<1> QED
  BY <1>1, <1>2, <1>3, <1>4, <1>5, SupervisorAssumption DEF InTime

\* run_many is done with a worker whose process is not well, and which has waited for no join
\* that Waited does not count.
LEMMA DoneKeepsTime ==
  ASSUME RowInv, InTime, UNCHANGED <<beats, seen, proc, fault, due>>,
         NEW w \in alive, ~Well(w), alive' = alive \ {w}, late' = late,
         Going' => Going /\ Waited <= Waited' /\ Waited' \in Nat
  PROVE  InTime'
<1>1. \A x \in Workers : (Queued(x)' <=> Queued(x)) /\ (Well(x)' <=> Well(x)) /\ (Fresh(x)' <=> Fresh(x))
  BY DEF Queued, Well, Fresh
<1>2. \A x \in Workers : (Heard(x)' => Heard(x)) /\ (Well(x) /\ x \in alive => x \in alive')
  BY <1>1 DEF Heard
<1>3. Waited \in Nat /\ \A x \in Workers : seen[x] \in Nat
  BY WaitedType, SupervisorAssumption DEF RowInv, SupTypeOK
<1>4. \A i \in DOMAIN beats : beats[i].age \in Nat
  <2> DEFINE B == [from : Workers, age : 0 .. Timeout + 1]
  <2> HIDE DEF B
  <2>1. beats \in Seq(B)
    BY DEF RowInv, SupTypeOK, B
  <2>2. \A i \in DOMAIN beats : beats[i] \in B
    BY <2>1
  <2> QED
    BY <2>2, SupervisorAssumption DEF B
<1> QED
  BY <1>1, <1>2, <1>3, <1>4 DEF InTime

\* The join of a terminated process is over.
LEMMA JoinedKeepsTime ==
  ASSUME RowInv, InTime, Blamed, Joined
  PROVE  InTime'
<1>1. /\ UNCHANGED <<beats, seen, proc, fault, due>> /\ sup = "join" /\ sup' = "check"
      /\ alive' = alive \ {joining} /\ late' = late
      /\ joining \in alive /\ ~Well(joining) /\ ~Queued(joining) /\ joining \in Workers
  BY DEF Joined, RowInv, SupTypeOK, Started, Blamed, Well, workerVars
<1>2. Quiet \subseteq Quiet' /\ Quiet # Quiet'
  BY <1>1 DEF Quiet, Queued
<1>3. /\ JoinWait * Cardinality(Quiet) + JoinWait <= JoinWait * Cardinality(Quiet')
      /\ JoinWait * Cardinality(Quiet) \in Nat /\ JoinWait * Cardinality(Quiet') \in Nat
  BY <1>2, QuietGrows, WaitedType, JoinProduct
<1>4. Waited <= Waited' /\ Waited' \in Nat
  <2> DEFINE c == JoinWait * Cardinality(Quiet)
             d == JoinWait * Cardinality(Quiet')
  <2>1. Waited = c + (JoinWait - patience) /\ Waited' = d + 0
    BY <1>1 DEF Waited
  <2>2. c + JoinWait <= d /\ c \in Nat /\ d \in Nat
    BY <1>3
  <2> HIDE DEF c, d
  <2>3. patience \in Nat /\ JoinWait \in Nat
    BY SupervisorAssumption DEF RowInv, SupTypeOK
  <2> QED
    BY <2>1, <2>2, <2>3
<1> QED
  BY <1>1, <1>4, DoneKeepsTime DEF Going

\* A process that has ended is taken note of.
LEMMA EndedKeepsTime ==
  ASSUME RowInv, InTime, NEW w \in Workers, CheckEnded(w)
  PROVE  InTime'
<1>1. /\ UNCHANGED <<beats, seen, proc, fault, due>> /\ sup = "check" /\ sup' # "join"
      /\ alive' = alive \ {w} /\ late' = late
      /\ w \in alive /\ ~Well(w)
  BY DEF CheckEnded, Well, workerVars
<1>2. Quiet \subseteq Quiet'
  BY <1>1 DEF Quiet, Queued
<1>3. Waited <= Waited' /\ Waited' \in Nat
  <2> DEFINE c == JoinWait * Cardinality(Quiet)
             d == JoinWait * Cardinality(Quiet')
  <2>1. Waited = c + 0 /\ Waited' = d + 0
    BY <1>1 DEF Waited
  <2>2. c <= d /\ c \in Nat /\ d \in Nat
    BY <1>2, QuietGrows, WaitedType, JoinProduct
  <2> HIDE DEF c, d
  <2> QED
    BY <2>1, <2>2
<1> QED
  BY <1>1, <1>3, DoneKeepsTime DEF Going

\* A process found late is terminated; it neither runs nor has a beat in the queue.
LEMMA LateKeepsTime ==
  ASSUME RowInv, InTime, NEW w \in Workers, CheckLate(w)
  PROVE  /\ InTime' /\ fault[w] # "none" /\ ~Queued(w) /\ ~Queued(w)'
         /\ \A u \in Workers : (Well(u) => u # w) /\ (Queued(u)' <=> Queued(u))
<1>1. /\ UNCHANGED <<beats, seen, fault, due, alive, late>> /\ sup = "check" /\ sup' = "join"
      /\ joining' = w /\ patience' = JoinWait
      /\ w \in alive /\ w \in late /\ proc[w] # "exited"
      /\ \A u \in Workers \ {w} : proc'[u] = proc[u]
  BY DEF CheckLate, TerminateTimeout, RowInv, SupTypeOK
<1>2. ~Heard(w)
  BY <1>1 DEF InTime
<1>3. ~Well(w) /\ ~Queued(w)
  BY <1>1, <1>2 DEF Heard
<1>4. fault[w] # "none"
  <2>1. proc[w] \in {"alive", "exiting"}
    BY <1>1 DEF RowInv, SupTypeOK, Started
  <2> QED
    BY <1>3, <2>1 DEF Well
<1>5. \A u \in Workers : (Well(u)' <=> Well(u)) /\ (Queued(u)' <=> Queued(u)) /\ (Fresh(u)' <=> Fresh(u))
  <2>1. ~Well(w)'
    BY <1>1, <1>4 DEF Well
  <2> QED
    BY <1>1, <1>3, <2>1 DEF Well, Queued, Fresh
<1>6. Quiet' = Quiet
  BY <1>1, <1>5 DEF Quiet
<1>7. Waited' = Waited
  <2> DEFINE c == JoinWait * Cardinality(Quiet)
  <2>1. Cardinality(Quiet') = Cardinality(Quiet)
    BY <1>6, Zenon
  <2>2. Waited = c + 0 /\ Waited' = c + (JoinWait - JoinWait)
    BY <1>1, <2>1 DEF Waited
  <2>3. c \in Nat /\ JoinWait \in Nat
    BY WaitedType, SupervisorAssumption
  <2> HIDE DEF c
  <2> QED
    BY <2>2, <2>3
<1>8. InTime'
  BY <1>1, <1>5, <1>7 DEF InTime, Heard, Going
<1> QED
  BY <1>1, <1>3, <1>4, <1>5, <1>8

\* The pass is over, or run_many is left.
LEMMA EndKeepsTime ==
  ASSUME RowInv, InTime, EndPass \/ Interrupt
  PROVE  InTime'
<1>1. /\ UNCHANGED <<beats, seen, proc, fault, due, alive>> /\ late' \subseteq late
      /\ Going' => Going /\ sup # "join" /\ sup' # "join"
  BY DEF EndPass, Interrupt, workerVars, Going
<1>2. \A u \in Workers : /\ (Well(u)' <=> Well(u)) /\ (Queued(u)' <=> Queued(u))
                         /\ (Fresh(u)' <=> Fresh(u)) /\ (Heard(u)' <=> Heard(u))
  BY <1>1 DEF Well, Queued, Fresh, Heard
<1>3. Quiet' = Quiet
  BY <1>1, <1>2 DEF Quiet
<1>4. Going' => Waited' = Waited
  <2>1. Cardinality(Quiet') = Cardinality(Quiet)
    BY <1>3, Zenon
  <2> QED
    BY <1>1, <2>1 DEF Waited
<1> QED
  BY <1>1, <1>2, <1>4 DEF InTime

\* The steps of run_many keep InTime.
LEMMA RunManyKeepsTime ==
  ASSUME FewEnough, RowInv, RowInv', InTime, Blamed, ~LockLost, RunMany \/ Interrupt
  PROVE  InTime'
  BY GetBeatKeepsTime, GetNothingKeepsTime, JoinTickKeepsTime, JoinedKeepsTime, EndKeepsTime,
     SpawnKeepsTime, EndedKeepsTime, LateKeepsTime DEF RunMany

\* The steps of the processes, the faults and the deletions keep InTime.
LEMMA WorkersKeepTime ==
  ASSUME RowInv, InTime, NEW w \in Workers,
         \/ TakeLock(w) \/ Beat(w) \/ Lookup(w) \/ Claim(w) \/ Exit(w) \/ GoOn(w) \/ Delete(w)
         \/ \E v \in Verdicts \cup {"none"} : Finish(w, v)
         \/ \E how \in {"died", "hung", "stopped"} : Fail(w, how)
  PROVE  InTime'
<1>a. DOMAIN proc = Workers /\ DOMAIN fault = Workers /\ due \in [Workers -> BOOLEAN]
  BY DEF RowInv, SupTypeOK
<1>1. CASE Beat(w)
  BY <1>1, BeatKeepsTime
<1>2. CASE TakeLock(w) \/ Lookup(w) \/ Claim(w) \/ Delete(w)
  BY <1>2, NoBeatKeepsTime DEF TakeLock, Lookup, Claim, Delete, workerVars, Well
<1>3. CASE Exit(w) \/ GoOn(w)
  <2>1. \A u \in Workers : Well(u)' => Well(u)
    BY <1>3, <1>a DEF Exit, GoOn, Well
  <2> QED
    BY <1>3, <2>1, NoBeatKeepsTime DEF Exit, GoOn
<1>4. ASSUME NEW v \in Verdicts \cup {"none"}, Finish(w, v)
      PROVE  InTime'
  <2>1. \A u \in Workers : Well(u)' => Well(u)
    BY <1>4, <1>a DEF Finish, Well
  <2>2. due' = [due EXCEPT ![w] = TRUE]
    BY <1>4 DEF Finish
  <2>3. \A u \in Workers : due[u] => due'[u]
    BY <1>a, <2>2, Zenon
  <2> QED
    BY <1>4, <2>1, <2>3, NoBeatKeepsTime DEF Finish
<1>5. ASSUME NEW how \in {"died", "hung", "stopped"}, Fail(w, how)
      PROVE  InTime'
  <2>1. \A u \in Workers : Well(u)' => Well(u)
    BY <1>5, <1>a DEF Fail, Well
  <2> QED
    BY <1>5, <2>1, NoBeatKeepsTime DEF Fail
<1> QED
  BY <1>1, <1>2, <1>3, <1>4, <1>5

\* Every step keeps Blamed.
LEMMA BlamedKept ==
  ASSUME RowInv, InTime, Blamed, SupNext
  PROVE  Blamed'
<1> DEFINE Said(w) == said[w] \in {"completed", "interrupted"}
           Faulty == sup = "join" => fault[joining] # "none" /\ ~Queued(joining)
           Bad(w) == (code[w] = 1 \/ row[w] = "failed") /\ Said(w) => fault[w] # "none"
<1>a. /\ DOMAIN proc = Workers /\ DOMAIN code = Workers /\ DOMAIN row = Workers
      /\ DOMAIN said = Workers /\ DOMAIN fault = Workers
      /\ \A w \in Workers : code[w] \in {0, 1}
  BY DEF RowInv, SupTypeOK
<1>b. \A w \in Workers : Bad(w)
  BY DEF Blamed
<1>c. SUFFICES Faulty' /\ \A w \in Workers : Bad(w)'
  BY DEF Blamed
<1> HIDE DEF Said, Bad
<1>d. ASSUME UNCHANGED <<said, fault>>,
             \A w \in Workers : code'[w] = code[w] \/ code'[w] = 0 \/ fault[w] # "none",
             \A w \in Workers : row'[w] = row[w] \/ row'[w] # "failed" \/ fault[w] # "none" \/ code[w] = 1
      PROVE  \A w \in Workers : Bad(w)'
  BY <1>a, <1>b, <1>d DEF Bad, Said
<1>1. CASE GetBeat \/ GetNothing \/ EndPass \/ Interrupt
  <2>1. UNCHANGED <<row, said, code, fault>> /\ sup' # "join"
    BY <1>1 DEF GetBeat, GetNothing, EndPass, Interrupt, BeginPass, workerVars
  <2> QED
    BY <1>d, <2>1
<1>2. CASE JoinTick
  <2>1. UNCHANGED <<row, said, code, fault, joining, sup>>
    BY <1>2 DEF JoinTick
  <2>2. DOMAIN beats' = DOMAIN beats /\ \A i \in DOMAIN beats : beats'[i].from = beats[i].from
    BY <1>2, TickKeepsQueue DEF JoinTick, RowInv
  <2> QED
    BY <1>d, <2>1, <2>2 DEF Blamed, Queued
<1>3. CASE Joined
  <2>1. UNCHANGED <<said, code, fault>> /\ sup' # "join" /\ fault[joining] # "none"
    BY <1>3 DEF Joined, Blamed, workerVars
  <2>2. \A w \in Workers : row'[w] = row[w] \/ fault[w] # "none"
    BY <1>3, <1>a, <2>1 DEF Joined
  <2> QED
    BY <1>d, <2>1, <2>2
<1>4. ASSUME NEW w \in Workers, Spawn(w)
      PROVE  Faulty' /\ \A u \in Workers : Bad(u)'
  <2>1. UNCHANGED <<said, code, fault>> /\ sup' # "join"
    BY <1>4 DEF Spawn
  <2>2. \A u \in Workers : row'[u] = row[u] \/ row'[u] # "failed"
    BY <1>4, <1>a DEF Spawn
  <2> QED
    BY <1>d, <2>1, <2>2
<1>5. ASSUME NEW w \in Workers, CheckEnded(w)
      PROVE  Faulty' /\ \A u \in Workers : Bad(u)'
  <2>1. UNCHANGED <<said, code, fault>> /\ sup' # "join"
    BY <1>5 DEF CheckEnded, workerVars
  <2>2. \A u \in Workers : row'[u] = row[u] \/ code[u] = 1
    BY <1>5, <1>a DEF CheckEnded, BadExit
  <2> QED
    BY <1>d, <2>1, <2>2
<1>6. ASSUME NEW w \in Workers, CheckLate(w)
      PROVE  Faulty' /\ \A u \in Workers : Bad(u)'
  <2>1. UNCHANGED <<said, row, fault>> /\ joining' = w
    BY <1>6 DEF CheckLate
  <2>2. fault[w] # "none" /\ ~Queued(w)'
    BY <1>6, LateKeepsTime
  <2>3. \A u \in Workers : code'[u] = code[u] \/ fault[u] # "none"
    BY <1>6, <1>a, <2>2 DEF CheckLate
  <2> QED
    BY <1>d, <2>1, <2>2, <2>3 DEF Queued
<1>7. ASSUME NEW w \in Workers, Beat(w)
      PROVE  Faulty' /\ \A u \in Workers : Bad(u)'
  <2>1. UNCHANGED <<row, said, code, fault, joining, sup>> /\ fault[w] = "none"
    BY <1>7 DEF Beat, Well, passVars
  <2>2. \A u \in Workers : Queued(u)' => Queued(u) \/ u = w
    BY <1>7, BeatKeepsTime
  <2>3. sup = "join" => joining \in Workers
    BY DEF RowInv, Started, SupTypeOK
  <2> QED
    BY <1>d, <2>1, <2>2, <2>3 DEF Blamed, Queued
<1>8. ASSUME NEW w \in Workers, TakeLock(w) \/ Lookup(w) \/ Claim(w) \/ Exit(w) \/ GoOn(w) \/ Delete(w)
      PROVE  Faulty' /\ \A u \in Workers : Bad(u)'
  <2>1. UNCHANGED <<said, fault, beats, sup, joining>>
    BY <1>8 DEF TakeLock, Lookup, Claim, Exit, GoOn, Delete, workerVars, passVars
  <2>2. \A u \in Workers : code'[u] = code[u] \/ fault[u] # "none"
    BY <1>8, <1>a DEF TakeLock, Lookup, Claim, Exit, GoOn, Delete, workerVars
  <2>3. \A u \in Workers : row'[u] = row[u] \/ row'[u] # "failed"
    BY <1>8, <1>a DEF TakeLock, Lookup, Claim, Exit, GoOn, Delete
  <2> QED
    BY <1>d, <2>1, <2>2, <2>3 DEF Blamed, Queued
<1>9. ASSUME NEW w \in Workers, NEW v \in Verdicts \cup {"none"}, Finish(w, v)
      PROVE  Faulty' /\ \A u \in Workers : Bad(u)'
  <2>1. UNCHANGED <<fault, beats, sup, joining>>
    BY <1>9 DEF Finish, passVars
  <2>2. \A u \in Workers \ {w} : row'[u] = row[u] /\ code'[u] = code[u] /\ said'[u] = said[u]
    BY <1>9, <1>a DEF Finish
  <2>3. said'[w] = v /\ code'[w] = (IF v \in {"failed", "none"} THEN 1 ELSE 0)
    BY <1>9, <1>a DEF Finish
  <2>4. v \in {"completed", "interrupted"} => row'[w] # "failed"
    BY <1>9, <1>a DEF Finish
  <2>5. \A u \in Workers : Bad(u)'
    BY <1>b, <2>1, <2>2, <2>3, <2>4 DEF Bad, Said
  <2> QED
    BY <2>1, <2>5 DEF Blamed, Queued
<1>10. ASSUME NEW w \in Workers, NEW how \in {"died", "hung", "stopped"}, Fail(w, how)
       PROVE  Faulty' /\ \A u \in Workers : Bad(u)'
  <2>1. UNCHANGED <<row, said, beats, sup, joining>> /\ fault' = [fault EXCEPT ![w] = how]
    BY <1>10 DEF Fail, passVars
  <2>2. \A u \in Workers \ {w} : code'[u] = code[u] /\ fault'[u] = fault[u]
    BY <1>10, <1>a DEF Fail
  <2>3. fault'[w] # "none"
    BY <1>a, <2>1
  <2>4. \A u \in Workers : Bad(u)'
    BY <1>b, <2>1, <2>2, <2>3 DEF Bad, Said
  <2>5. \A u \in Workers : fault[u] # "none" => fault'[u] # "none"
    BY <2>2, <2>3
  <2>6. sup = "join" => joining \in Workers
    BY DEF RowInv, Started, SupTypeOK
  <2> QED
    BY <2>1, <2>4, <2>5, <2>6 DEF Blamed, Queued
<1> QED
  BY <1>1, <1>2, <1>3, <1>4, <1>5, <1>6, <1>7, <1>8, <1>9, <1>10, SupSteps

\* The invariant holds at the start.
LEMMA TimeInvInit == SupInit => TimeInv
<1> SUFFICES ASSUME SupInit PROVE InTime /\ Blamed
  BY DEF TimeInv
<1>1. DOMAIN beats = {} /\ \A w \in Workers : ~Well(w) /\ ~Heard(w)
  BY DEF SupInit, Well, Heard
<1> QED
  BY <1>1 DEF SupInit, InTime, Blamed

\* The invariant is kept, as long as the joins of all the other workers are within the timeout.
LEMMA TimeInvKept ==
  ASSUME FewEnough, RowInv, TimeInv, [SupNext]_supVars
  PROVE  TimeInv'
<1>1. CASE UNCHANGED supVars
  <2>1. /\ \A w \in Workers : /\ (Queued(w)' <=> Queued(w)) /\ (Well(w)' <=> Well(w))
                              /\ (Fresh(w)' <=> Fresh(w)) /\ (Heard(w)' <=> Heard(w))
        /\ LockLost => LockLost'
    BY <1>1 DEF supVars, Queued, Well, Fresh, Heard, LockLost
  <2>2. Quiet' = Quiet
    BY <1>1, <2>1 DEF Quiet, supVars
  <2>3. Waited' = Waited
    BY <1>1, <2>2, Zenon DEF Waited, supVars
  <2>4. Blamed => Blamed'
    BY <1>1 DEF Blamed, supVars, Queued
  <2>5. InTime => InTime'
    BY <1>1, <2>1, <2>3 DEF InTime, supVars, Going
  <2> QED
    BY <2>1, <2>4, <2>5 DEF TimeInv
<1>2. CASE SupNext /\ LockLost
  BY <1>2, NothingHeals DEF TimeInv
<1>3. CASE SupNext /\ ~LockLost
  <2>1. InTime /\ Blamed
    BY <1>3 DEF TimeInv
  <2>2. Blamed'
    BY <1>3, <2>1, BlamedKept
  <2>3. CASE RunMany \/ Interrupt
    <3>1. RowInv'
      BY RowInvKept
    <3> QED
      BY <1>3, <2>1, <2>2, <2>3, <3>1, RunManyKeepsTime DEF TimeInv
  <2>4. CASE ~(RunMany \/ Interrupt)
    <3>1. InTime'
      BY <1>3, <2>1, <2>4, WorkersKeepTime DEF SupNext, Working
    <3> QED
      BY <2>2, <3>1 DEF TimeInv
  <2> QED
    BY <2>3, <2>4
<1> QED
  BY <1>1, <1>2, <1>3

\* Three devices are few enough, where the heartbeat timeout is two waits for a terminated
\* process (workers.py:49, 91: ten seconds and five); two always are.
LEMMA ThreeAreFew ==
  ASSUME \/ Cardinality(Workers) <= 2
         \/ Cardinality(Workers) <= 3 /\ 2 * JoinWait <= Timeout
  PROVE  FewEnough
<1> DEFINE n == Cardinality(Workers) - 1
<1>1. Cardinality(Workers) \in Nat /\ JoinWait \in Nat /\ Timeout \in Nat /\ JoinWait < Timeout
  BY QuietFinite, SupervisorAssumption
<1>2. n = -1 \/ n = 0 \/ n = 1 \/ (n = 2 /\ 2 * JoinWait <= Timeout)
  BY <1>1
<1> HIDE DEF n
<1>3. JoinWait * n <= Timeout
  BY <1>1, <1>2
<1> QED
  BY <1>3 DEF n, FewEnough

\* For any number of devices whose joins, all but one, are within the heartbeat timeout (three,
\* with the ten and the five seconds of workers.py): a run that ended and said so is not called
\* failed, unless its process met a fault or the queue's lock was lost (workers.py:81-92).
THEOREM FewKeepTheirVerdicts ==
  ASSUME FewEnough
  PROVE  SupSpec => []VerdictStands
<1>1. TimeInv => VerdictStands
  BY DEF TimeInv, Blamed, VerdictStands
<1>2. RowInv /\ TimeInv /\ [SupNext]_supVars => RowInv' /\ TimeInv'
  BY RowInvKept, TimeInvKept
<1> QED
  BY <1>1, <1>2, RowInvInit, TimeInvInit, PTL DEF SupSpec

\* For as many devices, run_many terminates no process that still beats, even when it has just
\* waited for others and reads one beat a pass, unless the queue's lock was lost
\* (workers.py:74-90).
THEOREM FewAreSpared ==
  ASSUME FewEnough
  PROVE  SupSpec => SparesTheBeating
<1>1. ASSUME RowInv, TimeInv, [SupNext]_supVars,
             NEW w \in Workers, joining' = w, joining # w, Well(w), proc[w] = "alive"
      PROVE  LockLost
  <2>1. SupNext
    BY <1>1 DEF supVars
  <2>2. CheckLate(w)
    <3>1. ASSUME NEW u \in Workers, CheckLate(u) PROVE u = w
      BY <1>1, <3>1 DEF CheckLate
    <3>2. Nobody # w
      BY SupervisorAssumption
    <3> QED
      BY <1>1, <2>1, <3>1, <3>2, SupSteps
         DEF GetBeat, GetNothing, JoinTick, Joined, EndPass, Interrupt, Spawn, CheckEnded, BeginPass,
             TakeLock, Beat, Lookup, Claim, Exit, GoOn, Delete, Finish, Fail, passVars
  <2> QED
    BY <1>1, <2>2, LateKeepsTime DEF TimeInv
<1>2. RowInv /\ TimeInv /\ [SupNext]_supVars => RowInv' /\ TimeInv'
  BY RowInvKept, TimeInvKept
<1>3. RowInv /\ TimeInv /\ [SupNext]_supVars =>
        [\A w \in Workers : joining' = w /\ joining # w /\ Well(w) /\ proc[w] = "alive" => LockLost]_supVars
  BY <1>1
<1> QED
  BY <1>2, <1>3, RowInvInit, TimeInvInit, PTL DEF SupSpec, SparesTheBeating
====
