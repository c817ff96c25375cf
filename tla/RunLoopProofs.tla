----------------------------- MODULE RunLoopProofs -----------------------------
(***************************************************************************)
(* Proofs about RunLoop, for any collectors, scripts and time limits.      *)
(***************************************************************************)
EXTENDS RunLoop, FiniteSetTheorems, TLAPS

(* The inductive invariant, part by part. *)

\* The pool holds each job whose future is queued, once.
PoolOK ==
  /\ \A j \in Jobs : fut[j] = "queued" <=> \E i \in 1..Len(pool) : pool[i] = j
  /\ \A i, k \in 1..Len(pool) : pool[i] = pool[k] => i = k

Drained == {"sweep", "home", "close", "done", "leave"}

\* The run is on its way out after a failure, perhaps in the middle of recording.
Broken == pc \in {"leave", "done"} /\ ~Finished

\* What has been recorded of each call.
Calls ==
  /\ \A j \in Jobs : fut[j] = "none" => verdict[j] = {} /\ j \notin active
  /\ \A j \in Jobs : fut[j] = "cancelled" => pc \in {"wait"} \cup Drained
  /\ \A j \in timedOut : verdict[j] = {"timeout"} \/ (Broken /\ verdict[j] = {})
  /\ \A j \in active \ timedOut :
       verdict[j] = {} \/ (pc \in Drained /\ fut[j] \in Over /\ verdict[j] \in {{"ok"}, {"raised"}})
  /\ \A j \in Jobs \ active : fut[j] # "none" =>
       /\ fut[j] \in Over
       /\ verdict[j] \in {{"ok"}, {"raised"}, {"timeout"}} \/ (Broken /\ verdict[j] = {})
  /\ pc \in {"sweep", "home", "close"} \/ Finished =>
       \A j \in Jobs : fut[j] \notin {"none", "cancelled"} => verdict[j] # {}
  /\ \A s \in Steps : next <= s => fut[s] = "none"

\* How far the end of the run has come.
Ends ==
  /\ pc = "wait" => pool = <<>>
  /\ pc \in {"sweep", "home", "close"} \/ Finished =>
       pool = <<>> /\ \A j \in Jobs : fut[j] # "running"
  /\ row # "running" => pc \in {"leave", "done"}
  /\ Finished => pc = "done"
  /\ pc \in {"home", "close"} =>
       /\ status \in {"completed", "interrupted"}
       /\ status = "interrupted" => stop
       /\ "stopped" \in quiet \/ "stop" \in refused
  /\ pc = "close" /\ status = "interrupted" => "home" \in quiet \/ "home" \in refused
  /\ Finished =>
       /\ "stopped" \in quiet \/ "stop" \in refused
       /\ row = "interrupted" => "home" \in quiet \/ "home" \in refused

LoopInv == TypeOK /\ PoolOK /\ Calls /\ Ends

-------------------------------------------------------------------------------
(* What the pool and the calls make of single steps. *)

\* A call that is not active is not in the pool.
LEMMA OutsideIsFresh ==
  ASSUME LoopInv, NEW j \in Jobs, j \notin active
  PROVE  fut[j] \in {"none"} \cup Over
  BY DEF LoopInv, Calls

\* The next step has not been handed to the pool.
LEMMA NextIsFresh ==
  ASSUME LoopInv, NEW s \in Steps, Fire(s)
  PROVE  s \in Jobs /\ fut[s] = "none" /\ s \notin active
<1>1. s \in Jobs /\ s \in Nat /\ s = next
  BY LoopAssumption DEF Fire, Jobs, Steps
<1>2. next <= s
  BY <1>1
<1>3. fut[s] = "none"
  BY <1>2 DEF LoopInv, Calls
<1> QED
  BY <1>1, <1>3 DEF LoopInv, Calls

\* A job that waits or runs is active, has no result on record, and is there only
\* while the run goes on.
LEMMA InFlight ==
  ASSUME LoopInv, NEW j \in Jobs, fut[j] \in {"queued", "running"}
  PROVE  /\ j \in active /\ (j \notin timedOut => verdict[j] = {})
         /\ pc \notin {"sweep", "home", "close"} /\ ~Finished
<1>1. j \in active
  BY OutsideIsFresh DEF Over
<1>2. j \notin timedOut => verdict[j] = {}
  BY <1>1 DEF LoopInv, Calls, Over
<1>3. fut[j] = "queued" => pool # <<>>
  BY DEF LoopInv, TypeOK, PoolOK
<1> QED
  BY <1>1, <1>2, <1>3 DEF LoopInv, Ends

\* What is handed to the pool waits there once.
LEMMA EnterKeepsPool ==
  ASSUME TypeOK, PoolOK, NEW j \in Jobs, fut[j] # "queued", Enter(j)
  PROVE  PoolOK' /\ pool' \in Seq(Jobs)
<1>1. /\ pool \in Seq(Jobs) /\ pool' = Append(pool, j)
      /\ fut' = [fut EXCEPT ![j] = "queued"] /\ DOMAIN fut = Jobs
  BY DEF TypeOK, Enter
<1>2. /\ Len(pool') = Len(pool) + 1 /\ pool'[Len(pool) + 1] = j
      /\ \A i \in 1..Len(pool) : pool'[i] = pool[i]
  BY <1>1
<1>3. \A i \in 1..Len(pool) : pool[i] # j
  BY DEF PoolOK
<1>4. \A k \in Jobs : fut'[k] = "queued" <=> \E i \in 1..Len(pool') : pool'[i] = k
  <2>1. Len(pool) \in Nat
    BY <1>1
  <2>2. 1..Len(pool') = 1..Len(pool) \cup {Len(pool) + 1}
    BY <1>2, <2>1
  <2> QED
    BY <1>1, <1>2, <2>2 DEF PoolOK
<1>5. \A i, k \in 1..Len(pool') : pool'[i] = pool'[k] => i = k
  BY <1>1, <1>2, <1>3 DEF PoolOK
<1> QED
  BY <1>1, <1>4, <1>5 DEF PoolOK

\* The thread that starts the first job takes that job from the pool.
LEMMA StartKeepsPool ==
  ASSUME TypeOK, PoolOK, Start
  PROVE  /\ PoolOK' /\ pool' \in Seq(Jobs)
         /\ Head(pool) \in Jobs /\ fut[Head(pool)] = "queued"
<1> DEFINE h == Head(pool)
<1>1. /\ pool \in Seq(Jobs) /\ pool # <<>> /\ pool' = Tail(pool)
      /\ fut' = [fut EXCEPT ![h] = "running"] /\ DOMAIN fut = Jobs
  BY DEF TypeOK, Start
<1>2. /\ Len(pool) \in Nat /\ Len(pool) > 0 /\ h = pool[1] /\ h \in Jobs
      /\ Len(pool') = Len(pool) - 1 /\ pool' \in Seq(Jobs)
      /\ \A i \in 1..Len(pool') : pool'[i] = pool[i + 1]
  BY <1>1
<1>3. fut[h] = "queued"
  BY <1>2 DEF PoolOK
<1>4. \A i, k \in 1..Len(pool') : pool'[i] = pool'[k] => i = k
  BY <1>2 DEF PoolOK
<1>5. ASSUME NEW k \in Jobs PROVE fut'[k] = "queued" <=> \E i \in 1..Len(pool') : pool'[i] = k
  <2>1. CASE k = h
    <3>1. \A i \in 1..Len(pool') : pool'[i] # h
      BY <1>2 DEF PoolOK
    <3> QED
      BY <1>1, <1>2, <2>1, <3>1
  <2>2. CASE k # h
    <3>1. fut'[k] = fut[k]
      BY <1>1, <2>2
    <3>2. ASSUME NEW i \in 1..Len(pool), pool[i] = k PROVE i - 1 \in 1..Len(pool') /\ pool'[i - 1] = k
      BY <1>2, <2>2, <3>2
    <3>3. ASSUME NEW i \in 1..Len(pool'), pool'[i] = k PROVE i + 1 \in 1..Len(pool) /\ pool[i + 1] = k
      BY <1>2, <3>3
    <3> QED
      BY <3>1, <3>2, <3>3 DEF PoolOK
  <2> QED
    BY <2>1, <2>2
<1> QED
  BY <1>2, <1>3, <1>4, <1>5 DEF PoolOK

\* After the wait a call that was made is over or was dropped.
LEMMA NothingInFlight ==
  ASSUME LoopInv, pc = "wait", Running = {}
  PROVE  \A j \in Jobs : fut[j] \in {"none", "cancelled"} \cup Over
<1>1. pool = <<>> /\ \A j \in Jobs : fut[j] # "running"
  BY DEF LoopInv, Ends, Running
<1>2. \A j \in Jobs : fut[j] # "queued"
  BY <1>1 DEF LoopInv, PoolOK
<1> QED
  BY <1>1, <1>2 DEF LoopInv, TypeOK

\* A call that enters the pool has its record cleared, and the others keep theirs.
LEMMA EnterKeepsCalls ==
  ASSUME LoopInv, NEW j \in Jobs, j \notin active, Enter(j),
         pc \in {"submit", "fire"}, pc' = pc, row = "running", row' = row,
         \A s \in Steps : next' <= s => s # j /\ next <= s
  PROVE  Calls'
<1> USE DEF Calls, Over, Drained, Finished, Broken
<1>1. /\ active' = active \cup {j} /\ timedOut' = timedOut /\ j \notin timedOut
      /\ fut'[j] = "queued" /\ verdict'[j] = {}
      /\ \A k \in Jobs : k # j => fut'[k] = fut[k] /\ verdict'[k] = verdict[k]
  BY DEF Enter, LoopInv, TypeOK
<1>2. active \subseteq Jobs /\ timedOut \subseteq active
  BY DEF LoopInv, TypeOK
<1>3. Calls
  BY DEF LoopInv
<1>4. /\ \A k \in Jobs : fut'[k] = "none" => verdict'[k] = {} /\ k \notin active'
      /\ \A k \in Jobs : fut'[k] # "cancelled"
  BY <1>1, <1>3
<1>5. \A k \in timedOut' : verdict'[k] = {"timeout"}
  BY <1>1, <1>2, <1>3
<1>6. \A k \in active' \ timedOut' : verdict'[k] = {}
  BY <1>1, <1>2, <1>3
<1>7. \A k \in Jobs \ active' : fut'[k] # "none" =>
        fut'[k] \in Over /\ verdict'[k] \in {{"ok"}, {"raised"}, {"timeout"}}
  BY <1>1, <1>3
<1>8. \A s \in Steps : next' <= s => fut'[s] = "none"
  BY <1>1, <1>3 DEF Jobs
<1> QED
  BY <1>4, <1>5, <1>6, <1>7, <1>8

-------------------------------------------------------------------------------
(* Each part is kept by every step. *)

\* Every step keeps the shapes.
LEMMA TypeOKKept == LoopInv /\ [Next]_vars => TypeOK'
<1> SUFFICES ASSUME LoopInv, [Next]_vars PROVE TypeOK'
  OBVIOUS
<1> USE LoopAssumption DEF LoopInv, TypeOK, Places, Over, Ended, Jobs, Steps
<1>1. ASSUME Round PROVE TypeOK'
  BY <1>1 DEF Round, loopVars, callVars, poolVars, deviceVars, endVars
<1>2. ASSUME HeedCancel PROVE TypeOK'
  BY <1>2 DEF HeedCancel, callVars, poolVars, deviceVars, endVars
<1>3. ASSUME ReapCollectors PROVE TypeOK'
  BY <1>3 DEF ReapCollectors, TakeInBut, IsOver, IsLate, loopVars, poolVars, deviceVars, endVars, Record
<1>4. ASSUME NEW c \in Collectors, Submit(c) PROVE TypeOK'
  <2>1. c \in Jobs /\ pool' \in Seq(Jobs)
    BY <1>4, OutsideIsFresh, EnterKeepsPool DEF Submit, Due
  <2>2. due' \in [Collectors -> Nat]
    BY <1>4 DEF Submit
  <2> QED
    BY <1>4, <2>1, <2>2 DEF Submit, Enter, deviceVars, endVars
<1>5. ASSUME ReapSteps PROVE TypeOK'
  BY <1>5 DEF ReapSteps, TakeInBut, IsOver, IsLate, loopVars, poolVars, deviceVars, endVars, Record
<1>6. ASSUME NEW s \in Steps, Fire(s) PROVE TypeOK'
  BY <1>6 DEF Fire, Enter, deviceVars, endVars
<1>7. ASSUME Sleep PROVE TypeOK'
  BY <1>7 DEF Sleep, loopVars, callVars, poolVars, deviceVars, endVars
<1>8. ASSUME QuietFirst PROVE TypeOK'
  BY <1>8 DEF QuietFirst, StopApp, loopVars, callVars, poolVars, deviceVars, endVars
<1>9. ASSUME Shutdown PROVE TypeOK'
  BY <1>9 DEF Shutdown, CancelFutures, loopVars, callVars, deviceVars, endVars
<1>10. ASSUME Drain PROVE TypeOK'
  <2>1. \A j \in active : fut[j] # "cancelled" => fut[j] \in Over
    BY <1>10, NothingInFlight DEF Drain, Calls
  <2> QED
    BY <1>10, <2>1 DEF Drain, Record, loopVars, poolVars, deviceVars, endVars
<1>11. ASSUME Sweep PROVE TypeOK'
  BY <1>11 DEF Sweep, StopApp, loopVars, callVars, poolVars
<1>12. ASSUME PressHome PROVE TypeOK'
  BY <1>12 DEF PressHome, loopVars, callVars, poolVars, deviceVars, endVars
<1>13. ASSUME Finish PROVE TypeOK'
  BY <1>13 DEF Finish, loopVars, callVars, poolVars, deviceVars
<1>14. ASSUME Fail PROVE TypeOK'
  BY <1>14 DEF Fail, GiveUp, loopVars, callVars, poolVars, deviceVars
<1>15. ASSUME NEW js \in {Collectors, Steps}, FailTakingIn(js) PROVE TypeOK'
  <2>1. PICK part \in SUBSET js, caught \in SUBSET Collectors : \E j \in part \ timedOut :
          (IsOver(j) \/ IsLate(j)) /\ TakeInBut(part, {j}, caught)
    BY <1>15 DEF FailTakingIn
  <2>2. PICK j \in part \ timedOut : (IsOver(j) \/ IsLate(j)) /\ TakeInBut(part, {j}, caught)
    BY <2>1
  <2>3. part \subseteq Jobs
    BY DEF Jobs, Steps
  <2> QED
    BY <1>15, <2>2, <2>3 DEF FailTakingIn, GiveUp, TakeInBut, IsOver, IsLate, Record,
       loopVars, poolVars, deviceVars
<1>16. ASSUME FailDraining PROVE TypeOK'
  <2>1. PICK part \in SUBSET {j \in active \ timedOut : fut[j] # "cancelled"},
             caught \in SUBSET Collectors :
          verdict' = Record(part, caught)
    BY <1>16 DEF FailDraining
  <2>2. \A j \in part : j \in Jobs /\ fut[j] \in Over
    BY <1>16, NothingInFlight DEF FailDraining, Calls
  <2> QED
    BY <1>16, <2>1, <2>2 DEF FailDraining, GiveUp, Record, loopVars, poolVars, deviceVars
<1>17. ASSUME CancelAtLast PROVE TypeOK'
  BY <1>17 DEF CancelAtLast, CancelFutures, loopVars, callVars, deviceVars, endVars
<1>18. ASSUME Leave PROVE TypeOK'
  BY <1>18 DEF Leave, loopVars, callVars, poolVars, deviceVars, endVars
<1>19. ASSUME Start PROVE TypeOK'
  BY <1>19, StartKeepsPool DEF Start, loopVars, callVars, deviceVars, endVars
<1>20. ASSUME NEW j \in Jobs, Return(j) PROVE TypeOK'
  BY <1>20 DEF Return, Touch, loopVars, callVars, endVars
<1>21. ASSUME Tick PROVE TypeOK'
  BY <1>21 DEF Tick, loopVars, callVars, poolVars, deviceVars, endVars
<1>22. ASSUME RequestCancel PROVE TypeOK'
  BY <1>22 DEF RequestCancel, loopVars, callVars, poolVars, deviceVars, endVars
<1>23. ASSUME Interrupt PROVE TypeOK'
  BY <1>23 DEF Interrupt, loopVars, callVars, poolVars, deviceVars, endVars
<1>24. ASSUME UNCHANGED vars PROVE TypeOK'
  BY <1>24 DEF vars, loopVars, callVars, poolVars, deviceVars, endVars
<1> QED
  BY <1>1, <1>2, <1>3, <1>4, <1>5, <1>6, <1>7, <1>8, <1>9, <1>10, <1>11,
     <1>12, <1>13, <1>14, <1>15, <1>16, <1>17, <1>18, <1>19, <1>20, <1>21, <1>22, <1>23, <1>24 DEF Next, Quiescent

\* Only a call that is not in the pool enters it.
LEMMA PoolOKKept == LoopInv /\ [Next]_vars => PoolOK'
<1> SUFFICES ASSUME LoopInv, [Next]_vars PROVE PoolOK'
  OBVIOUS
<1> USE LoopAssumption DEF LoopInv, TypeOK, PoolOK, Over, Jobs, Steps
<1>1. ASSUME Round PROVE PoolOK'
  BY <1>1 DEF Round, loopVars, callVars, poolVars, deviceVars, endVars
<1>2. ASSUME HeedCancel PROVE PoolOK'
  BY <1>2 DEF HeedCancel, callVars, poolVars, deviceVars, endVars
<1>3. ASSUME ReapCollectors PROVE PoolOK'
  BY <1>3 DEF ReapCollectors, TakeInBut, IsOver, IsLate, loopVars, poolVars, deviceVars, endVars, Record
<1>4. ASSUME NEW c \in Collectors, Submit(c) PROVE PoolOK'
  <2>1. fut[c] # "queued"
    BY <1>4, OutsideIsFresh DEF Submit, Due
  <2> QED
    BY <1>4, <2>1, EnterKeepsPool DEF Submit
<1>5. ASSUME ReapSteps PROVE PoolOK'
  BY <1>5 DEF ReapSteps, TakeInBut, IsOver, IsLate, loopVars, poolVars, deviceVars, endVars, Record
<1>6. ASSUME NEW s \in Steps, Fire(s) PROVE PoolOK'
  BY <1>6, NextIsFresh, EnterKeepsPool DEF Fire
<1>7. ASSUME Sleep PROVE PoolOK'
  BY <1>7 DEF Sleep, loopVars, callVars, poolVars, deviceVars, endVars
<1>8. ASSUME QuietFirst PROVE PoolOK'
  BY <1>8 DEF QuietFirst, StopApp, loopVars, callVars, poolVars, deviceVars, endVars
<1>9. ASSUME Shutdown PROVE PoolOK'
  BY <1>9 DEF Shutdown, CancelFutures, loopVars, callVars, deviceVars, endVars
<1>10. ASSUME Drain PROVE PoolOK'
  BY <1>10 DEF Drain, loopVars, poolVars, deviceVars, endVars, Record
<1>11. ASSUME Sweep PROVE PoolOK'
  BY <1>11 DEF Sweep, StopApp, loopVars, callVars, poolVars
<1>12. ASSUME PressHome PROVE PoolOK'
  BY <1>12 DEF PressHome, loopVars, callVars, poolVars, deviceVars, endVars
<1>13. ASSUME Finish PROVE PoolOK'
  BY <1>13 DEF Finish, loopVars, callVars, poolVars, deviceVars
<1>14. ASSUME Fail PROVE PoolOK'
  BY <1>14 DEF Fail, GiveUp, loopVars, callVars, poolVars, deviceVars
<1>15. ASSUME NEW js \in {Collectors, Steps}, FailTakingIn(js) PROVE PoolOK'
  BY <1>15 DEF FailTakingIn, GiveUp, TakeInBut, IsOver, IsLate, loopVars, poolVars, deviceVars, Record
<1>16. ASSUME FailDraining PROVE PoolOK'
  BY <1>16 DEF FailDraining, GiveUp, loopVars, poolVars, deviceVars, Record
<1>17. ASSUME CancelAtLast PROVE PoolOK'
  BY <1>17 DEF CancelAtLast, CancelFutures, loopVars, callVars, deviceVars, endVars
<1>18. ASSUME Leave PROVE PoolOK'
  BY <1>18 DEF Leave, loopVars, callVars, poolVars, deviceVars, endVars
<1>19. ASSUME Start PROVE PoolOK'
  BY <1>19, StartKeepsPool
<1>20. ASSUME NEW j \in Jobs, Return(j) PROVE PoolOK'
  <2>1. \A k \in Jobs : fut'[k] = "queued" <=> fut[k] = "queued"
    BY <1>20 DEF Return
  <2> QED
    BY <1>20, <2>1 DEF Return
<1>21. ASSUME Tick PROVE PoolOK'
  BY <1>21 DEF Tick, loopVars, callVars, poolVars, deviceVars, endVars
<1>22. ASSUME RequestCancel PROVE PoolOK'
  BY <1>22 DEF RequestCancel, loopVars, callVars, poolVars, deviceVars, endVars
<1>23. ASSUME Interrupt PROVE PoolOK'
  BY <1>23 DEF Interrupt, loopVars, callVars, poolVars, deviceVars, endVars
<1>24. ASSUME UNCHANGED vars PROVE PoolOK'
  BY <1>24 DEF vars, loopVars, callVars, poolVars, deviceVars, endVars
<1> QED
  BY <1>1, <1>2, <1>3, <1>4, <1>5, <1>6, <1>7, <1>8, <1>9, <1>10, <1>11,
     <1>12, <1>13, <1>14, <1>15, <1>16, <1>17, <1>18, <1>19, <1>20, <1>21, <1>22, <1>23, <1>24 DEF Next, Quiescent

\* Every step records a call once.
LEMMA CallsKept == LoopInv /\ [Next]_vars => Calls'
<1> SUFFICES ASSUME LoopInv, [Next]_vars PROVE Calls'
  OBVIOUS
<1> USE LoopAssumption DEF LoopInv, TypeOK, Calls, Over, Drained, Finished, Broken
<1>1. ASSUME Round PROVE Calls'
  BY <1>1 DEF Round, loopVars, callVars, poolVars, deviceVars, endVars
<1>2. ASSUME HeedCancel PROVE Calls'
  BY <1>2 DEF HeedCancel, callVars, poolVars, deviceVars, endVars
<1>3. ASSUME ReapCollectors PROVE Calls'
  <2>1. PICK caught \in SUBSET Collectors : TakeInBut(Collectors, {}, caught)
    BY <1>3 DEF ReapCollectors
  <2>2. pc = "reap" /\ pc' = "submit" /\ UNCHANGED <<fut, next, row>>
    BY <1>3 DEF ReapCollectors, loopVars, poolVars, endVars
  <2>3. /\ active' = active \ {j \in Collectors : IsOver(j)}
        /\ timedOut' = (timedOut \ {j \in Collectors : IsOver(j)})
                         \cup {j \in Collectors : IsLate(j)}
    BY <2>1 DEF TakeInBut
  <2>4. ASSUME NEW j \in Jobs
        PROVE  verdict'[j] =
                 IF j \in Collectors /\ IsLate(j) THEN verdict[j] \cup {"timeout"}
                 ELSE IF j \in Collectors /\ IsOver(j) /\ j \notin timedOut
                 THEN verdict[j] \cup {IF j \in caught THEN "raised" ELSE fut[j]}
                 ELSE verdict[j]
    BY <2>1 DEF TakeInBut, Record
  <2>5. \A j \in Jobs : IsLate(j) => j \in active \ timedOut /\ ~IsOver(j)
    BY DEF IsLate
  <2>6. \A j \in Jobs : IsOver(j) => j \in active /\ fut[j] \in Over
    BY DEF IsOver
  <2>7. \A j \in active \ timedOut : verdict[j] = {}
    BY <2>2
  <2>8. ASSUME NEW j \in Jobs
        PROVE  \/ verdict'[j] = verdict[j] /\ (j \in active' <=> j \in active)
                  /\ (j \in timedOut' <=> j \in timedOut)
               \/ j \in active \ timedOut /\ j \in timedOut' /\ j \in active' /\ verdict'[j] = {"timeout"}
               \/ j \in active /\ j \notin active' /\ j \notin timedOut' /\ fut[j] \in Over
                  /\ (j \in timedOut => verdict'[j] = verdict[j])
                  /\ (j \notin timedOut => verdict'[j] \in {{"ok"}, {"raised"}})
    <3>1. CASE j \in Collectors /\ IsLate(j)
      BY <2>3, <2>4, <2>5, <2>7, <3>1
    <3>2. CASE j \in Collectors /\ IsOver(j)
      <4>1. ~IsLate(j) /\ j \in active /\ fut[j] \in {"ok", "raised"}
        BY <2>5, <2>6, <3>2
      <4>2. j \notin timedOut => verdict'[j] = {IF j \in caught THEN "raised" ELSE fut[j]}
        BY <2>4, <2>7, <3>2, <4>1
      <4>3. j \in timedOut => verdict'[j] = verdict[j]
        BY <2>4, <4>1
      <4> QED
        BY <2>3, <3>2, <4>1, <4>2, <4>3
    <3>3. CASE ~(j \in Collectors /\ (IsLate(j) \/ IsOver(j)))
      BY <2>3, <2>4, <3>3
    <3> QED
      BY <3>1, <3>2, <3>3
  <2>9. pc \notin Drained /\ pc' \notin Drained /\ ~Broken /\ ~Broken' /\ ~Finished /\ ~Finished'
    BY <1>3, <2>2 DEF Ends, ReapCollectors
  <2>10. active' \subseteq Jobs /\ timedOut' \subseteq active' /\ active' \subseteq active
    BY <2>3, <2>5 DEF Jobs
  <2>11. \A j \in Jobs : fut'[j] = "none" => verdict'[j] = {} /\ j \notin active'
    BY <2>2, <2>8, <2>10
  <2>12. \A j \in timedOut' : verdict'[j] = {"timeout"}
    BY <2>8, <2>9, <2>10
  <2>13. \A j \in active' \ timedOut' : verdict'[j] = {}
    BY <2>7, <2>8, <2>10
  <2>14. \A j \in Jobs \ active' : fut'[j] # "none" =>
           fut'[j] \in Over /\ verdict'[j] \in {{"ok"}, {"raised"}, {"timeout"}}
    <3> SUFFICES ASSUME NEW j \in Jobs \ active', fut[j] # "none"
                 PROVE  fut[j] \in Over /\ verdict'[j] \in {{"ok"}, {"raised"}, {"timeout"}}
      BY <2>2
    <3>1. CASE j \notin active
      <4>1. verdict'[j] = verdict[j]
        BY <2>8, <3>1
      <4>2. fut[j] \in Over /\ verdict[j] \in {{"ok"}, {"raised"}, {"timeout"}}
        BY <2>9, <3>1
      <4> QED
        BY <4>1, <4>2
    <3>2. CASE j \in active
      BY <2>8, <2>9, <3>2
    <3> QED
      BY <3>1, <3>2
  <2>15. \A s \in Steps : next' <= s => fut'[s] = "none"
    BY <2>2
  <2>16. \A j \in Jobs : fut'[j] = "cancelled" => FALSE
    BY <2>2
  <2> QED
    BY <2>2, <2>9, <2>11, <2>12, <2>13, <2>14, <2>15, <2>16
<1>4. ASSUME NEW c \in Collectors, Submit(c) PROVE Calls'
  <2>1. c \in Jobs /\ c \notin active /\ Enter(c)
    BY <1>4 DEF Submit, Due, Jobs
  <2>2. pc = "submit" /\ pc' = pc /\ row = "running" /\ row' = row /\ next' = next
    BY <1>4 DEF Submit, Ends, endVars
  <2>3. \A s \in Steps : s # c
    BY LoopAssumption
  <2> QED
    BY <2>1, <2>2, <2>3, EnterKeepsCalls
<1>5. ASSUME ReapSteps PROVE Calls'
  BY <1>5 DEF ReapSteps, TakeInBut, IsOver, IsLate, loopVars, poolVars, deviceVars, endVars, Record
<1>6. ASSUME NEW s \in Steps, Fire(s) PROVE Calls'
  <2>1. s \in Jobs /\ s \notin active /\ Enter(s)
    BY <1>6, NextIsFresh DEF Fire
  <2>2. pc = "fire" /\ pc' = pc /\ row = "running" /\ row' = row
    BY <1>6 DEF Fire, Ends, endVars
  <2>3. \A t \in Steps : next' <= t => t # s /\ next <= t
    BY <1>6 DEF Fire, Steps
  <2> QED
    BY <2>1, <2>2, <2>3, EnterKeepsCalls
<1>7. ASSUME Sleep PROVE Calls'
  BY <1>7 DEF Sleep, loopVars, callVars, poolVars, deviceVars, endVars
<1>8. ASSUME QuietFirst PROVE Calls'
  BY <1>8 DEF QuietFirst, StopApp, loopVars, callVars, poolVars, deviceVars, endVars
<1>9. ASSUME Shutdown PROVE Calls'
  <2>1. pc = "shutdown" /\ row = "running" /\ pc' = "wait"
    BY <1>9 DEF Shutdown, Ends
  <2>2. UNCHANGED <<active, timedOut, verdict, next, row>>
    BY <1>9 DEF Shutdown, callVars, loopVars, endVars
  <2>3. \A j \in Jobs : /\ fut[j] = "queued" => fut'[j] = "cancelled" /\ j \in active
                        /\ fut[j] # "queued" => fut'[j] = fut[j]
    BY <1>9, InFlight DEF Shutdown, CancelFutures
  <2>4. \A s \in Steps : s \in Jobs
    BY DEF Jobs
  <2> QED
    BY <2>1, <2>2, <2>3, <2>4
<1>10. ASSUME Drain PROVE Calls'
  <2>1. \A j \in Jobs : fut[j] \in {"none", "cancelled"} \cup Over
    BY <1>10, NothingInFlight DEF Drain
  <2>2. pc = "wait" /\ pc' = "sweep" /\ UNCHANGED <<active, timedOut, fut, row, next>>
    BY <1>10 DEF Drain, endVars, poolVars, loopVars
  <2>3. \A j \in active \ timedOut : verdict[j] = {}
    BY <2>2
  <2>4. /\ \A j \in active \ timedOut : fut[j] \in Over => verdict'[j] \in {{"ok"}, {"raised"}}
        /\ \A j \in active \ timedOut : fut[j] = "cancelled" => verdict'[j] = {}
        /\ \A j \in Jobs : j \notin active \ timedOut => verdict'[j] = verdict[j]
    <3>1. PICK caught \in SUBSET Collectors :
            verdict' = Record({j \in active \ timedOut : fut[j] # "cancelled"}, caught)
      BY <1>10 DEF Drain
    <3>2. \A j \in Jobs :
            verdict'[j] = IF j \in active \ timedOut /\ fut[j] # "cancelled"
                          THEN verdict[j] \cup {IF j \in caught THEN "raised" ELSE fut[j]}
                          ELSE verdict[j]
      BY <3>1 DEF Record
    <3>3. ASSUME NEW j \in active \ timedOut, fut[j] \in Over
          PROVE  verdict'[j] \in {{"ok"}, {"raised"}}
      <4>1. verdict'[j] = {IF j \in caught THEN "raised" ELSE fut[j]}
        BY <2>3, <3>2, <3>3
      <4> QED
        BY <3>3, <4>1
    <3> QED
      BY <2>3, <3>2, <3>3
  <2>5. \A j \in active : fut[j] # "none"
    BY <2>1
  <2>6. ASSUME NEW j \in Jobs, fut[j] \notin {"none", "cancelled"} PROVE verdict'[j] # {}
    <3>1. CASE j \in active \ timedOut
      <4>1. verdict'[j] \in {{"ok"}, {"raised"}}
        BY <2>1, <2>4, <2>6, <3>1
      <4> QED
        BY <4>1
    <3>2. CASE j \in timedOut
      <4>1. verdict[j] = {"timeout"} /\ verdict'[j] = verdict[j]
        BY <2>2, <2>4, <3>2
      <4> QED
        BY <4>1
    <3>3. CASE j \notin active
      <4>1. verdict[j] \in {{"ok"}, {"raised"}, {"timeout"}} /\ verdict'[j] = verdict[j]
        BY <2>2, <2>4, <2>6, <3>3
      <4> QED
        BY <4>1
    <3> QED
      BY <3>1, <3>2, <3>3
  <2> QED
    BY <2>1, <2>2, <2>3, <2>4, <2>5, <2>6
<1>11. ASSUME Sweep PROVE Calls'
  BY <1>11 DEF Sweep, StopApp, loopVars, callVars, poolVars
<1>12. ASSUME PressHome PROVE Calls'
  BY <1>12 DEF PressHome, loopVars, callVars, poolVars, deviceVars, endVars
<1>13. ASSUME Finish PROVE Calls'
  BY <1>13 DEF Finish, loopVars, callVars, poolVars, deviceVars
<1>14. ASSUME Fail PROVE Calls'
  BY <1>14 DEF Fail, GiveUp, loopVars, callVars, poolVars, deviceVars
<1>15. ASSUME NEW js \in {Collectors, Steps}, FailTakingIn(js) PROVE Calls'
  <2>1. PICK part \in SUBSET js, caught \in SUBSET Collectors : \E j \in part \ timedOut :
          (IsOver(j) \/ IsLate(j)) /\ TakeInBut(part, {j}, caught)
    BY <1>15 DEF FailTakingIn
  <2>2. PICK j \in part \ timedOut : (IsOver(j) \/ IsLate(j)) /\ TakeInBut(part, {j}, caught)
    BY <2>1
  <2>3. part \subseteq Jobs
    BY DEF Jobs, Steps
  <2>4. row = "running" /\ pc' = "leave" /\ Broken' /\ ~Broken
    BY <1>15 DEF FailTakingIn, GiveUp, Ends
  <2>5. UNCHANGED <<fut, next>>
    BY <1>15 DEF FailTakingIn, GiveUp, poolVars, loopVars
  <2>6. /\ active' = active \ {k \in part : IsOver(k)}
        /\ timedOut' = (timedOut \ {k \in part : IsOver(k)}) \cup {k \in part : IsLate(k)}
        /\ \A k \in Jobs \ part : verdict'[k] = verdict[k]
    BY <2>2 DEF TakeInBut, Record, IsOver
  <2>7. \A k \in part :
          /\ IsLate(k) => verdict'[k] = {} \/ verdict'[k] = {"timeout"}
          /\ IsOver(k) => verdict'[k] \in {{}, {fut[k]}, {"raised"}, {"timeout"}}
          /\ ~IsLate(k) /\ ~IsOver(k) => verdict'[k] = verdict[k]
    <3> SUFFICES ASSUME NEW k \in part
                 PROVE  /\ IsLate(k) => verdict'[k] = {} \/ verdict'[k] = {"timeout"}
                        /\ IsOver(k) => verdict'[k] \in {{}, {fut[k]}, {"raised"}, {"timeout"}}
                        /\ ~IsLate(k) /\ ~IsOver(k) => verdict'[k] = verdict[k]
      OBVIOUS
    <3> DEFINE new == IF k \in caught THEN "raised" ELSE fut[k]
    <3>1. /\ k \in Jobs
          /\ k \in active \ timedOut => verdict[k] = {}
          /\ k \in timedOut => verdict[k] = {"timeout"}
      BY <2>3, <2>4, <1>15 DEF FailTakingIn
    <3>2. verdict'[k] = IF IsLate(k) /\ k # j THEN verdict[k] \cup {"timeout"}
                       ELSE IF IsOver(k) /\ k \notin timedOut /\ k # j THEN verdict[k] \cup {new}
                       ELSE verdict[k]
      BY <2>2, <3>1 DEF TakeInBut, Record
    <3>3. IsLate(k) => k \in active \ timedOut /\ ~IsOver(k)
      BY DEF IsLate
    <3>4. IsOver(k) => k \in active
      BY DEF IsOver
    <3>5. new \in {fut[k], "raised"}
      OBVIOUS
    <3> HIDE DEF new
    <3> QED
      BY <3>1, <3>2, <3>3, <3>4, <3>5
  <2>8. active \subseteq Jobs /\ timedOut \subseteq active
    OBVIOUS
  <2>9. \A k \in Jobs : fut'[k] = "none" => verdict'[k] = {} /\ k \notin active'
    BY <2>5, <2>6, <2>7, <2>8 DEF IsOver, IsLate
  <2>10. \A k \in timedOut' : verdict'[k] = {"timeout"} \/ verdict'[k] = {}
    BY <2>3, <2>4, <2>6, <2>7, <2>8
  <2>11. ASSUME NEW k \in active' \ timedOut' PROVE verdict'[k] = {}
    <3>1. k \in active \ timedOut /\ (k \in part => ~IsOver(k) /\ ~IsLate(k))
      BY <2>6
    <3>2. verdict'[k] = verdict[k]
      BY <2>6, <2>7, <2>8, <3>1
    <3>3. pc \in {"reap", "submit"}
      BY <1>15 DEF FailTakingIn
    <3> QED
      BY <3>1, <3>2, <3>3
  <2>12. \A k \in Jobs \ active' : fut'[k] # "none" =>
           /\ fut'[k] \in Over
           /\ verdict'[k] \in {{"ok"}, {"raised"}, {"timeout"}} \/ verdict'[k] = {}
    BY <2>3, <2>4, <2>5, <2>6, <2>7, <2>8 DEF IsOver, IsLate
  <2> QED
    BY <2>4, <2>5, <2>9, <2>10, <2>11, <2>12
<1>16. ASSUME FailDraining PROVE Calls'
  <2>1. PICK part \in SUBSET {j \in active \ timedOut : fut[j] # "cancelled"},
             caught \in SUBSET Collectors :
          verdict' = Record(part, caught)
    BY <1>16 DEF FailDraining
  <2>2. \A j \in part : j \in Jobs /\ fut[j] \in Over
    BY <1>16, NothingInFlight DEF FailDraining, Calls
  <2>3. row = "running" /\ pc = "wait" /\ pc' = "leave" /\ ~Finished /\ ~Finished'
    BY <1>16 DEF FailDraining, GiveUp, Ends
  <2>4. UNCHANGED <<active, timedOut, fut, next>>
    BY <1>16 DEF FailDraining, GiveUp, poolVars, loopVars
  <2>5. ASSUME NEW j \in part
        PROVE  j \in active \ timedOut /\ verdict'[j] \in {{"ok"}, {"raised"}}
    <3>1. verdict[j] = {}
      BY <2>3
    <3>2. verdict'[j] = {IF j \in caught THEN "raised" ELSE fut[j]}
      BY <2>1, <2>2, <3>1 DEF Record
    <3> QED
      BY <2>2, <3>2
  <2>6. \A j \in Jobs : j \notin part => verdict'[j] = verdict[j]
    BY <2>1 DEF Record
  <2> QED
    BY <2>2, <2>3, <2>4, <2>5, <2>6
<1>17. ASSUME CancelAtLast PROVE Calls'
  <2>1. pc = "leave" /\ pc' = pc /\ ~Finished /\ ~Finished'
    BY <1>17 DEF CancelAtLast, Ends, endVars
  <2>2. UNCHANGED <<active, timedOut, verdict, next>>
    BY <1>17 DEF CancelAtLast, callVars, loopVars
  <2>3. \A j \in Jobs : /\ fut[j] = "queued" => /\ fut'[j] = "cancelled" /\ j \in active
                                                /\ (j \notin timedOut => verdict[j] = {})
                        /\ fut[j] # "queued" => fut'[j] = fut[j]
    BY <1>17, InFlight DEF CancelAtLast, CancelFutures
  <2>4. \A s \in Steps : s \in Jobs
    BY DEF Jobs
  <2> QED
    BY <2>1, <2>2, <2>3, <2>4
<1>18. ASSUME Leave PROVE Calls'
  BY <1>18 DEF Leave, loopVars, callVars, poolVars, deviceVars, endVars
<1>19. ASSUME Start PROVE Calls'
  <2> DEFINE h == Head(pool)
  <2>1. h \in Jobs /\ fut[h] = "queued"
    BY <1>19, StartKeepsPool
  <2>2. /\ h \in active /\ (h \notin timedOut => verdict[h] = {})
        /\ pc \notin {"sweep", "home", "close"} /\ ~Finished
    BY <2>1, InFlight
  <2>3. fut'[h] = "running" /\ \A j \in Jobs : j # h => fut'[j] = fut[j]
    BY <1>19, <2>1 DEF Start
  <2>4. UNCHANGED <<active, timedOut, verdict, next, pc, row>>
    BY <1>19 DEF Start, callVars, loopVars, endVars
  <2>5. \A s \in Steps : s \in Jobs
    BY DEF Jobs
  <2> HIDE DEF h
  <2> QED
    BY <2>1, <2>2, <2>3, <2>4, <2>5
<1>20. ASSUME NEW j \in Jobs, Return(j) PROVE Calls'
  <2>1. /\ j \in active /\ (j \notin timedOut => verdict[j] = {})
        /\ pc \notin {"sweep", "home", "close"} /\ ~Finished
    BY <1>20, InFlight DEF Return
  <2>2. fut'[j] \in Over /\ fut[j] = "running" /\ \A k \in Jobs : k # j => fut'[k] = fut[k]
    BY <1>20 DEF Return
  <2>3. UNCHANGED <<active, timedOut, verdict, next, pc, row>>
    BY <1>20 DEF Return, callVars, loopVars, endVars
  <2>4. \A s \in Steps : s \in Jobs
    BY DEF Jobs
  <2> QED
    BY <2>1, <2>2, <2>3, <2>4
<1>21. ASSUME Tick PROVE Calls'
  BY <1>21 DEF Tick, loopVars, callVars, poolVars, deviceVars, endVars
<1>22. ASSUME RequestCancel PROVE Calls'
  BY <1>22 DEF RequestCancel, loopVars, callVars, poolVars, deviceVars, endVars
<1>23. ASSUME Interrupt PROVE Calls'
  BY <1>23 DEF Interrupt, loopVars, callVars, poolVars, deviceVars, endVars
<1>24. ASSUME UNCHANGED vars PROVE Calls'
  BY <1>24 DEF vars, loopVars, callVars, poolVars, deviceVars, endVars
<1> QED
  BY <1>1, <1>2, <1>3, <1>4, <1>5, <1>6, <1>7, <1>8, <1>9, <1>10, <1>11,
     <1>12, <1>13, <1>14, <1>15, <1>16, <1>17, <1>18, <1>19, <1>20, <1>21, <1>22, <1>23, <1>24 DEF Next, Quiescent

\* Nothing is in flight once the run has waited.
LEMMA EndsKept == LoopInv /\ [Next]_vars => Ends'
<1> SUFFICES ASSUME LoopInv, [Next]_vars PROVE Ends'
  OBVIOUS
<1> USE DEF LoopInv, TypeOK, Ends, Over, Finished
<1>1. ASSUME Round PROVE Ends'
  BY <1>1 DEF Round, loopVars, callVars, poolVars, deviceVars, endVars
<1>2. ASSUME HeedCancel PROVE Ends'
  BY <1>2 DEF HeedCancel, callVars, poolVars, deviceVars, endVars
<1>3. ASSUME ReapCollectors PROVE Ends'
  BY <1>3 DEF ReapCollectors, TakeInBut, IsOver, IsLate, loopVars, poolVars, deviceVars, endVars, Record
<1>4. ASSUME NEW c \in Collectors, Submit(c) PROVE Ends'
  BY <1>4 DEF Submit, Enter, Due, deviceVars, endVars
<1>5. ASSUME ReapSteps PROVE Ends'
  BY <1>5 DEF ReapSteps, TakeInBut, IsOver, IsLate, loopVars, poolVars, deviceVars, endVars, Record
<1>6. ASSUME NEW s \in Steps, Fire(s) PROVE Ends'
  BY <1>6 DEF Fire, Enter, deviceVars, endVars
<1>7. ASSUME Sleep PROVE Ends'
  BY <1>7 DEF Sleep, loopVars, callVars, poolVars, deviceVars, endVars
<1>8. ASSUME QuietFirst PROVE Ends'
  BY <1>8 DEF QuietFirst, StopApp, loopVars, callVars, poolVars, deviceVars, endVars
<1>9. ASSUME Shutdown PROVE Ends'
  BY <1>9 DEF Shutdown, CancelFutures, loopVars, callVars, deviceVars, endVars
<1>10. ASSUME Drain PROVE Ends'
  BY <1>10 DEF Drain, Running, loopVars, poolVars, deviceVars, endVars
<1>11. ASSUME Sweep PROVE Ends'
  BY <1>11 DEF Sweep, StopApp, loopVars, callVars, poolVars
<1>12. ASSUME PressHome PROVE Ends'
  BY <1>12 DEF PressHome, loopVars, callVars, poolVars, deviceVars, endVars
<1>13. ASSUME Finish PROVE Ends'
  BY <1>13 DEF Finish, loopVars, callVars, poolVars, deviceVars
<1>14. ASSUME Fail PROVE Ends'
  BY <1>14 DEF Fail, GiveUp, loopVars, callVars, poolVars, deviceVars
<1>15. ASSUME NEW js \in {Collectors, Steps}, FailTakingIn(js) PROVE Ends'
  BY <1>15 DEF FailTakingIn, GiveUp, TakeInBut, IsOver, IsLate, loopVars, poolVars, deviceVars, Record
<1>16. ASSUME FailDraining PROVE Ends'
  BY <1>16 DEF FailDraining, GiveUp, loopVars, poolVars, deviceVars, Record
<1>17. ASSUME CancelAtLast PROVE Ends'
  BY <1>17 DEF CancelAtLast, CancelFutures, loopVars, callVars, deviceVars, endVars
<1>18. ASSUME Leave PROVE Ends'
  BY <1>18 DEF Leave, loopVars, callVars, poolVars, deviceVars, endVars
<1>19. ASSUME Start PROVE Ends'
  BY <1>19 DEF Start, loopVars, callVars, deviceVars, endVars
<1>20. ASSUME NEW j \in Jobs, Return(j) PROVE Ends'
  BY <1>20 DEF Return, Touch, loopVars, callVars, endVars
<1>21. ASSUME Tick PROVE Ends'
  BY <1>21 DEF Tick, loopVars, callVars, poolVars, deviceVars, endVars
<1>22. ASSUME RequestCancel PROVE Ends'
  BY <1>22 DEF RequestCancel, loopVars, callVars, poolVars, deviceVars, endVars
<1>23. ASSUME Interrupt PROVE Ends'
  BY <1>23 DEF Interrupt, loopVars, callVars, poolVars, deviceVars, endVars
<1>24. ASSUME UNCHANGED vars PROVE Ends'
  BY <1>24 DEF vars, loopVars, callVars, poolVars, deviceVars, endVars
<1> QED
  BY <1>1, <1>2, <1>3, <1>4, <1>5, <1>6, <1>7, <1>8, <1>9, <1>10, <1>11,
     <1>12, <1>13, <1>14, <1>15, <1>16, <1>17, <1>18, <1>19, <1>20, <1>21, <1>22, <1>23, <1>24 DEF Next, Quiescent

-------------------------------------------------------------------------------
(* The theorems. *)

\* A run that has just claimed its device satisfies the invariant.
LEMMA InitInv == Init => LoopInv
<1> SUFFICES ASSUME Init PROVE LoopInv
  OBVIOUS
<1> USE DEF Init
<1>1. TypeOK
  <2>1. /\ next \in 1..NumSteps + 1 /\ due \in [Collectors -> Nat]
        /\ since \in [Jobs -> Nat] /\ pool \in Seq(Jobs)
    BY LoopAssumption
  <2>2. /\ fut \in [Jobs -> {"none", "queued", "running", "cancelled"} \cup Over]
        /\ verdict \in [Jobs -> SUBSET (Over \cup {"timeout"})]
    OBVIOUS
  <2>3. {clock, lastCheck} \subseteq Nat
    OBVIOUS
  <2>4. {stop, cancelled} \subseteq BOOLEAN
    BY Zenon
  <2>5. active \subseteq Jobs /\ timedOut \subseteq active
    OBVIOUS
  <2> QED
    BY <2>1, <2>2, <2>3, <2>4, <2>5 DEF TypeOK, Places, Ended
<1>2. PoolOK
  BY DEF PoolOK
<1>3. Calls
  BY DEF Calls, Finished, Broken, Drained, Jobs
<1>4. Ends
  BY DEF Ends, Finished
<1> QED
  BY <1>1, <1>2, <1>3, <1>4 DEF LoopInv

\* The invariant holds in every state of every run.
THEOREM LoopInvariant == Spec => []LoopInv
<1>1. LoopInv /\ [Next]_vars => LoopInv'
  BY TypeOKKept, PoolOKKept, CallsKept, EndsKept DEF LoopInv
<1> QED
  BY InitInv, <1>1, PTL DEF Spec

\* TypeOK holds for any collectors and any script.
THEOREM TypeCorrect == Spec => []TypeOK
<1>1. LoopInv => TypeOK
  BY DEF LoopInv
<1> QED
  BY LoopInvariant, <1>1, PTL

\* Every call has at most one thing on record, and one when the run lets go of it
\* or says it is finished: what TestRunner.run puts in results and in events.
THEOREM RecordedOnce == Spec => []OneVerdict
<1>1. LoopInv => OneVerdict
  <2> SUFFICES ASSUME LoopInv PROVE OneVerdict
    OBVIOUS
  <2> USE DEF LoopInv, Calls
  <2>1. ASSUME NEW j \in Jobs PROVE \A v, w \in verdict[j] : v = w
    <3>1. CASE j \in timedOut
      BY <3>1
    <3>2. CASE j \in active \ timedOut
      BY <3>2
    <3>3. CASE j \notin active
      BY <3>3
    <3> QED
      BY <3>1, <3>2, <3>3
  <2>2. pc \notin {"leave", "done"} =>
          \A j \in Jobs \ active : fut[j] # "none" => verdict[j] # {}
    BY DEF Broken
  <2>3. Finished => \A j \in Jobs : fut[j] \notin {"none", "cancelled"} => verdict[j] # {}
    OBVIOUS
  <2> QED
    BY <2>1, <2>2, <2>3 DEF OneVerdict
<1> QED
  BY LoopInvariant, <1>1, PTL

\* A run whose row says completed or interrupted has nothing in flight, and no
\* step has undone what its cleanup did to the device.
THEOREM LeavesTheDeviceQuiet == Spec => []QuietAtEnd
<1>1. LoopInv => QuietAtEnd
  BY DEF LoopInv, Ends, QuietAtEnd, Running
<1> QED
  BY LoopInvariant, <1>1, PTL

\* What max_workers is chosen for: with every thread taken, a collector's call
\* waits only if two steps overlap, for a collector has one call at a time.
THEOREM OneStuckCallBlocksNoOther == Spec => []SamplingUnblocked
<1>1. TypeOK => SamplingUnblocked
  <2> SUFFICES ASSUME TypeOK, Cardinality(Running) >= Threads,
                      NEW c \in Collectors, fut[c] = "queued"
               PROVE  Cardinality({s \in Steps : fut[s] = "running"}) >= 2
    BY DEF SamplingUnblocked
  <2> DEFINE asked == {d \in Collectors : fut[d] = "running"}
             played == {s \in Steps : fut[s] = "running"}
  <2>1. /\ IsFiniteSet(Collectors) /\ Cardinality(Collectors) \in Nat
        /\ Collectors # {} /\ NumSteps \in Nat /\ IsFiniteSet(Steps)
    BY LoopAssumption, FS_CardinalityType, FS_Interval DEF Steps
  <2>2. /\ IsFiniteSet(Collectors \ {c})
        /\ Cardinality(Collectors \ {c}) = Cardinality(Collectors) - 1
    BY <2>1, FS_RemoveElement
  <2>3. asked \subseteq Collectors \ {c}
    OBVIOUS
  <2>4. IsFiniteSet(asked) /\ Cardinality(asked) <= Cardinality(Collectors) - 1
    BY <2>2, <2>3, FS_Subset
  <2>5. played \subseteq Steps /\ IsFiniteSet(played)
    BY <2>1, FS_Subset
  <2>6. Cardinality(asked) \in Nat /\ Cardinality(played) \in Nat
    BY <2>4, <2>5, FS_CardinalityType
  <2>7. Running = asked \cup played /\ asked \cap played = {}
    BY LoopAssumption DEF Running, Jobs
  <2>8. Cardinality(Running) = Cardinality(asked) + Cardinality(played)
    <3>1. Cardinality(Running) =
            Cardinality(asked) + Cardinality(played) - Cardinality(asked \cap played)
      BY <2>4, <2>5, <2>7, FS_Union
    <3>2. Cardinality(asked \cap played) = 0
      BY <2>7, FS_EmptySet
    <3> HIDE DEF asked, played
    <3> QED
      BY <2>6, <3>1, <3>2
  <2>9. CASE NumSteps = 0
    <3>1. played = {}
      BY <2>9 DEF Steps
    <3>2. Cardinality(played) = 0
      BY <3>1, FS_EmptySet
    <3>3. Threads = Cardinality(Collectors)
      BY <2>1, <2>9 DEF Threads
    <3> QED
      BY <2>1, <2>4, <2>6, <2>8, <3>2, <3>3
  <2>10. CASE NumSteps > 0
    <3>1. Threads = Cardinality(Collectors) + 1
      BY <2>1, <2>10 DEF Threads
    <3> QED
      BY <2>1, <2>4, <2>6, <2>8, <3>1
  <2> QED
    BY <2>1, <2>9, <2>10
<1> QED
  BY TypeCorrect, <1>1, PTL

\* A collector is asked again only when its last call is back and on record, and
\* every step of the script is handed to the pool at most once.
THEOREM NoCallTwice == Spec => FreshCall
<1> DEFINE Fresh == \A j \in Jobs : fut'[j] = "queued" /\ fut[j] # "queued" =>
                      \/ fut[j] = "none"
                      \/ j \in Collectors /\ fut[j] \in Over /\ verdict[j] # {}
<1>1. LoopInv /\ [Next]_vars => Fresh
  <2> SUFFICES ASSUME LoopInv, [Next]_vars PROVE Fresh
    OBVIOUS
  <2>1. CASE UNCHANGED fut
    BY <2>1
  <2>2. ASSUME NEW c \in Collectors, Submit(c) PROVE Fresh
    <3>1. /\ c \in Jobs /\ c \notin active
          /\ \A j \in Jobs : j # c => fut'[j] = fut[j]
      BY <2>2 DEF Submit, Enter, Due, Jobs, LoopInv, TypeOK
    <3>2. fut[c] = "none" \/ (fut[c] \in Over /\ verdict[c] # {})
      BY <2>2, <3>1 DEF LoopInv, Calls, Broken, Submit
    <3> QED
      BY <3>1, <3>2
  <2>3. ASSUME NEW s \in Steps, Fire(s) PROVE Fresh
    <3>1. \A j \in Jobs : j # s => fut'[j] = fut[j]
      BY <2>3 DEF Fire, Enter, LoopInv, TypeOK
    <3> QED
      BY <2>3, <3>1, NextIsFresh
  <2>4. CASE CancelFutures
    BY <2>4 DEF CancelFutures
  <2>5. CASE Start
    <3>1. \A j \in Jobs : fut'[j] = fut[j] \/ fut'[j] = "running"
      BY <2>5 DEF Start, LoopInv, TypeOK
    <3> QED
      BY <3>1
  <2>6. ASSUME NEW j \in Jobs, Return(j) PROVE Fresh
    <3>1. \A k \in Jobs : fut'[k] = fut[k] \/ fut'[k] \in Over
      BY <2>6 DEF Return, LoopInv, TypeOK
    <3> QED
      BY <3>1 DEF Over
  <2> HIDE DEF Fresh
  <2>7. CASE Shutdown \/ CancelAtLast
    BY <2>4, <2>7 DEF Shutdown, CancelAtLast
  <2>8. CASE FailDraining \/ \E js \in {Collectors, Steps} : FailTakingIn(js)
    BY <2>1, <2>8 DEF FailDraining, FailTakingIn, GiveUp, poolVars
  <2>9. CASE \/ Round \/ HeedCancel \/ ReapCollectors \/ ReapSteps \/ Sleep \/ QuietFirst
             \/ Drain \/ Sweep \/ PressHome \/ Finish \/ Fail \/ Leave \/ Tick
             \/ RequestCancel \/ Interrupt
    BY <2>1, <2>9 DEF Round, HeedCancel, ReapCollectors, ReapSteps, Sleep, QuietFirst,
       Drain, Sweep, PressHome, Finish, Fail, GiveUp, Leave, Tick, RequestCancel, Interrupt, poolVars
  <2> QED
    BY <2>1, <2>2, <2>3, <2>5, <2>6, <2>7, <2>8, <2>9 DEF Next, Quiescent, vars, poolVars
<1> QED
  BY LoopInvariant, <1>1, PTL DEF Spec, FreshCall

=============================================================================
