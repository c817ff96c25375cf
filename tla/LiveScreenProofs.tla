-------------------------- MODULE LiveScreenProofs --------------------------
(***************************************************************************)
(* Proofs about LiveScreen, for any number of connections and devices.     *)
(***************************************************************************)
EXTENDS LiveScreen, TLAPS

(* The inductive invariant, part by part. *)

\* Whoever is registered has begun, and only such a task is ever cancelled.
Order ==
  /\ \A c \in cancelled : pc[c] # "waiting"
  /\ \A s \in Devices :
       active[s] # NoConnection =>
         SerialOf[active[s]] = s /\ pc[active[s]] \notin {"away", "waiting"}

\* The registered task is the only holder, and the only waiter waits for it.
LastHolds ==
  Without({"eager"}) =>
    /\ \A c \in Connections : Holder(c) => active[SerialOf[c]] = c
    /\ \A c \in Connections : pc[c] = "waiting" => active[SerialOf[c]] = waits[c]
    /\ \A c, d \in Connections :
         pc[c] = "waiting" /\ pc[d] = "waiting" /\ SerialOf[c] = SerialOf[d] => c = d

\* Between its sweep and its screenrecord a task has the phone to itself.
SlotFree ==
  Without({"eager", "clearFails"}) =>
    /\ \A c \in Connections : remote[c] # "starved"
    /\ \A c, d \in Connections :
         pc[c] = "spawning" /\ SerialOf[c] = SerialOf[d] => remote[d] = "none"

\* Where a task may have a screenrecord on its phone.
NoLeftover ==
  Without({"early", "reconnect", "sweepFails"}) =>
    /\ \A c \in cancelled : pc[c] \in Showing
    /\ \A c \in Connections :
         pc[c] \notin {"opening", "streaming", "terminating", "sweeping", "crashed"}
           => remote[c] = "none"

\* A file has been opened by ffmpegs of its own run.
Files ==
  /\ \A c \in Connections : recorder[c] # "none" => RunOf[c] \in Runs
  /\ \A c \in Connections : pc[c] = "opening" => RunOf[c] \in Runs
  /\ \A r \in Runs : \A c \in part[r] \cup final[r] : RunOf[c] = r /\ recorder[c] # "none"
  /\ \A c \in Connections : pc[c] = "crashed" => "crash" \in met
  /\ \A c \in Connections :
       pc[c] \in {"away", "waiting", "shots"} \cup Starting => recorder[c] = "none"

Filming(c) == pc[c] \in {"streaming", "terminating", "sweeping", "saving"}

\* How far a film is in each place, and that its file is its own.
Films ==
  Without({"reconnect", "eager", "slowEnd", "crash"}) =>
    /\ \A c \in cancelled : pc[c] \notin CleaningUp
    /\ \A c \in Connections :
         /\ pc[c] \in {"streaming", "terminating", "sweeping"}
              => recorder[c] \in {"none", "open", "failed"}
         /\ pc[c] = "saving" => recorder[c] \in {"closing", "exited", "failed"}
         /\ pc[c] \in {"hangup", "gone", "aborted"} =>
              \/ recorder[c] \in {"none", "failed"}
              \/ recorder[c] = "exited" /\ OneFilm(RunOf[c])
         /\ Filming(c) /\ recorder[c] \in {"open", "closing", "exited"}
              => part[RunOf[c]] = {c}

ScreenInv == TypeOK /\ Order /\ LastHolds /\ SlotFree /\ NoLeftover /\ Files /\ Films /\ FinalIsFinished

-------------------------------------------------------------------------------
(* Each part is kept by every step. *)

\* Every step keeps the shapes, and cancels only a task that is not done.
LEMMA TypeOKKept == ScreenInv /\ [Next]_vars => TypeOK'
<1> SUFFICES ASSUME ScreenInv, [Next]_vars PROVE TypeOK'
  OBVIOUS
<1> USE LiveScreenAssumption
       DEF ScreenInv, TypeOK, Order, Places, HazardKinds, Live, Starting,
           Showing, CleaningUp, Over
<1>1. ASSUME NEW c \in Connections, ConnectFree(c) PROVE TypeOK'
  BY <1>1 DEF ConnectFree, Goto, FirstPlace, HazardsOf, Waited, phone, files
<1>2. ASSUME NEW c \in Connections, ConnectOver(c) PROVE TypeOK'
  <2>1. met' \subseteq HazardKinds
    BY <1>2 DEF ConnectOver, HazardsOf
  <2>2. active[SerialOf[c]] \in Connections /\ active[SerialOf[c]] # c
    BY <1>2 DEF ConnectOver
  <2>3. pc' \in [Connections -> Places] /\ waits' \in [Connections -> Connections \cup {NoConnection}]
    BY <1>2, <2>2 DEF ConnectOver, Goto
  <2>4. cancelled' \subseteq {d \in Connections : Live(d)'}
    BY <1>2, <2>2 DEF ConnectOver, Goto
  <2> QED
    BY <1>2, <2>1, <2>2, <2>3, <2>4 DEF ConnectOver, phone, files
<1>3. ASSUME NEW c \in Connections, Wake(c) PROVE TypeOK'
  BY <1>3 DEF Wake, Goto, FirstPlace, phone, files
<1>4. ASSUME NEW c \in Connections, Clear(c) PROVE TypeOK'
  BY <1>4 DEF Clear, Goto, At, Swept, files
<1>4a. ASSUME NEW c \in Connections, ClearFails(c) PROVE TypeOK'
  BY <1>4a DEF ClearFails, Goto, At, files
<1>5. ASSUME NEW c \in Connections, SpawnScreenrecord(c) PROVE TypeOK'
  BY <1>5 DEF SpawnScreenrecord, Goto, At, Captured, files
<1>6. ASSUME NEW c \in Connections, StartRecording(c) PROVE TypeOK'
  BY <1>6 DEF StartRecording, Goto, At, Opened, phone
<1>7. ASSUME NEW c \in Connections, StreamEnds(c) PROVE TypeOK'
  BY <1>7 DEF StreamEnds, Goto, At, phone, files
<1>8. ASSUME NEW c \in Connections, ShotsEnd(c) PROVE TypeOK'
  BY <1>8 DEF ShotsEnd, Goto, At, phone, files
<1>9. ASSUME NEW c \in Connections, Terminated(c) PROVE TypeOK'
  BY <1>9 DEF Terminated, Goto, At, phone, files
<1>10. ASSUME NEW c \in Connections, Sweep(c) PROVE TypeOK'
  BY <1>10 DEF Sweep, Goto, At, Swept
<1>10a. ASSUME NEW c \in Connections, SweepFails(c) PROVE TypeOK'
  BY <1>10a DEF SweepFails, Goto, At
<1>11. ASSUME NEW c \in Connections, SaveRecording(c) PROVE TypeOK'
  BY <1>11 DEF SaveRecording, Goto, At, Files, phone
<1>12. ASSUME NEW c \in Connections, GiveUpRecording(c) PROVE TypeOK'
  BY <1>12 DEF GiveUpRecording, Goto, At, phone, files
<1>13. ASSUME NEW c \in Connections, HangUp(c) PROVE TypeOK'
  BY <1>13 DEF HangUp, Goto, At, phone, files
<1>14. ASSUME NEW c \in Connections, InterruptSweep(c) PROVE TypeOK'
  BY <1>14 DEF InterruptSweep, Goto, Interrupted, files
<1>15. ASSUME NEW c \in Connections, InterruptSpawn(c) PROVE TypeOK'
  BY <1>15 DEF InterruptSpawn, Goto, Interrupted, Captured, files
<1>16. ASSUME NEW c \in Connections, InterruptOpen(c) PROVE TypeOK'
  BY <1>16 DEF InterruptOpen, Goto, Interrupted, Opened, phone
<1>17. ASSUME NEW c \in Connections, InterruptStream(c) PROVE TypeOK'
  BY <1>17 DEF InterruptStream, Goto, Interrupted, phone, files
<1>18. ASSUME NEW c \in Connections, InterruptRest(c) PROVE TypeOK'
  BY <1>18 DEF InterruptRest, Goto, Interrupted, phone, files
<1>19. ASSUME NEW c \in Connections, InterruptHangUp(c) PROVE TypeOK'
  BY <1>19 DEF InterruptHangUp, Goto, Interrupted, phone, files
<1>20. ASSUME NEW c \in Connections, RemoteDies(c) PROVE TypeOK'
  BY <1>20 DEF RemoteDies, files
<1>21. ASSUME NEW c \in Connections, FfmpegEnds(c) PROVE TypeOK'
  BY <1>21 DEF FfmpegEnds, phone
<1>22. ASSUME NEW s \in Devices, StraySweep(s) PROVE TypeOK'
  BY <1>22 DEF StraySweep, Swept, files
<1>23. ASSUME Crash PROVE TypeOK'
  BY <1>23 DEF Crash, phone
<1>24. ASSUME UNCHANGED vars PROVE TypeOK'
  BY <1>24 DEF vars
<1> QED
  BY <1>1, <1>2, <1>3, <1>4, <1>4a, <1>5, <1>6, <1>7, <1>8, <1>9, <1>10, <1>10a, <1>11, <1>12, <1>13, <1>14, <1>15, <1>16, <1>17, <1>18, <1>19, <1>20, <1>21, <1>22, <1>23, <1>24
  DEF Next, TaskStep, ClientStep

\* Every step registers only a task that begins.
LEMMA OrderKept == ScreenInv /\ [Next]_vars => Order'
<1> SUFFICES ASSUME ScreenInv, [Next]_vars PROVE Order'
  OBVIOUS
<1> USE LiveScreenAssumption
       DEF ScreenInv, TypeOK, Order, Places, Live, Starting, Showing,
           CleaningUp, Over
<1>1. ASSUME NEW c \in Connections, ConnectFree(c) PROVE Order'
  BY <1>1 DEF ConnectFree, Goto, FirstPlace, HazardsOf, Waited, phone, files
<1>2. ASSUME NEW c \in Connections, ConnectOver(c) PROVE Order'
  BY <1>2 DEF ConnectOver, Goto, HazardsOf, Waited, phone, files
<1>3. ASSUME NEW c \in Connections, Wake(c) PROVE Order'
  BY <1>3 DEF Wake, Goto, FirstPlace, phone, files
<1>4. ASSUME NEW c \in Connections, Clear(c) PROVE Order'
  BY <1>4 DEF Clear, Goto, At, Swept, files
<1>4a. ASSUME NEW c \in Connections, ClearFails(c) PROVE Order'
  BY <1>4a DEF ClearFails, Goto, At, files
<1>5. ASSUME NEW c \in Connections, SpawnScreenrecord(c) PROVE Order'
  BY <1>5 DEF SpawnScreenrecord, Goto, At, Captured, files
<1>6. ASSUME NEW c \in Connections, StartRecording(c) PROVE Order'
  BY <1>6 DEF StartRecording, Goto, At, Opened, phone
<1>7. ASSUME NEW c \in Connections, StreamEnds(c) PROVE Order'
  BY <1>7 DEF StreamEnds, Goto, At, phone, files
<1>8. ASSUME NEW c \in Connections, ShotsEnd(c) PROVE Order'
  BY <1>8 DEF ShotsEnd, Goto, At, phone, files
<1>9. ASSUME NEW c \in Connections, Terminated(c) PROVE Order'
  BY <1>9 DEF Terminated, Goto, At, phone, files
<1>10. ASSUME NEW c \in Connections, Sweep(c) PROVE Order'
  BY <1>10 DEF Sweep, Goto, At, Swept
<1>10a. ASSUME NEW c \in Connections, SweepFails(c) PROVE Order'
  BY <1>10a DEF SweepFails, Goto, At
<1>11. ASSUME NEW c \in Connections, SaveRecording(c) PROVE Order'
  BY <1>11 DEF SaveRecording, Goto, At, phone
<1>12. ASSUME NEW c \in Connections, GiveUpRecording(c) PROVE Order'
  BY <1>12 DEF GiveUpRecording, Goto, At, phone, files
<1>13. ASSUME NEW c \in Connections, HangUp(c) PROVE Order'
  BY <1>13 DEF HangUp, Goto, At, phone, files
<1>14. ASSUME NEW c \in Connections, InterruptSweep(c) PROVE Order'
  BY <1>14 DEF InterruptSweep, Goto, Interrupted, files
<1>15. ASSUME NEW c \in Connections, InterruptSpawn(c) PROVE Order'
  BY <1>15 DEF InterruptSpawn, Goto, Interrupted, Captured, files
<1>16. ASSUME NEW c \in Connections, InterruptOpen(c) PROVE Order'
  BY <1>16 DEF InterruptOpen, Goto, Interrupted, Opened, phone
<1>17. ASSUME NEW c \in Connections, InterruptStream(c) PROVE Order'
  BY <1>17 DEF InterruptStream, Goto, Interrupted, phone, files
<1>18. ASSUME NEW c \in Connections, InterruptRest(c) PROVE Order'
  BY <1>18 DEF InterruptRest, Goto, Interrupted, phone, files
<1>19. ASSUME NEW c \in Connections, InterruptHangUp(c) PROVE Order'
  BY <1>19 DEF InterruptHangUp, Goto, Interrupted, phone, files
<1>20. ASSUME NEW c \in Connections, RemoteDies(c) PROVE Order'
  BY <1>20 DEF RemoteDies, files
<1>21. ASSUME NEW c \in Connections, FfmpegEnds(c) PROVE Order'
  BY <1>21 DEF FfmpegEnds, phone
<1>22. ASSUME NEW s \in Devices, StraySweep(s) PROVE Order'
  BY <1>22 DEF StraySweep, Swept, files
<1>23. ASSUME Crash PROVE Order'
  BY <1>23 DEF Crash, phone
<1>24. ASSUME UNCHANGED vars PROVE Order'
  BY <1>24 DEF vars
<1> QED
  BY <1>1, <1>2, <1>3, <1>4, <1>4a, <1>5, <1>6, <1>7, <1>8, <1>9, <1>10, <1>10a, <1>11, <1>12, <1>13, <1>14, <1>15, <1>16, <1>17, <1>18, <1>19, <1>20, <1>21, <1>22, <1>23, <1>24
  DEF Next, TaskStep, ClientStep

\* Every step keeps the registered task the only one on its device.
LEMMA LastHoldsKept == ScreenInv /\ [Next]_vars => LastHolds'
<1> SUFFICES ASSUME ScreenInv, [Next]_vars PROVE LastHolds'
  OBVIOUS
<1> USE LiveScreenAssumption
       DEF ScreenInv, TypeOK, Order, LastHolds, Holder, Without, Places,
           Live, Starting, Showing, CleaningUp, Over
<1>1. ASSUME NEW c \in Connections, ConnectFree(c) PROVE LastHolds'
  BY <1>1 DEF ConnectFree, Goto, FirstPlace, HazardsOf, Waited, phone, files
<1>2. ASSUME NEW c \in Connections, ConnectOver(c) PROVE LastHolds'
  BY <1>2 DEF ConnectOver, Goto, HazardsOf, Waited, phone, files
<1>3. ASSUME NEW c \in Connections, Wake(c) PROVE LastHolds'
  BY <1>3 DEF Wake, Goto, FirstPlace, phone, files
<1>4. ASSUME NEW c \in Connections, Clear(c) PROVE LastHolds'
  BY <1>4 DEF Clear, Goto, At, Swept, files
<1>4a. ASSUME NEW c \in Connections, ClearFails(c) PROVE LastHolds'
  BY <1>4a DEF ClearFails, Goto, At, files
<1>5. ASSUME NEW c \in Connections, SpawnScreenrecord(c) PROVE LastHolds'
  BY <1>5 DEF SpawnScreenrecord, Goto, At, Captured, files
<1>6. ASSUME NEW c \in Connections, StartRecording(c) PROVE LastHolds'
  BY <1>6 DEF StartRecording, Goto, At, Opened, phone
<1>7. ASSUME NEW c \in Connections, StreamEnds(c) PROVE LastHolds'
  BY <1>7 DEF StreamEnds, Goto, At, phone, files
<1>8. ASSUME NEW c \in Connections, ShotsEnd(c) PROVE LastHolds'
  BY <1>8 DEF ShotsEnd, Goto, At, phone, files
<1>9. ASSUME NEW c \in Connections, Terminated(c) PROVE LastHolds'
  BY <1>9 DEF Terminated, Goto, At, phone, files
<1>10. ASSUME NEW c \in Connections, Sweep(c) PROVE LastHolds'
  BY <1>10 DEF Sweep, Goto, At, Swept
<1>10a. ASSUME NEW c \in Connections, SweepFails(c) PROVE LastHolds'
  BY <1>10a DEF SweepFails, Goto, At
<1>11. ASSUME NEW c \in Connections, SaveRecording(c) PROVE LastHolds'
  BY <1>11 DEF SaveRecording, Goto, At, phone
<1>12. ASSUME NEW c \in Connections, GiveUpRecording(c) PROVE LastHolds'
  BY <1>12 DEF GiveUpRecording, Goto, At, phone, files
<1>13. ASSUME NEW c \in Connections, HangUp(c) PROVE LastHolds'
  BY <1>13 DEF HangUp, Goto, At, phone, files
<1>14. ASSUME NEW c \in Connections, InterruptSweep(c) PROVE LastHolds'
  BY <1>14 DEF InterruptSweep, Goto, Interrupted, files
<1>15. ASSUME NEW c \in Connections, InterruptSpawn(c) PROVE LastHolds'
  BY <1>15 DEF InterruptSpawn, Goto, Interrupted, Captured, files
<1>16. ASSUME NEW c \in Connections, InterruptOpen(c) PROVE LastHolds'
  BY <1>16 DEF InterruptOpen, Goto, Interrupted, Opened, phone
<1>17. ASSUME NEW c \in Connections, InterruptStream(c) PROVE LastHolds'
  BY <1>17 DEF InterruptStream, Goto, Interrupted, phone, files
<1>18. ASSUME NEW c \in Connections, InterruptRest(c) PROVE LastHolds'
  BY <1>18 DEF InterruptRest, Goto, Interrupted, phone, files
<1>19. ASSUME NEW c \in Connections, InterruptHangUp(c) PROVE LastHolds'
  BY <1>19 DEF InterruptHangUp, Goto, Interrupted, phone, files
<1>20. ASSUME NEW c \in Connections, RemoteDies(c) PROVE LastHolds'
  BY <1>20 DEF RemoteDies, files
<1>21. ASSUME NEW c \in Connections, FfmpegEnds(c) PROVE LastHolds'
  BY <1>21 DEF FfmpegEnds, phone
<1>22. ASSUME NEW s \in Devices, StraySweep(s) PROVE LastHolds'
  BY <1>22 DEF StraySweep, Swept, files
<1>23. ASSUME Crash PROVE LastHolds'
  BY <1>23 DEF Crash, phone
<1>24. ASSUME UNCHANGED vars PROVE LastHolds'
  BY <1>24 DEF vars
<1> QED
  BY <1>1, <1>2, <1>3, <1>4, <1>4a, <1>5, <1>6, <1>7, <1>8, <1>9, <1>10, <1>10a, <1>11, <1>12, <1>13, <1>14, <1>15, <1>16, <1>17, <1>18, <1>19, <1>20, <1>21, <1>22, <1>23, <1>24
  DEF Next, TaskStep, ClientStep

\* Every step keeps the phone free for the task that is about to capture it.
LEMMA SlotFreeKept == ScreenInv /\ [Next]_vars => SlotFree'
<1> SUFFICES ASSUME ScreenInv, [Next]_vars PROVE SlotFree'
  OBVIOUS
<1> USE LiveScreenAssumption
       DEF ScreenInv, TypeOK, LastHolds, SlotFree, Holder, Without,
           Places, Live, Starting, Showing, CleaningUp, Over
<1>1. ASSUME NEW c \in Connections, ConnectFree(c) PROVE SlotFree'
  BY <1>1 DEF ConnectFree, Goto, FirstPlace, HazardsOf, Waited, phone, files
<1>2. ASSUME NEW c \in Connections, ConnectOver(c) PROVE SlotFree'
  BY <1>2 DEF ConnectOver, Goto, HazardsOf, Waited, phone, files
<1>3. ASSUME NEW c \in Connections, Wake(c) PROVE SlotFree'
  BY <1>3 DEF Wake, Goto, FirstPlace, phone, files
<1>4. ASSUME NEW c \in Connections, Clear(c) PROVE SlotFree'
  BY <1>4 DEF Clear, Goto, At, Swept, files
<1>4a. ASSUME NEW c \in Connections, ClearFails(c) PROVE SlotFree'
  BY <1>4a DEF ClearFails, Goto, At, files
<1>5. ASSUME NEW c \in Connections, SpawnScreenrecord(c) PROVE SlotFree'
  BY <1>5 DEF SpawnScreenrecord, Goto, At, Captured, files
<1>6. ASSUME NEW c \in Connections, StartRecording(c) PROVE SlotFree'
  BY <1>6 DEF StartRecording, Goto, At, Opened, phone
<1>7. ASSUME NEW c \in Connections, StreamEnds(c) PROVE SlotFree'
  BY <1>7 DEF StreamEnds, Goto, At, phone, files
<1>8. ASSUME NEW c \in Connections, ShotsEnd(c) PROVE SlotFree'
  BY <1>8 DEF ShotsEnd, Goto, At, phone, files
<1>9. ASSUME NEW c \in Connections, Terminated(c) PROVE SlotFree'
  BY <1>9 DEF Terminated, Goto, At, phone, files
<1>10. ASSUME NEW c \in Connections, Sweep(c) PROVE SlotFree'
  BY <1>10 DEF Sweep, Goto, At, Swept
<1>10a. ASSUME NEW c \in Connections, SweepFails(c) PROVE SlotFree'
  BY <1>10a DEF SweepFails, Goto, At
<1>11. ASSUME NEW c \in Connections, SaveRecording(c) PROVE SlotFree'
  BY <1>11 DEF SaveRecording, Goto, At, phone
<1>12. ASSUME NEW c \in Connections, GiveUpRecording(c) PROVE SlotFree'
  BY <1>12 DEF GiveUpRecording, Goto, At, phone, files
<1>13. ASSUME NEW c \in Connections, HangUp(c) PROVE SlotFree'
  BY <1>13 DEF HangUp, Goto, At, phone, files
<1>14. ASSUME NEW c \in Connections, InterruptSweep(c) PROVE SlotFree'
  BY <1>14 DEF InterruptSweep, Goto, Interrupted, files
<1>15. ASSUME NEW c \in Connections, InterruptSpawn(c) PROVE SlotFree'
  BY <1>15 DEF InterruptSpawn, Goto, Interrupted, Captured, files
<1>16. ASSUME NEW c \in Connections, InterruptOpen(c) PROVE SlotFree'
  BY <1>16 DEF InterruptOpen, Goto, Interrupted, Opened, phone
<1>17. ASSUME NEW c \in Connections, InterruptStream(c) PROVE SlotFree'
  BY <1>17 DEF InterruptStream, Goto, Interrupted, phone, files
<1>18. ASSUME NEW c \in Connections, InterruptRest(c) PROVE SlotFree'
  BY <1>18 DEF InterruptRest, Goto, Interrupted, phone, files
<1>19. ASSUME NEW c \in Connections, InterruptHangUp(c) PROVE SlotFree'
  BY <1>19 DEF InterruptHangUp, Goto, Interrupted, phone, files
<1>20. ASSUME NEW c \in Connections, RemoteDies(c) PROVE SlotFree'
  BY <1>20 DEF RemoteDies, files
<1>21. ASSUME NEW c \in Connections, FfmpegEnds(c) PROVE SlotFree'
  BY <1>21 DEF FfmpegEnds, phone
<1>22. ASSUME NEW s \in Devices, StraySweep(s) PROVE SlotFree'
  BY <1>22 DEF StraySweep, Swept, files
<1>23. ASSUME Crash PROVE SlotFree'
  BY <1>23 DEF Crash, phone
<1>24. ASSUME UNCHANGED vars PROVE SlotFree'
  BY <1>24 DEF vars
<1> QED
  BY <1>1, <1>2, <1>3, <1>4, <1>4a, <1>5, <1>6, <1>7, <1>8, <1>9, <1>10, <1>10a, <1>11, <1>12, <1>13, <1>14, <1>15, <1>16, <1>17, <1>18, <1>19, <1>20, <1>21, <1>22, <1>23, <1>24
  DEF Next, TaskStep, ClientStep

\* Every step that ends a task has swept its phone.
LEMMA NoLeftoverKept == ScreenInv /\ [Next]_vars => NoLeftover'
<1> SUFFICES ASSUME ScreenInv, [Next]_vars PROVE NoLeftover'
  OBVIOUS
<1> USE LiveScreenAssumption
       DEF ScreenInv, TypeOK, Order, NoLeftover, Without, Places, Live,
           Starting, Showing, CleaningUp, Over
<1>1. ASSUME NEW c \in Connections, ConnectFree(c) PROVE NoLeftover'
  BY <1>1 DEF ConnectFree, Goto, FirstPlace, HazardsOf, Waited, phone, files
<1>2. ASSUME NEW c \in Connections, ConnectOver(c) PROVE NoLeftover'
  <2> DEFINE previous == active[SerialOf[c]]
  <2> SUFFICES ASSUME Without({"early", "reconnect", "sweepFails"})' PROVE NoLeftover'
    OBVIOUS
  <2>1. met \subseteq met' /\ HazardsOf(c) \subseteq met'
    BY <1>2 DEF ConnectOver
  <2>2. previous \in Connections /\ previous # c /\ Live(previous) /\ pc[previous] # "waiting"
    BY <1>2 DEF ConnectOver
  <2>3. pc[previous] \in Showing
    <3>1. pc[previous] \notin Starting
      BY <2>1, <2>2 DEF HazardsOf
    <3>2. pc[previous] \notin CleaningUp
      BY <2>1, <2>2 DEF HazardsOf
    <3> QED
      BY <2>2, <3>1, <3>2
  <2>4. \A d \in cancelled' : pc'[d] \in Showing
    BY <1>2, <2>1, <2>2, <2>3 DEF ConnectOver, Goto
  <2>5. \A d \in Connections :
          pc'[d] \notin {"opening", "streaming", "terminating", "sweeping", "crashed"}
            => remote'[d] = "none"
    BY <1>2, <2>1 DEF ConnectOver, Goto, phone
  <2> QED
    BY <2>4, <2>5
<1>3. ASSUME NEW c \in Connections, Wake(c) PROVE NoLeftover'
  BY <1>3 DEF Wake, Goto, FirstPlace, phone, files
<1>4. ASSUME NEW c \in Connections, Clear(c) PROVE NoLeftover'
  BY <1>4 DEF Clear, Goto, At, Swept, files
<1>4a. ASSUME NEW c \in Connections, ClearFails(c) PROVE NoLeftover'
  BY <1>4a DEF ClearFails, Goto, At, files
<1>5. ASSUME NEW c \in Connections, SpawnScreenrecord(c) PROVE NoLeftover'
  BY <1>5 DEF SpawnScreenrecord, Goto, At, Captured, files
<1>6. ASSUME NEW c \in Connections, StartRecording(c) PROVE NoLeftover'
  BY <1>6 DEF StartRecording, Goto, At, Opened, phone
<1>7. ASSUME NEW c \in Connections, StreamEnds(c) PROVE NoLeftover'
  BY <1>7 DEF StreamEnds, Goto, At, phone, files
<1>8. ASSUME NEW c \in Connections, ShotsEnd(c) PROVE NoLeftover'
  BY <1>8 DEF ShotsEnd, Goto, At, phone, files
<1>9. ASSUME NEW c \in Connections, Terminated(c) PROVE NoLeftover'
  BY <1>9 DEF Terminated, Goto, At, phone, files
<1>10. ASSUME NEW c \in Connections, Sweep(c) PROVE NoLeftover'
  BY <1>10 DEF Sweep, Goto, At, Swept
<1>10a. ASSUME NEW c \in Connections, SweepFails(c) PROVE NoLeftover'
  BY <1>10a DEF SweepFails, Goto, At
<1>11. ASSUME NEW c \in Connections, SaveRecording(c) PROVE NoLeftover'
  BY <1>11 DEF SaveRecording, Goto, At, phone
<1>12. ASSUME NEW c \in Connections, GiveUpRecording(c) PROVE NoLeftover'
  BY <1>12 DEF GiveUpRecording, Goto, At, phone, files
<1>13. ASSUME NEW c \in Connections, HangUp(c) PROVE NoLeftover'
  BY <1>13 DEF HangUp, Goto, At, phone, files
<1>14. ASSUME NEW c \in Connections, InterruptSweep(c) PROVE NoLeftover'
  BY <1>14 DEF InterruptSweep, Goto, Interrupted, files
<1>15. ASSUME NEW c \in Connections, InterruptSpawn(c) PROVE NoLeftover'
  BY <1>15 DEF InterruptSpawn, Goto, Interrupted, Captured, files
<1>16. ASSUME NEW c \in Connections, InterruptOpen(c) PROVE NoLeftover'
  BY <1>16 DEF InterruptOpen, Goto, Interrupted, Opened, phone
<1>17. ASSUME NEW c \in Connections, InterruptStream(c) PROVE NoLeftover'
  BY <1>17 DEF InterruptStream, Goto, Interrupted, phone, files
<1>18. ASSUME NEW c \in Connections, InterruptRest(c) PROVE NoLeftover'
  BY <1>18 DEF InterruptRest, Goto, Interrupted, phone, files
<1>19. ASSUME NEW c \in Connections, InterruptHangUp(c) PROVE NoLeftover'
  BY <1>19 DEF InterruptHangUp, Goto, Interrupted, phone, files
<1>20. ASSUME NEW c \in Connections, RemoteDies(c) PROVE NoLeftover'
  BY <1>20 DEF RemoteDies, files
<1>21. ASSUME NEW c \in Connections, FfmpegEnds(c) PROVE NoLeftover'
  BY <1>21 DEF FfmpegEnds, phone
<1>22. ASSUME NEW s \in Devices, StraySweep(s) PROVE NoLeftover'
  BY <1>22 DEF StraySweep, Swept, files
<1>23. ASSUME Crash PROVE NoLeftover'
  BY <1>23 DEF Crash, phone
<1>24. ASSUME UNCHANGED vars PROVE NoLeftover'
  BY <1>24 DEF vars
<1> QED
  BY <1>1, <1>2, <1>3, <1>4, <1>4a, <1>5, <1>6, <1>7, <1>8, <1>9, <1>10, <1>10a, <1>11, <1>12, <1>13, <1>14, <1>15, <1>16, <1>17, <1>18, <1>19, <1>20, <1>21, <1>22, <1>23, <1>24
  DEF Next, TaskStep, ClientStep

\* Every step opens files of the task's own run only.
LEMMA FilesKept == ScreenInv /\ [Next]_vars => Files'
<1> SUFFICES ASSUME ScreenInv, [Next]_vars PROVE Files'
  OBVIOUS
<1> USE LiveScreenAssumption
       DEF ScreenInv, TypeOK, Files, Without, Places, Live, Starting,
           Showing, CleaningUp, Over
<1>1. ASSUME NEW c \in Connections, ConnectFree(c) PROVE Files'
  BY <1>1 DEF ConnectFree, Goto, FirstPlace, HazardsOf, Waited, phone, files
<1>2. ASSUME NEW c \in Connections, ConnectOver(c) PROVE Files'
  BY <1>2 DEF ConnectOver, Goto, HazardsOf, Waited, phone, files
<1>3. ASSUME NEW c \in Connections, Wake(c) PROVE Files'
  BY <1>3 DEF Wake, Goto, FirstPlace, phone, files
<1>4. ASSUME NEW c \in Connections, Clear(c) PROVE Files'
  BY <1>4 DEF Clear, Goto, At, Swept, files
<1>4a. ASSUME NEW c \in Connections, ClearFails(c) PROVE Files'
  BY <1>4a DEF ClearFails, Goto, At, files
<1>5. ASSUME NEW c \in Connections, SpawnScreenrecord(c) PROVE Files'
  BY <1>5 DEF SpawnScreenrecord, Goto, At, Captured, files
<1>6. ASSUME NEW c \in Connections, StartRecording(c) PROVE Files'
  <2>1. CASE UNCHANGED <<recorder, part>>
    BY <1>6, <2>1 DEF StartRecording, Goto, At, phone
  <2>2. CASE recorder' = [recorder EXCEPT ![c] = "open"] /\ part' = Opened(c)
    <3>1. RunOf[c] \in Runs
      BY <1>6 DEF StartRecording, At
    <3>2. \A r \in Runs : \A d \in part'[r] : (d = c /\ r = RunOf[c]) \/ d \in part[r]
      BY <2>2, <3>1 DEF Opened
    <3>3. \A r \in Runs : \A d \in part'[r] \cup final'[r] : RunOf[d] = r /\ recorder'[d] # "none"
      BY <1>6, <2>2, <3>2 DEF StartRecording, phone
    <3> QED
      BY <1>6, <2>2, <3>1, <3>3 DEF StartRecording, Goto, At, phone
  <2> QED
    BY <1>6, <2>1, <2>2 DEF StartRecording
<1>7. ASSUME NEW c \in Connections, StreamEnds(c) PROVE Files'
  BY <1>7 DEF StreamEnds, Goto, At, phone, files
<1>8. ASSUME NEW c \in Connections, ShotsEnd(c) PROVE Files'
  BY <1>8 DEF ShotsEnd, Goto, At, phone, files
<1>9. ASSUME NEW c \in Connections, Terminated(c) PROVE Files'
  BY <1>9 DEF Terminated, Goto, At, phone, files
<1>10. ASSUME NEW c \in Connections, Sweep(c) PROVE Files'
  BY <1>10 DEF Sweep, Goto, At, Swept
<1>10a. ASSUME NEW c \in Connections, SweepFails(c) PROVE Files'
  BY <1>10a DEF SweepFails, Goto, At
<1>11. ASSUME NEW c \in Connections, SaveRecording(c) PROVE Files'
  BY <1>11 DEF SaveRecording, Goto, At, phone
<1>12. ASSUME NEW c \in Connections, GiveUpRecording(c) PROVE Files'
  BY <1>12 DEF GiveUpRecording, Goto, At, phone, files
<1>13. ASSUME NEW c \in Connections, HangUp(c) PROVE Files'
  BY <1>13 DEF HangUp, Goto, At, phone, files
<1>14. ASSUME NEW c \in Connections, InterruptSweep(c) PROVE Files'
  BY <1>14 DEF InterruptSweep, Goto, Interrupted, files
<1>15. ASSUME NEW c \in Connections, InterruptSpawn(c) PROVE Files'
  BY <1>15 DEF InterruptSpawn, Goto, Interrupted, Captured, files
<1>16. ASSUME NEW c \in Connections, InterruptOpen(c) PROVE Files'
  BY <1>16 DEF InterruptOpen, Goto, Interrupted, Opened, phone
<1>17. ASSUME NEW c \in Connections, InterruptStream(c) PROVE Files'
  BY <1>17 DEF InterruptStream, Goto, Interrupted, phone, files
<1>18. ASSUME NEW c \in Connections, InterruptRest(c) PROVE Files'
  BY <1>18 DEF InterruptRest, Goto, Interrupted, phone, files
<1>19. ASSUME NEW c \in Connections, InterruptHangUp(c) PROVE Files'
  BY <1>19 DEF InterruptHangUp, Goto, Interrupted, phone, files
<1>20. ASSUME NEW c \in Connections, RemoteDies(c) PROVE Files'
  BY <1>20 DEF RemoteDies, files
<1>21. ASSUME NEW c \in Connections, FfmpegEnds(c) PROVE Files'
  BY <1>21 DEF FfmpegEnds, phone
<1>22. ASSUME NEW s \in Devices, StraySweep(s) PROVE Files'
  BY <1>22 DEF StraySweep, Swept, files
<1>23. ASSUME Crash PROVE Files'
  BY <1>23 DEF Crash, phone
<1>24. ASSUME UNCHANGED vars PROVE Files'
  BY <1>24 DEF vars
<1> QED
  BY <1>1, <1>2, <1>3, <1>4, <1>4a, <1>5, <1>6, <1>7, <1>8, <1>9, <1>10, <1>10a, <1>11, <1>12, <1>13, <1>14, <1>15, <1>16, <1>17, <1>18, <1>19, <1>20, <1>21, <1>22, <1>23, <1>24
  DEF Next, TaskStep, ClientStep

\* Every step takes a film as far as the task has come.
LEMMA FilmsKept == ScreenInv /\ [Next]_vars => Films'
<1> SUFFICES ASSUME ScreenInv, [Next]_vars PROVE Films'
  OBVIOUS
<1> USE LiveScreenAssumption, OneDevicePerRun
       DEF ScreenInv, TypeOK, Order, LastHolds, Files, Films, Holder,
           Filming, OneFilm, Without, Places, Live, Starting, Showing, CleaningUp,
           Over
<1>1. ASSUME NEW c \in Connections, ConnectFree(c) PROVE Films'
  BY <1>1 DEF ConnectFree, Goto, FirstPlace, HazardsOf, Waited, phone, files
<1>2. ASSUME NEW c \in Connections, ConnectOver(c) PROVE Films'
  <2> DEFINE previous == active[SerialOf[c]]
  <2> SUFFICES ASSUME Without({"reconnect", "eager", "slowEnd", "crash"})' PROVE Films'
    OBVIOUS
  <2>1. met \subseteq met' /\ HazardsOf(c) \subseteq met'
    BY <1>2 DEF ConnectOver
  <2>2. previous \in Connections /\ previous # c
    BY <1>2 DEF ConnectOver
  <2>3. ASSUME pc[previous] \in CleaningUp PROVE FALSE
    <3>1. "reconnect" \in HazardsOf(c)
      BY <2>2, <2>3 DEF HazardsOf
    <3> QED
      BY <2>1, <3>1
  <2>4. \A d \in cancelled' : pc'[d] \notin CleaningUp
    BY <1>2, <2>1, <2>2, <2>3 DEF ConnectOver, Goto
  <2> QED
    BY <1>2, <2>1, <2>4 DEF ConnectOver, Goto, files
<1>3. ASSUME NEW c \in Connections, Wake(c) PROVE Films'
  BY <1>3 DEF Wake, Goto, FirstPlace, phone, files
<1>4. ASSUME NEW c \in Connections, Clear(c) PROVE Films'
  BY <1>4 DEF Clear, Goto, At, Swept, files
<1>4a. ASSUME NEW c \in Connections, ClearFails(c) PROVE Films'
  BY <1>4a DEF ClearFails, Goto, At, files
<1>5. ASSUME NEW c \in Connections, SpawnScreenrecord(c) PROVE Films'
  BY <1>5 DEF SpawnScreenrecord, Goto, At, Captured, files
<1>6. ASSUME NEW c \in Connections, StartRecording(c) PROVE Films'
  <2>1. CASE UNCHANGED <<recorder, part>>
    BY <1>6, <2>1 DEF StartRecording, Goto, At, phone
  <2>2. CASE recorder' = [recorder EXCEPT ![c] = "open"] /\ part' = Opened(c)
    <3> SUFFICES ASSUME Without({"reconnect", "eager", "slowEnd", "crash"}) PROVE Films'
      BY <1>6 DEF StartRecording, phone
    <3>1. RunOf[c] \in Runs /\ recorder[c] = "none" /\ Holder(c)
      BY <1>6 DEF StartRecording, At
    <3>2. ASSUME NEW d \in Connections, RunOf[d] = RunOf[c], Filming(d) PROVE FALSE
      <4>1. d # c /\ Holder(d)
        BY <1>6, <3>2 DEF StartRecording, At
      <4>2. SerialOf[d] = SerialOf[c]
        BY <3>1, <3>2
      <4> QED
        BY <3>1, <4>1, <4>2
    <3>3. ASSUME NEW d \in part[RunOf[c]], recorder[d] \in {"open", "closing"} PROVE FALSE
      <4>1. d \in Connections /\ RunOf[d] = RunOf[c]
        BY <3>1, <3>3
      <4>2. ~Filming(d)
        BY <3>2, <4>1
      <4> QED
        BY <3>3, <4>1, <4>2
    <3>4. part' = [part EXCEPT ![RunOf[c]] = {c}]
      <4>1. {d \in part[RunOf[c]] : recorder[d] \in {"open", "closing"}} = {}
        BY <3>3
      <4>2. Opened(c) = [part EXCEPT ![RunOf[c]] =
               {d \in part[RunOf[c]] : recorder[d] \in {"open", "closing"}} \cup {c}]
        BY DEF Opened
      <4>3. {d \in part[RunOf[c]] : recorder[d] \in {"open", "closing"}} \cup {c} = {c}
        BY <4>1
      <4> QED
        BY <2>2, <4>2, <4>3
    <3>5. \A d \in Connections : d # c /\ Filming(d)' => Filming(d) /\ RunOf[d] # RunOf[c]
      BY <1>6, <3>2 DEF StartRecording, Goto, At
    <3>6. \A r \in Runs : OneFilm(r) => OneFilm(r)'
      BY <1>6, <2>2, <3>1 DEF StartRecording, phone
    <3>7. \A d \in Connections : d # c =>
             pc'[d] = pc[d] /\ recorder'[d] = recorder[d]
      BY <1>6, <2>2 DEF StartRecording, Goto
    <3>8. pc'[c] = "streaming" /\ recorder'[c] = "open" /\ part'[RunOf[c]] = {c}
      BY <1>6, <2>2, <3>1, <3>4 DEF StartRecording, Goto, At
    <3>9. \A d \in cancelled' : pc'[d] \notin CleaningUp
      BY <1>6 DEF StartRecording, Goto, At
    <3>10. ASSUME NEW d \in Connections, Filming(d)',
                  recorder'[d] \in {"open", "closing", "exited"}
           PROVE part'[RunOf[d]] = {d}
      <4>1. CASE d = c
        BY <3>8, <4>1
      <4>2. CASE d # c
        BY <3>4, <3>5, <3>7, <3>10, <4>2
      <4> QED
        BY <4>1, <4>2
    <3>11. ASSUME NEW d \in Connections, pc'[d] \in {"hangup", "gone", "aborted"}
           PROVE \/ recorder'[d] \in {"none", "failed"}
                 \/ recorder'[d] = "exited" /\ OneFilm(RunOf[d])'
      <4>1. d # c
        BY <3>8, <3>11
      <4>2. \/ recorder[d] \in {"none", "failed"}
            \/ recorder[d] = "exited" /\ OneFilm(RunOf[d])
        BY <3>7, <3>11, <4>1
      <4> QED
        BY <3>6, <3>7, <4>1, <4>2
    <3> HIDE DEF Filming, OneFilm
    <3> QED
      BY <3>7, <3>8, <3>9, <3>10, <3>11
  <2> QED
    BY <1>6, <2>1, <2>2 DEF StartRecording
<1>7. ASSUME NEW c \in Connections, StreamEnds(c) PROVE Films'
  BY <1>7 DEF StreamEnds, Goto, At, phone, files
<1>8. ASSUME NEW c \in Connections, ShotsEnd(c) PROVE Films'
  BY <1>8 DEF ShotsEnd, Goto, At, phone, files
<1>9. ASSUME NEW c \in Connections, Terminated(c) PROVE Films'
  BY <1>9 DEF Terminated, Goto, At, phone, files
<1>10. ASSUME NEW c \in Connections, Sweep(c) PROVE Films'
  BY <1>10 DEF Sweep, Goto, At, Swept
<1>10a. ASSUME NEW c \in Connections, SweepFails(c) PROVE Films'
  BY <1>10a DEF SweepFails, Goto, At
<1>11. ASSUME NEW c \in Connections, SaveRecording(c) PROVE Films'
  <2> SUFFICES ASSUME Without({"reconnect", "eager", "slowEnd", "crash"}) PROVE Films'
    BY <1>11 DEF SaveRecording, phone
  <2>1. RunOf[c] \in Runs /\ Holder(c) /\ Filming(c)
    BY <1>11 DEF SaveRecording, At
  <2>2. ASSUME NEW d \in Connections, RunOf[d] = RunOf[c], Filming(d), d # c PROVE FALSE
    <3>1. Holder(d) /\ SerialOf[d] = SerialOf[c]
      BY <2>1, <2>2
    <3> QED
      BY <2>1, <2>2, <3>1
  <2>3. recorder[c] = "exited" => final' = [final EXCEPT ![RunOf[c]] = {c}]
    <3>1. recorder[c] = "exited" => part[RunOf[c]] = {c}
      BY <2>1
    <3> QED
      BY <1>11, <3>1 DEF SaveRecording
  <2>4. recorder[c] # "exited" => final' = final
    BY <1>11 DEF SaveRecording
  <2>5. recorder' = recorder
    BY <1>11 DEF SaveRecording
  <2>6. \A r \in Runs : OneFilm(r) => OneFilm(r)'
    BY <2>1, <2>3, <2>4, <2>5
  <2>7. recorder[c] = "exited" => OneFilm(RunOf[c])'
    BY <2>1, <2>3, <2>5
  <2>8. \A d \in Connections : d # c => pc'[d] = pc[d]
    BY <1>11 DEF SaveRecording, Goto
  <2>9. pc'[c] = "hangup" /\ recorder[c] \in {"exited", "failed"} /\ cancelled' = cancelled
    BY <1>11 DEF SaveRecording, Goto, At
  <2>10. \A d \in Connections : d # c /\ Filming(d)' => part'[RunOf[d]] = part[RunOf[d]]
    BY <1>11, <2>1, <2>2, <2>8 DEF SaveRecording
  <2>11. \A d \in cancelled' : pc'[d] \notin CleaningUp
    BY <1>11 DEF SaveRecording, Goto, At
  <2>12. ASSUME NEW d \in Connections, Filming(d)',
                recorder'[d] \in {"open", "closing", "exited"}
         PROVE part'[RunOf[d]] = {d}
    <3>1. d # c
      BY <2>9, <2>12
    <3> QED
      BY <2>5, <2>8, <2>10, <2>12, <3>1
  <2>13. ASSUME NEW d \in Connections, pc'[d] \in {"hangup", "gone", "aborted"}
         PROVE \/ recorder'[d] \in {"none", "failed"}
               \/ recorder'[d] = "exited" /\ OneFilm(RunOf[d])'
    <3>1. CASE d = c
      BY <2>5, <2>7, <2>9, <3>1
    <3>2. CASE d # c
      <4>1. \/ recorder[d] \in {"none", "failed"}
            \/ recorder[d] = "exited" /\ OneFilm(RunOf[d])
        BY <2>8, <2>13, <3>2
      <4> QED
        BY <2>5, <2>6, <4>1
    <3> QED
      BY <3>1, <3>2
  <2> HIDE DEF Filming, OneFilm
  <2> QED
    BY <2>5, <2>8, <2>9, <2>11, <2>12, <2>13
<1>12. ASSUME NEW c \in Connections, GiveUpRecording(c) PROVE Films'
  BY <1>12 DEF GiveUpRecording, Goto, At, phone, files
<1>13. ASSUME NEW c \in Connections, HangUp(c) PROVE Films'
  BY <1>13 DEF HangUp, Goto, At, phone, files
<1>14. ASSUME NEW c \in Connections, InterruptSweep(c) PROVE Films'
  BY <1>14 DEF InterruptSweep, Goto, Interrupted, files
<1>15. ASSUME NEW c \in Connections, InterruptSpawn(c) PROVE Films'
  BY <1>15 DEF InterruptSpawn, Goto, Interrupted, Captured, files
<1>16. ASSUME NEW c \in Connections, InterruptOpen(c) PROVE Films'
  BY <1>16 DEF InterruptOpen, Goto, Interrupted, Opened, phone
<1>17. ASSUME NEW c \in Connections, InterruptStream(c) PROVE Films'
  BY <1>17 DEF InterruptStream, Goto, Interrupted, phone, files
<1>18. ASSUME NEW c \in Connections, InterruptRest(c) PROVE Films'
  BY <1>18 DEF InterruptRest, Goto, Interrupted, phone, files
<1>19. ASSUME NEW c \in Connections, InterruptHangUp(c) PROVE Films'
  BY <1>19 DEF InterruptHangUp, Goto, Interrupted, phone, files
<1>20. ASSUME NEW c \in Connections, RemoteDies(c) PROVE Films'
  BY <1>20 DEF RemoteDies, files
<1>21. ASSUME NEW c \in Connections, FfmpegEnds(c) PROVE Films'
  BY <1>21 DEF FfmpegEnds, phone
<1>22. ASSUME NEW s \in Devices, StraySweep(s) PROVE Films'
  BY <1>22 DEF StraySweep, Swept, files
<1>23. ASSUME Crash PROVE Films'
  BY <1>23 DEF Crash, phone
<1>24. ASSUME UNCHANGED vars PROVE Films'
  BY <1>24 DEF vars
<1> QED
  BY <1>1, <1>2, <1>3, <1>4, <1>4a, <1>5, <1>6, <1>7, <1>8, <1>9, <1>10, <1>10a, <1>11, <1>12, <1>13, <1>14, <1>15, <1>16, <1>17, <1>18, <1>19, <1>20, <1>21, <1>22, <1>23, <1>24
  DEF Next, TaskStep, ClientStep

\* No step names a file that an ffmpeg still writes.
LEMMA FinalIsFinishedKept == ScreenInv /\ [Next]_vars => FinalIsFinished'
<1> SUFFICES ASSUME ScreenInv, [Next]_vars PROVE FinalIsFinished'
  OBVIOUS
<1> USE LiveScreenAssumption, OneDevicePerRun
       DEF ScreenInv, TypeOK, LastHolds, Files, Films, FinalIsFinished,
           Holder, Filming, Without, Places, Live, Starting, Showing,
           CleaningUp, Over
<1>1. ASSUME NEW c \in Connections, ConnectFree(c) PROVE FinalIsFinished'
  BY <1>1 DEF ConnectFree, Goto, FirstPlace, HazardsOf, Waited, phone, files
<1>2. ASSUME NEW c \in Connections, ConnectOver(c) PROVE FinalIsFinished'
  BY <1>2 DEF ConnectOver, Goto, HazardsOf, Waited, phone, files
<1>3. ASSUME NEW c \in Connections, Wake(c) PROVE FinalIsFinished'
  BY <1>3 DEF Wake, Goto, FirstPlace, phone, files
<1>4. ASSUME NEW c \in Connections, Clear(c) PROVE FinalIsFinished'
  BY <1>4 DEF Clear, Goto, At, Swept, files
<1>4a. ASSUME NEW c \in Connections, ClearFails(c) PROVE FinalIsFinished'
  BY <1>4a DEF ClearFails, Goto, At, files
<1>5. ASSUME NEW c \in Connections, SpawnScreenrecord(c) PROVE FinalIsFinished'
  BY <1>5 DEF SpawnScreenrecord, Goto, At, Captured, files
<1>6. ASSUME NEW c \in Connections, StartRecording(c) PROVE FinalIsFinished'
  BY <1>6 DEF StartRecording, Goto, At, Opened, phone
<1>7. ASSUME NEW c \in Connections, StreamEnds(c) PROVE FinalIsFinished'
  BY <1>7 DEF StreamEnds, Goto, At, phone, files
<1>8. ASSUME NEW c \in Connections, ShotsEnd(c) PROVE FinalIsFinished'
  BY <1>8 DEF ShotsEnd, Goto, At, phone, files
<1>9. ASSUME NEW c \in Connections, Terminated(c) PROVE FinalIsFinished'
  BY <1>9 DEF Terminated, Goto, At, phone, files
<1>10. ASSUME NEW c \in Connections, Sweep(c) PROVE FinalIsFinished'
  BY <1>10 DEF Sweep, Goto, At, Swept
<1>10a. ASSUME NEW c \in Connections, SweepFails(c) PROVE FinalIsFinished'
  BY <1>10a DEF SweepFails, Goto, At
<1>11. ASSUME NEW c \in Connections, SaveRecording(c) PROVE FinalIsFinished'
  BY <1>11 DEF SaveRecording, Goto, At, phone
<1>12. ASSUME NEW c \in Connections, GiveUpRecording(c) PROVE FinalIsFinished'
  BY <1>12 DEF GiveUpRecording, Goto, At, phone, files
<1>13. ASSUME NEW c \in Connections, HangUp(c) PROVE FinalIsFinished'
  BY <1>13 DEF HangUp, Goto, At, phone, files
<1>14. ASSUME NEW c \in Connections, InterruptSweep(c) PROVE FinalIsFinished'
  BY <1>14 DEF InterruptSweep, Goto, Interrupted, files
<1>15. ASSUME NEW c \in Connections, InterruptSpawn(c) PROVE FinalIsFinished'
  BY <1>15 DEF InterruptSpawn, Goto, Interrupted, Captured, files
<1>16. ASSUME NEW c \in Connections, InterruptOpen(c) PROVE FinalIsFinished'
  BY <1>16 DEF InterruptOpen, Goto, Interrupted, Opened, phone
<1>17. ASSUME NEW c \in Connections, InterruptStream(c) PROVE FinalIsFinished'
  BY <1>17 DEF InterruptStream, Goto, Interrupted, phone, files
<1>18. ASSUME NEW c \in Connections, InterruptRest(c) PROVE FinalIsFinished'
  BY <1>18 DEF InterruptRest, Goto, Interrupted, phone, files
<1>19. ASSUME NEW c \in Connections, InterruptHangUp(c) PROVE FinalIsFinished'
  BY <1>19 DEF InterruptHangUp, Goto, Interrupted, phone, files
<1>20. ASSUME NEW c \in Connections, RemoteDies(c) PROVE FinalIsFinished'
  BY <1>20 DEF RemoteDies, files
<1>21. ASSUME NEW c \in Connections, FfmpegEnds(c) PROVE FinalIsFinished'
  BY <1>21 DEF FfmpegEnds, phone
<1>22. ASSUME NEW s \in Devices, StraySweep(s) PROVE FinalIsFinished'
  BY <1>22 DEF StraySweep, Swept, files
<1>23. ASSUME Crash PROVE FinalIsFinished'
  BY <1>23 DEF Crash, phone
<1>24. ASSUME UNCHANGED vars PROVE FinalIsFinished'
  BY <1>24 DEF vars
<1> QED
  BY <1>1, <1>2, <1>3, <1>4, <1>4a, <1>5, <1>6, <1>7, <1>8, <1>9, <1>10, <1>10a, <1>11, <1>12, <1>13, <1>14, <1>15, <1>16, <1>17, <1>18, <1>19, <1>20, <1>21, <1>22, <1>23, <1>24
  DEF Next, TaskStep, ClientStep

-------------------------------------------------------------------------------
\* At the start nobody streams and no file exists.
LEMMA InitScreenInv == Init => ScreenInv
<1> SUFFICES ASSUME Init PROVE ScreenInv
  OBVIOUS
<1> USE LiveScreenAssumption DEF Init, Live, Starting, Showing, CleaningUp, Over, Places
<1>1. TypeOK /\ Order
  BY DEF TypeOK, Order
<1>2. LastHolds /\ SlotFree /\ NoLeftover
  BY DEF LastHolds, SlotFree, NoLeftover, Holder
<1>3. Files /\ Films /\ FinalIsFinished
  BY DEF Files, Films, Filming, FinalIsFinished
<1> QED
  BY <1>1, <1>2, <1>3 DEF ScreenInv

\* The invariant of the live-screen server: who is registered, who holds the
\* phone and how far each film has come fit together.
THEOREM ScreenInvariant == Spec => []ScreenInv
<1>1. ScreenInv /\ [Next]_vars => ScreenInv'
  BY TypeOKKept, OrderKept, LastHoldsKept, SlotFreeKept, NoLeftoverKept, FilesKept,
     FilmsKept, FinalIsFinishedKept DEF ScreenInv
<1> QED
  BY InitScreenInv, <1>1, PTL DEF Spec

\* The server's tables, tasks and files keep their shapes.
THEOREM TypeCorrect == Spec => []TypeOK
<1>1. ScreenInv => TypeOK
  BY DEF ScreenInv
<1> QED
  BY ScreenInvariant, <1>1, PTL

\* handler lets one task at a time hold a device, as long as nobody connects
\* while another connection waits.
THEOREM OneStream == Spec => []OneStreamIfNotEager
<1>1. ScreenInv => OneStreamIfNotEager
  BY DEF ScreenInv, LastHolds, OneStreamIfNotEager, OneStreamPerDevice
<1> QED
  BY ScreenInvariant, <1>1, PTL

\* As long as nobody connects while another waits and no sweep before a stream
\* has failed, every screenrecord gets the phone's capture slot, even after
\* crashes, interrupted clean-ups and sweeps that failed after a stream.
THEOREM SlotIsFree == Spec => []NobodyStarved
<1>1. ScreenInv => NobodyStarved
  BY DEF ScreenInv, SlotFree, NobodyStarved
<1> QED
  BY ScreenInvariant, <1>1, PTL

\* A connection that was not cancelled while starting or cleaning up leaves no
\* screenrecord on the phone, as long as no sweep after a stream has failed.
THEOREM PhoneIsLeftClean == Spec => []NoOrphan
<1>1. ScreenInv => NoOrphan
  BY DEF ScreenInv, NoLeftover, NoOrphan
<1> QED
  BY ScreenInvariant, <1>1, PTL

\* Nobody reads a recording that an ffmpeg still writes, as long as clean-ups
\* are not cut short.
THEOREM FinalFilms == Spec => []FinalIsFinished
<1>1. ScreenInv => FinalIsFinished
  BY DEF ScreenInv
<1> QED
  BY ScreenInvariant, <1>1, PTL

\* Once a connection that filmed is gone, <run>.mp4 is one whole film of that
\* run, as long as clean-ups are not cut short.
THEOREM FilmsAreKept == Spec => []RecordingKept
<1>1. ScreenInv => RecordingKept
  BY DEF ScreenInv, Films, RecordingKept
<1> QED
  BY ScreenInvariant, <1>1, PTL
=============================================================================
