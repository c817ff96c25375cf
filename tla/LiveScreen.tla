----------------------------- MODULE LiveScreen -----------------------------
(***************************************************************************)
(* The live-screen server: one asyncio task per websocket connection, each *)
(* of which streams the screen of one device and may film it for a run.    *)
(* An action is what a task does from one await to the next; cancel() only *)
(* sets a flag, and the task is thrown out of the await it is in when it   *)
(* next runs.                                                              *)
(***************************************************************************)
EXTENDS Naturals

CONSTANTS
  Connections,  \* websocket connections; each connects once
  Devices,      \* serials
  Runs,         \* runs a connection may film
  SerialOf,     \* the device in a connection's path
  RunOf,        \* its run_id, NoRun when the query has none
  Screenshots,  \* the connections with mode=screenshot
  NoConnection, NoRun

ASSUME LiveScreenAssumption ==
  /\ NoConnection \notin Connections
  /\ NoRun \notin Runs
  /\ SerialOf \in [Connections -> Devices]
  /\ RunOf \in [Connections -> Runs \cup {NoRun}]
  /\ Screenshots \subseteq Connections

\* The pages pass a run together with its own device.
ASSUME OneDevicePerRun ==
  \A c, d \in Connections :
    RunOf[c] = RunOf[d] /\ RunOf[c] # NoRun => SerialOf[c] = SerialOf[d]

VARIABLES
  active,     \* _active_tasks: the connection last registered for a serial
  pc,         \* the await each task is in
  waits,      \* the task a waiting one awaits
  cancelled,  \* cancel() was called and has not been delivered
  remote,     \* the screenrecord a connection left on its phone
  recorder,   \* its ffmpeg
  part,       \* per run, the ffmpegs that opened <run>.mp4.part; {}: no file
  final,      \* per run, those that opened what is now <run>.mp4
  stray,      \* devices with a pkill nobody waits for any more
  met         \* the hazards met so far, see HazardKinds

vars == <<active, pc, waits, cancelled, remote, recorder, part, final, stray, met>>

Starting == {"clearing", "spawning", "opening"}
Showing == {"streaming", "shots"}
CleaningUp == {"terminating", "sweeping", "saving", "hangup"}
Over == {"gone", "aborted", "crashed"}
Places == {"away", "waiting"} \cup Starting \cup Showing \cup CleaningUp \cup Over

\* A task that _active_tasks or a waiter may hold and that is not done().
Live(c) == pc[c] \notin Over \cup {"away"}

\* A task that has taken its device and not let go of it.
Holder(c) == Live(c) /\ pc[c] # "waiting"

(***************************************************************************)
(* What may befall a task; each promise below names those it rests on.     *)
(*   early      a connection cancels one that is still starting            *)
(*   reconnect  a connection cancels one that is cleaning up               *)
(*   eager      a connection comes while another waits for the device      *)
(*   slowEnd    an ffmpeg needs more than 10 seconds to finish its file    *)
(*   clearFails, sweepFails   the pkill before a stream, or after it, fails *)
(*              or takes more than 5 seconds                               *)
(*   crash      the server is killed                                       *)
(***************************************************************************)
HazardKinds ==
  {"early", "reconnect", "eager", "slowEnd", "clearFails", "sweepFails", "crash"}

Init ==
  /\ active = [s \in Devices |-> NoConnection]
  /\ pc = [c \in Connections |-> "away"]
  /\ waits = [c \in Connections |-> NoConnection]
  /\ cancelled = {}
  /\ remote = [c \in Connections |-> "none"]
  /\ recorder = [c \in Connections |-> "none"]
  /\ part = [r \in Runs |-> {}]
  /\ final = [r \in Runs |-> {}]
  /\ stray = {}
  /\ met = {}

Goto(c, place) == pc' = [pc EXCEPT ![c] = place]

\* A task that nobody has cancelled goes on from `place'.
At(c, place) == pc[c] = place /\ c \notin cancelled

phone == <<remote, stray>>
files == <<recorder, part, final>>

-------------------------------------------------------------------------------
(* handler: the newest connection of a device takes it over. *)

FirstPlace(c) == IF c \in Screenshots THEN "shots" ELSE "clearing"

Waited(s) == \E c \in Connections : pc[c] = "waiting" /\ SerialOf[c] = s

HazardsOf(c) ==
  LET previous == active[SerialOf[c]] IN
  {h \in {"early"} : previous # NoConnection /\ pc[previous] \in Starting}
    \cup {h \in {"reconnect"} : previous # NoConnection /\ pc[previous] \in CleaningUp}
    \cup {h \in {"eager"} : Waited(SerialOf[c])}

ConnectFree(c) ==
  /\ pc[c] = "away"
  /\ active[SerialOf[c]] # NoConnection => ~Live(active[SerialOf[c]])
  /\ active' = [active EXCEPT ![SerialOf[c]] = c]
  /\ met' = met \cup HazardsOf(c)
  /\ Goto(c, FirstPlace(c))
  /\ UNCHANGED <<waits, cancelled, phone, files>>

\* Mutant: the task before is cancelled but not awaited.
ConnectAtOnce(c) ==
  LET previous == active[SerialOf[c]] IN
  /\ pc[c] = "away"
  /\ previous # NoConnection /\ Live(previous)
  /\ cancelled' = cancelled \cup {previous}
  /\ active' = [active EXCEPT ![SerialOf[c]] = c]
  /\ met' = met \cup HazardsOf(c)
  /\ Goto(c, FirstPlace(c))
  /\ UNCHANGED <<waits, phone, files>>

\* Mutant: the task before is awaited but not cancelled.
ConnectPolitely(c) ==
  LET previous == active[SerialOf[c]] IN
  /\ pc[c] = "away"
  /\ previous # NoConnection /\ Live(previous)
  /\ waits' = [waits EXCEPT ![c] = previous]
  /\ met' = met \cup HazardsOf(c)
  /\ Goto(c, "waiting")
  /\ UNCHANGED <<active, cancelled, phone, files>>

ConnectOver(c) ==
  LET previous == active[SerialOf[c]] IN
  /\ pc[c] = "away"
  /\ previous # NoConnection /\ Live(previous)
  /\ cancelled' = cancelled \cup {previous}
  /\ waits' = [waits EXCEPT ![c] = previous]
  /\ met' = met \cup HazardsOf(c)
  /\ Goto(c, "waiting")
  /\ UNCHANGED <<active, phone, files>>

\* The awaited task is done.  The device is taken without looking at
\* _active_tasks again.  A task that ended cancelled raises CancelledError in
\* its waiter, which `except Exception' does not catch.
Wake(c) ==
  /\ pc[c] = "waiting"
  /\ pc[waits[c]] \in Over
  /\ IF pc[waits[c]] = "aborted"
     THEN Goto(c, "aborted") /\ UNCHANGED active
     ELSE /\ Goto(c, FirstPlace(c))
          /\ active' = [active EXCEPT ![SerialOf[c]] = c]
  /\ UNCHANGED <<waits, cancelled, phone, files, met>>

-------------------------------------------------------------------------------
(* _h264_stream up to its loop *)

\* pkill -f screenrecord: every screenrecord on the phone dies.
Swept(s) == [d \in Connections |-> IF SerialOf[d] = s THEN "none" ELSE remote[d]]

\* The phone gives its one capture slot to the first screenrecord that asks;
\* another one runs without output.
Captured(c) ==
  IF \E d \in Connections : SerialOf[d] = SerialOf[c] /\ remote[d] = "capturing"
  THEN "starved" ELSE "capturing"

Clear(c) ==
  /\ At(c, "clearing")
  /\ remote' = Swept(SerialOf[c])
  /\ Goto(c, "spawning")
  /\ UNCHANGED <<active, waits, cancelled, stray, files, met>>

\* _kill_stale_screenrecord swallows a pkill that fails, and one that is late,
\* which goes on by itself: the stream starts on a phone that was not swept.
ClearFails(c) ==
  /\ At(c, "clearing")
  /\ stray' \in {stray, stray \cup {SerialOf[c]}}
  /\ met' = met \cup {"clearFails"}
  /\ Goto(c, "spawning")
  /\ UNCHANGED <<active, waits, cancelled, remote, files>>

SpawnScreenrecord(c) ==
  /\ At(c, "spawning")
  /\ remote' = [remote EXCEPT ![c] = Captured(c)]
  /\ Goto(c, IF RunOf[c] = NoRun THEN "streaming" ELSE "opening")
  /\ UNCHANGED <<active, waits, cancelled, stray, files, met>>

\* ffmpeg -y truncates a .part that is there and goes on in the same file, in
\* which an ffmpeg that still runs goes on writing.
Opened(c) ==
  [part EXCEPT ![RunOf[c]] = {d \in @ : recorder[d] \in {"open", "closing"}} \cup {c}]

\* Without an ffmpeg on the PATH nothing is filmed.
StartRecording(c) ==
  /\ At(c, "opening")
  /\ \/ /\ recorder' = [recorder EXCEPT ![c] = "open"]
        /\ part' = Opened(c)
     \/ UNCHANGED <<recorder, part>>
  /\ Goto(c, "streaming")
  /\ UNCHANGED <<active, waits, cancelled, phone, final, met>>

-------------------------------------------------------------------------------
(* The loop ends: screenrecord's output ends, the client is gone, which only *)
(* a send finds out, or ffmpeg has closed its pipe.                          *)

StreamEnds(c) ==
  /\ At(c, "streaming")
  /\ remote[c] # "starved"
  /\ Goto(c, "terminating")
  /\ UNCHANGED <<active, waits, cancelled, phone, files, met>>

ShotsEnd(c) ==
  /\ At(c, "shots")
  /\ Goto(c, "hangup")
  /\ UNCHANGED <<active, waits, cancelled, phone, files, met>>

-------------------------------------------------------------------------------
(* The finally of _h264_stream, and the close of the websocket *)

\* Mutant: terminating the local adb is trusted to end the screenrecord.
TerminatedForGood(c) ==
  /\ At(c, "terminating")
  /\ recorder' = [recorder EXCEPT ![c] = IF @ = "open" THEN "closing" ELSE @]
  /\ Goto(c, IF recorder[c] = "none" THEN "hangup" ELSE "saving")
  /\ UNCHANGED <<active, waits, cancelled, phone, part, final, met>>

\* The local adb is gone; whether the phone's screenrecord is, is another
\* matter (RemoteDies).
Terminated(c) ==
  /\ At(c, "terminating")
  /\ Goto(c, "sweeping")
  /\ UNCHANGED <<active, waits, cancelled, phone, files, met>>

\* The sweep is over, and _stop_recording closes ffmpeg's stdin.
Sweep(c) ==
  /\ At(c, "sweeping")
  /\ remote' = Swept(SerialOf[c])
  /\ recorder' = [recorder EXCEPT ![c] = IF @ = "open" THEN "closing" ELSE @]
  /\ Goto(c, IF recorder[c] = "none" THEN "hangup" ELSE "saving")
  /\ UNCHANGED <<active, waits, cancelled, stray, part, final, met>>

\* The same after a sweep that failed or was late.
SweepFails(c) ==
  /\ At(c, "sweeping")
  /\ stray' \in {stray, stray \cup {SerialOf[c]}}
  /\ met' = met \cup {"sweepFails"}
  /\ recorder' = [recorder EXCEPT ![c] = IF @ = "open" THEN "closing" ELSE @]
  /\ Goto(c, IF recorder[c] = "none" THEN "hangup" ELSE "saving")
  /\ UNCHANGED <<active, waits, cancelled, remote, part, final>>

\* _stop_recording: only a film that ffmpeg finished gets its final name.
SaveRecording(c) ==
  /\ At(c, "saving")
  /\ recorder[c] \in {"exited", "failed"}
  /\ IF recorder[c] = "exited" /\ part[RunOf[c]] # {}
     THEN final' = [final EXCEPT ![RunOf[c]] = part[RunOf[c]]]
     ELSE UNCHANGED final
  /\ part' = [part EXCEPT ![RunOf[c]] = {}]
  /\ Goto(c, "hangup")
  /\ UNCHANGED <<active, waits, cancelled, phone, recorder, met>>

\* wait_for gives ffmpeg ten seconds; it goes on without us.
GiveUpRecording(c) ==
  /\ At(c, "saving")
  /\ recorder[c] = "closing"
  /\ met' = met \cup {"slowEnd"}
  /\ Goto(c, "hangup")
  /\ UNCHANGED <<active, waits, cancelled, phone, files>>

HangUp(c) ==
  /\ At(c, "hangup")
  /\ Goto(c, "gone")
  /\ UNCHANGED <<active, waits, cancelled, phone, files, met>>

-------------------------------------------------------------------------------
(* CancelledError in each of these awaits.  `except Exception' lets it pass; *)
(* handler swallows it; websockets, which closes the connection after the    *)
(* handler, does not.                                                        *)

Interrupted(c, place) ==
  /\ c \in cancelled
  /\ cancelled' = cancelled \ {c}
  /\ Goto(c, place)
  /\ UNCHANGED <<active, waits, met>>

\* The pkill that was awaited goes on by itself, if it has not ended.
InterruptSweep(c) ==
  /\ pc[c] \in {"clearing", "sweeping"}
  /\ Interrupted(c, "hangup")
  /\ stray' \in {stray, stray \cup {SerialOf[c]}}
  /\ UNCHANGED <<remote, files>>

\* asyncio kills the local process it was creating; the phone may have begun.
InterruptSpawn(c) ==
  /\ pc[c] = "spawning"
  /\ Interrupted(c, "hangup")
  /\ \/ remote' = [remote EXCEPT ![c] = Captured(c)]
     \/ UNCHANGED remote
  /\ UNCHANGED <<stray, files>>

\* Before the try: the screenrecord is nobody's, the new ffmpeg is killed.
InterruptOpen(c) ==
  /\ pc[c] = "opening"
  /\ Interrupted(c, "hangup")
  /\ \/ /\ recorder' = [recorder EXCEPT ![c] = "failed"]
        /\ part' = Opened(c)
     \/ UNCHANGED <<recorder, part>>
  /\ UNCHANGED <<phone, final>>

\* Mutant: the cancellation bypasses the finally.
InterruptStreamForGood(c) ==
  /\ pc[c] = "streaming"
  /\ Interrupted(c, "hangup")
  /\ UNCHANGED <<phone, files>>

InterruptStream(c) ==
  /\ pc[c] = "streaming"
  /\ Interrupted(c, "terminating")
  /\ UNCHANGED <<phone, files>>

\* What the finally had left to do is not done.
InterruptRest(c) ==
  /\ pc[c] \in {"shots", "terminating", "saving"}
  /\ Interrupted(c, "hangup")
  /\ UNCHANGED <<phone, files>>

InterruptHangUp(c) ==
  /\ pc[c] = "hangup"
  /\ Interrupted(c, "aborted")
  /\ UNCHANGED <<phone, files>>

-------------------------------------------------------------------------------
(* Around the server *)

\* The phone's screenrecord dies of the local adb's end, of an unplugged cable
\* or by itself.
RemoteDies(c) ==
  /\ remote[c] # "none"
  /\ remote' = [remote EXCEPT ![c] = "none"]
  /\ UNCHANGED <<active, pc, waits, cancelled, files, stray, met>>

StraySweep(s) ==
  /\ s \in stray
  /\ remote' = Swept(s)
  /\ stray' = stray \ {s}
  /\ UNCHANGED <<active, pc, waits, cancelled, files, met>>

\* An ffmpeg whose stdin is closed finishes its file or fails; an open one may
\* only fail.
FfmpegEnds(c) ==
  /\ \/ recorder[c] = "closing" /\ recorder' = [recorder EXCEPT ![c] = "exited"]
     \/ /\ recorder[c] \in {"open", "closing"}
        /\ recorder' = [recorder EXCEPT ![c] = "failed"]
  /\ UNCHANGED <<active, pc, waits, cancelled, phone, part, final, met>>

\* The server is killed and started again.  Its ffmpegs read an end of file.
Crash ==
  /\ \E c \in Connections : Live(c)
  /\ active' = [s \in Devices |-> NoConnection]
  /\ pc' = [c \in Connections |-> IF Live(c) THEN "crashed" ELSE pc[c]]
  /\ cancelled' = {}
  /\ recorder' = [c \in Connections |->
                    IF recorder[c] = "open" THEN "closing" ELSE recorder[c]]
  /\ met' = met \cup {"crash"}
  /\ UNCHANGED <<waits, phone, part, final>>

-------------------------------------------------------------------------------
\* What a task does without waiting for its client.
TaskStep(c) ==
  \/ Wake(c) \/ Clear(c) \/ ClearFails(c) \/ SpawnScreenrecord(c) \/ StartRecording(c)
  \/ Terminated(c) \/ Sweep(c) \/ SweepFails(c)
  \/ SaveRecording(c) \/ GiveUpRecording(c) \/ HangUp(c)
  \/ InterruptSweep(c) \/ InterruptSpawn(c) \/ InterruptOpen(c)
  \/ InterruptStream(c) \/ InterruptRest(c) \/ InterruptHangUp(c)

ClientStep(c) == ConnectFree(c) \/ ConnectOver(c) \/ StreamEnds(c) \/ ShotsEnd(c)

Next ==
  \/ \E c \in Connections : TaskStep(c) \/ ClientStep(c) \/ RemoteDies(c) \/ FfmpegEnds(c)
  \/ \E s \in Devices : StraySweep(s)
  \/ Crash

Spec == Init /\ [][Next]_vars

\* Each await of a task but the one on its stream has a timeout (5 and 10
\* seconds, websockets' close_timeout) or ends with a local process.
FairSpec == Spec /\ \A c \in Connections : WF_vars(TaskStep(c))

-------------------------------------------------------------------------------
(* Properties *)

\* Types; and cancel() is pending only for a task that is not done().
TypeOK ==
  /\ active \in [Devices -> Connections \cup {NoConnection}]
  /\ pc \in [Connections -> Places]
  /\ waits \in [Connections -> Connections \cup {NoConnection}]
  /\ cancelled \subseteq {c \in Connections : Live(c)}
  /\ remote \in [Connections -> {"none", "capturing", "starved"}]
  /\ recorder \in [Connections -> {"none", "open", "closing", "exited", "failed"}]
  /\ part \in [Runs -> SUBSET Connections]
  /\ final \in [Runs -> SUBSET Connections]
  /\ stray \subseteq Devices
  /\ met \subseteq HazardKinds

Without(hazards) == met \cap hazards = {}

\* "One active stream per device at a time (last-connect-wins)".
OneStreamPerDevice ==
  \A c, d \in Connections :
    Holder(c) /\ Holder(d) /\ SerialOf[c] = SerialOf[d] => c = d

\* That promise rests on nobody connecting while another one waits.
OneStreamIfNotEager == Without({"eager"}) => OneStreamPerDevice

\* A stream gets the phone's capture slot, whatever was left behind on the
\* phone: the sweep before the start ("so the next stream attempt gets zero
\* output" without it).  That sweep has to succeed: the server does not look.
NobodyStarved ==
  Without({"eager", "clearFails"}) => \A c \in Connections : remote[c] # "starved"

\* A connection that is over leaves no screenrecord on the phone ("this
\* session's own remote process doesn't become the next orphan"), unless it
\* was cancelled outside its stream or its own sweep failed.
NoOrphan ==
  Without({"early", "reconnect", "sweepFails"}) =>
    \A c \in Connections : pc[c] \in {"gone", "aborted"} => remote[c] = "none"

\* A reader of <run>.mp4 "can never see a partially-written file": no ffmpeg
\* that opened it still runs.
FinalIsFinished ==
  Without({"reconnect", "eager", "slowEnd", "crash"}) =>
    \A r \in Runs : \A c \in final[r] : recorder[c] \notin {"open", "closing"}

\* <run>.mp4 is one whole film, of one connection.
OneFilm(r) ==
  \E d \in Connections : RunOf[d] = r /\ recorder[d] = "exited" /\ final[r] = {d}

\* What was filmed can be replayed: once a connection whose ffmpeg did not fail
\* is gone, <run>.mp4 is one whole film and of that run.  It is the
\* connection's own if no other one filmed the run: the film of a second
\* connection replaces the first one's.
RecordingKept ==
  Without({"reconnect", "eager", "slowEnd", "crash"}) =>
    \A c \in Connections :
      pc[c] = "gone" =>
        \/ recorder[c] \in {"none", "failed"}
        \/ recorder[c] = "exited" /\ OneFilm(RunOf[c])

\* "last-connect-wins": a connection that waits for the one before it gets to
\* show the screen.
LastConnectShows ==
  \A c \in Connections :
    pc[c] = "waiting" ~> \/ pc[c] \in Showing
                         \/ ~Without({"early", "reconnect", "crash"})
=============================================================================
