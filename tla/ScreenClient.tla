---- MODULE ScreenClient ----
(***************************************************************************
 One screen preview from the phone's encoder to the canvas: the Annex-B splitter
 and access unit assembler of screen_stream.py, which the live screen server
 feeds, and the browser's side of the connection, useDeviceScreen.js, with its
 decoder, its fallback to screenshots, its timers and its reconnection.

 A NAL is its type; of its bytes only this is kept, whether all of them have come.
 ***************************************************************************)
EXTENDS Integers, Sequences

CONSTANTS
  Phones, TVs,  \* the serials a viewer may watch
  MaxCalls,     \* bound: calls of connect and disconnect
  MaxFaults,    \* bound: connections lost, writes cut in two
  None          \* null in the browser, an empty buffer on the server

\* A connection that is wanted, a socket, a NAL, an access unit.
Wishes == [serial : Phones \cup TVs, screenshot : BOOLEAN]
Sockets == [mode : {"h264", "screenshot"}, open : BOOLEAN]
Nals == [nal : {"SPS", "PPS", "IDR", "P"}, whole : BOOLEAN]
Units == [key : BOOLEAN, good : BOOLEAN]

ASSUME ClientAssumption ==
  /\ None \notin Wishes /\ None \notin Sockets /\ None \notin Nals
  /\ MaxCalls \in Nat /\ MaxFaults \in Nat

VARIABLES
  \* useDeviceScreen.js
  webCodecs,  \* the browser has a VideoDecoder
  desired,    \* desiredConnection: [serial, screenshot], or None
  gen,        \* connectGeneration
  asking,     \* connects that wait for isTvDevice: [gen, serial]
  socket,     \* the socket: [mode, serial, open], or None
  leaked,     \* a socket is open that nothing refers to
  configured, \* the decoder has been configured
  gotFrame,   \* gotFirstFrame
  firstTimer, \* the first frame timer is armed
  reTimer,    \* reconnectTimer: "null", "armed", or not null and never to fire: "cleared", "fired"
  view,       \* connectionState
  \* the stream behind an h264 socket
  written,    \* how many NALs of the script the encoder has begun
  cut,        \* the last of them is not all written
  buffer,     \* the splitter's: the NAL it holds, [nal, whole], or None
  params,     \* _pending_params
  units,      \* access units on their way to the browser: [key, good]
  faults

clientVars == <<webCodecs, desired, gen, asking, socket, leaked, configured, gotFrame, firstTimer, reTimer, view,
                written, cut, buffer, params, units, faults>>
streamVars == <<written, cut, buffer, params, units>>

\* What screenrecord writes: one picture, and another when the screen changes.
Script == <<"SPS", "PPS", "IDR", "P">>

BrowserTypeOK ==
  /\ desired \in {None} \cup Wishes /\ socket \in {None} \cup Sockets
  /\ gen \in 0 .. MaxCalls /\ asking \subseteq [gen : 1 .. MaxCalls, serial : Phones \cup TVs]
  /\ {webCodecs, leaked, configured, gotFrame, firstTimer} \subseteq BOOLEAN
  /\ reTimer \in {"null", "armed", "cleared", "fired"}
  /\ view \in {"idle", "connecting", "streaming", "fallback", "retrying"}

StreamTypeOK ==
  /\ written \in 0 .. Len(Script) /\ cut \in BOOLEAN
  /\ buffer \in {None} \cup Nals /\ params \in Seq(Nals) /\ units \in Seq(Units)

ScreenTypeOK == BrowserTypeOK /\ StreamTypeOK /\ faults \in 0 .. MaxFaults

ScreenInit ==
  /\ webCodecs \in BOOLEAN
  /\ desired = None /\ gen = 0 /\ asking = {} /\ socket = None /\ leaked = FALSE
  /\ configured = FALSE /\ gotFrame = FALSE /\ firstTimer = FALSE /\ reTimer = "null" /\ view = "idle"
  /\ written = 0 /\ cut = FALSE /\ buffer = None /\ params = <<>> /\ units = <<>> /\ faults = 0

Fault == faults < MaxFaults /\ faults' = faults + 1

----
\* Encoder, splitter and assembler

Streaming == socket # None /\ socket.open /\ socket.mode = "h264"

\* AccessUnitAssembler.feed: parameter sets wait for the IDR, in order; other pictures go alone.
Assemble(n) ==
  CASE n.nal \in {"SPS", "PPS"} -> params' = Append(params, n) /\ UNCHANGED units
    [] n.nal = "IDR" ->
         /\ units' = Append(units, [key |-> TRUE, good |-> n.whole /\
                                     \A p \in {"SPS", "PPS"} : \E i \in DOMAIN params :
                                       params[i] = [nal |-> p, whole |-> TRUE]])
         /\ params' = <<>>
    [] n.nal = "P" -> units' = Append(units, [key |-> FALSE, good |-> n.whole]) /\ UNCHANGED params

\* AnnexBSplitter.feed of a chunk that begins a NAL: its start code ends the one in the buffer.
Write(whole) ==
  /\ Streaming /\ ~cut /\ written < Len(Script)
  /\ IF whole THEN UNCHANGED faults ELSE Fault
  /\ written' = written + 1 /\ cut' = ~whole
  /\ IF buffer = None THEN UNCHANGED <<params, units>> ELSE Assemble(buffer)
  /\ buffer' = [nal |-> Script[written + 1], whole |-> whole]
  /\ UNCHANGED <<desired, gen, asking, socket, leaked, configured, gotFrame, firstTimer, reTimer, view>>

\* The rest of a NAL: bytes with no start code before them are dropped, when the start has been
\* flushed.
WriteRest ==
  /\ Streaming /\ cut
  /\ cut' = FALSE
  /\ buffer' = IF buffer = None THEN None ELSE [buffer EXCEPT !.whole = TRUE]
  /\ UNCHANGED <<desired, gen, asking, socket, leaked, configured, gotFrame, firstTimer, reTimer, view,
                 written, params, units, faults>>

\* Mutant: there is no flush.
FlushReadyNever == FALSE

FlushReady == Streaming /\ buffer # None

\* AnnexBSplitter.flush, when the stream has been quiet for IDLE_FLUSH_SECONDS.
Flush ==
  /\ FlushReady
  /\ Assemble(buffer) /\ buffer' = None
  /\ UNCHANGED <<desired, gen, asking, socket, leaked, configured, gotFrame, firstTimer, reTimer, view,
                 written, cut, faults>>

----
\* useDeviceScreen.js

\* stopEverything, where a new socket or none takes the place of the old one, which is closed.
\* It clears the timers; reconnectTimer keeps the number of the one it cleared.
StopTimers ==
  /\ firstTimer' = FALSE
  /\ reTimer' = IF reTimer = "armed" THEN "cleared" ELSE reTimer

NewStream == written' = 0 /\ cut' = FALSE /\ buffer' = None /\ params' = <<>> /\ units' = <<>>

StopEverything == StopTimers /\ socket' = None /\ configured' = FALSE /\ NewStream

StartFallback ==
  /\ StopTimers /\ NewStream
  /\ socket' = [mode |-> "screenshot", open |-> TRUE]
  /\ configured' = FALSE /\ view' = "fallback"
  /\ UNCHANGED <<gotFrame, leaked>>

\* startH264 stops nothing: a socket still open would be lost.
StartH264 ==
  /\ leaked' = (leaked \/ (socket # None /\ socket.open))
  /\ socket' = [mode |-> "h264", open |-> TRUE]
  /\ configured' = FALSE /\ gotFrame' = FALSE /\ firstTimer' = TRUE /\ view' = "connecting"
  /\ NewStream

\* scheduleReconnect: only while a connection is wanted and no timer is set.
ScheduleReconnect ==
  IF desired # None /\ reTimer = "null"
    THEN /\ socket' = None /\ configured' = FALSE /\ firstTimer' = FALSE /\ NewStream
         /\ reTimer' = "armed" /\ view' = "retrying"
         /\ UNCHANGED <<gotFrame, leaked>>
    ELSE /\ socket' = [socket EXCEPT !.open = FALSE]
         /\ UNCHANGED <<configured, firstTimer, reTimer, view, gotFrame, leaked, streamVars>>

\* connect, to its await.
Connect(s) ==
  /\ gen < MaxCalls /\ gen' = gen + 1
  /\ desired' = [serial |-> s, screenshot |-> FALSE]
  /\ asking' = asking \cup {[gen |-> gen + 1, serial |-> s]}
  /\ StopEverything
  /\ UNCHANGED <<leaked, gotFrame, view, faults>>

\* Mutant: a connect goes on as long as a connection is wanted at all.
StaleWanted(q) == desired = None

\* Another connect, or disconnect, has been called in the meantime.
Stale(q) == q.gen # gen \/ desired = None

\* isTvDevice answers (false when it cannot tell), and connect goes on: a TV is shown as screenshots,
\* and so is a phone in a browser that cannot decode.
Answered(q, tv) ==
  /\ q \in asking /\ asking' = asking \ {q}
  /\ tv => q.serial \in TVs
  /\ IF Stale(q)
       THEN UNCHANGED <<desired, socket, leaked, configured, gotFrame, firstTimer, reTimer, view, streamVars>>
       ELSE /\ desired' = [desired EXCEPT !.screenshot = tv]
            /\ IF tv \/ ~webCodecs THEN StartFallback ELSE StartH264 /\ UNCHANGED reTimer
  /\ UNCHANGED <<gen, faults>>

Disconnect ==
  /\ gen < MaxCalls /\ gen' = gen + 1 /\ gen > 0
  /\ desired' = None /\ view' = "idle"
  /\ StopEverything
  /\ UNCHANGED <<asking, leaked, gotFrame, faults>>

AfterFiring == "null"

\* startH264 in a browser that cannot decode: new VideoDecoder raises before there is a socket.
NoDecoder ==
  /\ view' = "connecting" /\ gotFrame' = FALSE
  /\ UNCHANGED <<socket, leaked, configured, firstTimer, streamVars>>

\* The reconnect timer fires. What is wanted is a stream also where screenshots took its place.
Reconnect ==
  /\ reTimer = "armed"
  /\ IF desired.screenshot
       THEN /\ firstTimer' = FALSE /\ NewStream /\ view' = "fallback" /\ configured' = FALSE
            /\ socket' = [mode |-> "screenshot", open |-> TRUE] /\ UNCHANGED <<gotFrame, leaked>>
       ELSE IF webCodecs THEN StartH264 ELSE NoDecoder
  /\ reTimer' = AfterFiring
  /\ UNCHANGED <<desired, gen, asking, faults>>

\* An access unit arrives: a key unit configures the decoder, and what comes before one is passed
\* over. A unit with something missing is an error of the decoder.
Receive ==
  /\ Streaming /\ units # <<>>
  /\ LET u == Head(units) IN
       IF ~configured /\ ~u.key
         THEN /\ units' = Tail(units)
              /\ UNCHANGED <<socket, leaked, configured, gotFrame, firstTimer, reTimer, view, written, cut, buffer, params>>
         ELSE IF u.good
           THEN /\ units' = Tail(units) /\ configured' = TRUE /\ gotFrame' = TRUE
                /\ firstTimer' = FALSE /\ view' = "streaming"
                /\ UNCHANGED <<socket, leaked, reTimer, written, cut, buffer, params>>
           ELSE StartFallback
  /\ UNCHANGED <<desired, gen, asking, faults>>

\* Nothing more is on its way that a picture could come of: the encoder has written one, and the
\* splitter and the connection have passed on what they will.
Exhausted == ~FlushReady /\ units = <<>> /\ written >= 3 /\ ~cut

\* Twenty seconds with no frame, which a phone's encoder takes only when something is wrong.
NoFirstFrame ==
  /\ firstTimer /\ ~gotFrame
  /\ IF Exhausted THEN UNCHANGED faults ELSE Fault
  /\ StartFallback
  /\ UNCHANGED <<desired, gen, asking>>

\* The connection is lost, or was never made (the server is down, or has another viewer).
Lost ==
  /\ socket # None /\ socket.open /\ Fault
  /\ IF socket.mode = "h264" /\ ~gotFrame THEN StartFallback ELSE ScheduleReconnect
  /\ UNCHANGED <<desired, gen, asking>>

\* The error event of an h264 socket goes to screenshots even after a first frame.
LostWithError ==
  /\ Streaming /\ gotFrame /\ Fault
  /\ StartFallback
  /\ UNCHANGED <<desired, gen, asking>>

ScreenStep ==
  \/ Write(TRUE) \/ Write(FALSE) \/ WriteRest \/ Flush
  \/ (\E s \in Phones \cup TVs : Connect(s)) \/ Disconnect
  \/ (\E q \in asking, tv \in BOOLEAN : Answered(q, tv))
  \/ Reconnect \/ Receive \/ NoFirstFrame \/ Lost \/ LostWithError

ScreenNext == ScreenStep /\ UNCHANGED webCodecs

ScreenSpec == ScreenInit /\ [][ScreenNext]_clientVars

----
\* The browser never has a socket open that it no longer refers to, whatever connects and
\* disconnects overtake a connect that waits (useDeviceScreen.js:285-301).
OneSocket == ~leaked

\* A phone with a still screen is streamed: while nothing was lost, cut or late, a browser that can
\* decode never gives the stream of what it does not take for a TV up for screenshots, though no
\* second picture comes to end the first one (screen_stream.py:35-59, useDeviceScreen.js:272-284).
StillScreenStreams ==
  socket # None /\ socket.mode = "screenshot" => faults > 0 \/ desired.screenshot \/ ~webCodecs

\* Every mode reconnects by itself unless the user ended it (docs/LIVE_SCREEN.md:21).
NeverStranded ==
  desired # None => \/ socket # None /\ socket.open
                    \/ \E q \in asking : q.gen = gen
                    \/ reTimer = "armed"
====
