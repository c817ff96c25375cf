---- MODULE ElementActions ----
(***************************************************************************
 One step's action on the device, as a run executes it (adapters.py): tap_element with its
 retried lookup, verify_element_state, verify_playing, and the TV's tap_element, which walks
 the focus to the target.

 Time is counted in half seconds since the step was submitted. A dump takes one of
 the Durations, more on a screen that moves; what it shows may differ each time.

 A TV's screen is a grid of equal controls that take the focus, each with a label inside that does
 not. The target is one or the other, and the app need not do what a key asks for.
 ***************************************************************************)
EXTENDS Integers

CONSTANTS
  ResolveAttempts, ResolveRetry, ResolveBudget,  \* class Waits
  StateTimeout, StatePoll, PlaybackTimeout, PlaybackPoll, MaxFocusSteps,
  Durations,   \* what one dump may take, up to its time limit
  Columns, Rows  \* the grid of focusable controls on a TV's screen

ASSUME WaitsAssumption ==
  /\ ResolveAttempts \in Nat \ {0} /\ MaxFocusSteps \in Nat
  /\ {ResolveRetry, ResolveBudget, StateTimeout, StatePoll, PlaybackTimeout, PlaybackPoll} \subseteq Nat
  /\ Durations \subseteq Nat \ {0}
  /\ Columns \in Nat \ {0} /\ Rows \in Nat \ {0}

VARIABLES
  action,     \* the step's action
  pc,         \* "dump", "looked", "resolved", "sample" or "done"
  clock,      \* time since the step began
  attempt,    \* of _resolve's loop, from 0
  lookedFrom, \* when this _resolve began: its deadline is ResolveBudget later
  spent,      \* what the last dump took
  first,      \* what this lookup's first dump took
  steady,     \* no dump took longer than the one before it in its lookup
  found,      \* how the last dump resolved the target: "none", "coordinates" or "selector"
  holds,      \* verify_element_state: the node has the expected state; verify_playing: it plays
  outcome,    \* what the action returned or raised
  \* the TV's walk
  focus,      \* the bounds of the focused control, or Nowhere
  goal,       \* the target's bounds, or Nowhere
  presses,    \* iterations of the loop
  moved,      \* history: the target has moved, or the focus otherwise than the key asked for
  start       \* where the focus was

actVars == <<action, pc, clock, attempt, lookedFrom, spent, first, steady, found, holds, outcome, focus, goal,
             presses, moved, start>>
walkVars == <<focus, goal, presses, moved, start>>

Cells == (1 .. Columns) \X (1 .. Rows)
Nowhere == <<0, 0, 0, 0>>

\* Bounds are <<left, top, right, bottom>>.
Side == 4
Control(c) == <<Side * c[1], Side * c[2], Side * c[1] + Side, Side * c[2] + Side>>
Label(c) == <<Side * c[1] + 1, Side * c[2] + 1, Side * c[1] + 3, Side * c[2] + 3>>

Focusable == {Control(c) : c \in Cells}
Targets == Focusable \cup {Label(c) : c \in Cells}

ActInit ==
  /\ action \in {"tap_element", "verify_element_state", "verify_playing", "tv_tap_element"}
  /\ pc = (IF action = "verify_playing" THEN "sample" ELSE "dump")
  /\ clock = 0 /\ attempt = 0 /\ lookedFrom = 0 /\ spent = 0 /\ first = 0 /\ steady = TRUE
  /\ found = "none" /\ holds = FALSE /\ outcome = "running"
  /\ IF action = "tv_tap_element"
       THEN focus \in Focusable \cup {Nowhere} /\ goal \in Targets
       ELSE focus = Nowhere /\ goal = Nowhere
  /\ presses = 0 /\ moved = FALSE /\ start = focus

----
\* dump_hierarchy: two adb calls, and what they give is a hierarchy or it is not.
DumpHierarchy == [took : Durations, readable : BOOLEAN]

\* _resolve: one dump, whether it can be read or not, and what the selector chain makes of it.
\* A target of verify_element_state has no use for a coordinate: only its node is read.

Phone == action \in {"tap_element", "verify_element_state"}

Dump ==
  /\ Phone /\ pc = "dump"
  /\ \E d \in DumpHierarchy, f \in {"none", "coordinates", "selector"}, h \in BOOLEAN :
       /\ f = "selector" => d.readable
       /\ h => f = "selector" /\ action = "verify_element_state"
       /\ clock' = clock + d.took /\ spent' = d.took
       /\ first' = IF attempt = 0 THEN d.took ELSE first
       /\ steady' = (steady /\ (attempt > 0 => d.took <= spent))
       /\ found' = f /\ holds' = h
  /\ pc' = "looked"
  /\ UNCHANGED <<action, attempt, lookedFrom, outcome, walkVars>>

\* Mutant: another attempt is made as long as there is budget left.
NoTimeForAnotherNow == clock + ResolveRetry > lookedFrom + ResolveBudget

\* Another attempt, as long as the last one, would not end within the budget.
NoTimeForAnother == clock + ResolveRetry + spent > lookedFrom + ResolveBudget

\* A selector's match ends the lookup, and so does the last attempt or the budget. After the last
\* attempt there is no delay.
Looked ==
  /\ Phone /\ pc = "looked"
  /\ IF found = "selector" \/ NoTimeForAnother \/ attempt = ResolveAttempts - 1
       THEN pc' = "resolved" /\ UNCHANGED <<clock, attempt>>
       ELSE pc' = "dump" /\ clock' = clock + ResolveRetry /\ attempt' = attempt + 1
  /\ UNCHANGED <<action, lookedFrom, spent, first, steady, found, holds, outcome, walkVars>>

Done(result) == pc' = "done" /\ outcome' = result

\* tap_element
EndLookup ==
  /\ action = "tap_element" /\ pc = "resolved"
  /\ Done(IF found = "none" THEN "ElementNotFound" ELSE found)
  /\ UNCHANGED <<action, clock, attempt, lookedFrom, spent, first, steady, found, holds, walkVars>>

\* verify_element_state: a lookup after another until the state holds or StateTimeout is over. A
\* node that the last lookup did not find has no state: "unknown".
VerifyElementState ==
  /\ action = "verify_element_state" /\ pc = "resolved"
  /\ IF holds \/ clock >= StateTimeout
       THEN /\ Done(CASE holds -> "passed" [] found = "selector" /\ ~holds -> "failed" [] OTHER -> "unknown")
            /\ UNCHANGED <<clock, attempt, lookedFrom>>
       ELSE /\ pc' = "dump" /\ clock' = clock + StatePoll /\ attempt' = 0 /\ lookedFrom' = clock + StatePoll
            /\ UNCHANGED outcome
  /\ UNCHANGED <<action, spent, first, steady, found, holds, walkVars>>

\* is_playing: a session of another app is none of ours, a state that cannot be read is no state.
MediaSession == {"unreadable", "noState", "otherApp", "paused", "playing"}
IsPlaying(session) ==
  CASE session = "playing" -> "passed"
    [] session \in {"paused", "otherApp"} -> "failed"
    [] OTHER -> "unknown"

\* verify_playing: samples the media session until it plays or PlaybackTimeout is over.
VerifyPlaying ==
  /\ action = "verify_playing" /\ pc = "sample"
  /\ \E session \in MediaSession :
       IF IsPlaying(session) = "passed" \/ clock >= PlaybackTimeout
         THEN Done(IsPlaying(session)) /\ UNCHANGED clock
         ELSE clock' = clock + PlaybackPoll /\ UNCHANGED <<pc, outcome>>
  /\ UNCHANGED <<action, attempt, lookedFrom, spent, first, steady, found, holds, walkVars>>

----
\* AndroidTvAdapter.tap_element

Distance(a, b) == IF a >= b THEN a - b ELSE b - a

Center(b) == <<(b[1] + b[3]) \div 2, (b[2] + b[4]) \div 2>>

\* Mutant: the other gap.
StepTowardSmaller(a, b) ==
  IF Distance(a[2], b[2]) <= Distance(a[1], b[1])
    THEN IF b[2] > a[2] THEN "DOWN" ELSE "UP"
    ELSE IF b[1] > a[1] THEN "RIGHT" ELSE "LEFT"

\* _step_toward: the key that closes the larger gap, the vertical one when they are equal.
StepToward(a, b) ==
  IF Distance(a[2], b[2]) >= Distance(a[1], b[1])
    THEN IF b[2] > a[2] THEN "DOWN" ELSE "UP"
    ELSE IF b[1] > a[1] THEN "RIGHT" ELSE "LEFT"

\* The next control in the key's direction, if there is one.
Pressed(b, key) ==
  LET dx == CASE key = "RIGHT" -> Side [] key = "LEFT" -> -Side [] OTHER -> 0
      dy == CASE key = "DOWN" -> Side [] key = "UP" -> -Side [] OTHER -> 0
      to == <<b[1] + dx, b[2] + dy, b[3] + dx, b[4] + dy>>
  IN IF to \in Focusable THEN to ELSE b

\* The device moves the focus that way, or the app has it otherwise.
Press(key) ==
  \/ focus' = Pressed(focus, key) /\ UNCHANGED moved
  \/ focus' \in Focusable /\ moved' = TRUE

\* One iteration: a dump, which is not retried, and one key. With nothing focused, any control
\* may get the focus. A control with other bounds than the target's, the one around it too, is
\* walked on from.
Walk ==
  /\ action = "tv_tap_element" /\ pc = "dump"
  /\ IF presses = MaxFocusSteps
       THEN Done("VerificationError") /\ UNCHANGED <<focus, presses, moved>>
       ELSE /\ presses' = presses + 1
            /\ CASE goal = Nowhere -> Done("ElementNotFound") /\ UNCHANGED <<focus, moved>>
                 [] goal # Nowhere /\ focus = Nowhere -> focus' \in Focusable /\ UNCHANGED <<pc, outcome, moved>>
                 [] focus = goal /\ goal # Nowhere -> Done("selected") /\ UNCHANGED <<focus, moved>>
                 [] OTHER -> Press(StepToward(Center(focus), Center(goal))) /\ UNCHANGED <<pc, outcome>>
  /\ UNCHANGED <<action, clock, attempt, lookedFrom, spent, first, steady, found, holds, goal, start>>

DumpFails ==
  /\ action = "tv_tap_element" /\ pc = "dump" /\ presses < MaxFocusSteps
  /\ Done("UiDumpError")
  /\ UNCHANGED <<action, clock, attempt, lookedFrom, spent, first, steady, found, holds, walkVars>>

\* The screen changes by itself: the target goes away or elsewhere, once.
ScreenMoves ==
  /\ action = "tv_tap_element" /\ pc = "dump" /\ ~moved
  /\ moved' = TRUE /\ goal' \in Targets \cup {Nowhere}
  /\ UNCHANGED <<action, pc, clock, attempt, lookedFrom, spent, first, steady, found, holds, outcome,
                 focus, presses, start>>

ActNext ==
  \/ Dump \/ Looked \/ EndLookup \/ VerifyElementState \/ VerifyPlaying
  \/ Walk \/ DumpFails \/ ScreenMoves

ActSpec == ActInit /\ [][ActNext]_actVars

----
\* While dumps do not get slower within a lookup, the lookup ends within its budget, or after its
\* first dump: the estimate that decides on another attempt is enough (adapters.py:304-316).
\* A dump that is slower than the one before it breaks the budget by what it is slower.
LookupKeepsBudget ==
  pc = "resolved" /\ steady =>
    clock - lookedFrom <= (IF first > ResolveBudget THEN first ELSE ResolveBudget)

\* On a grid of equal controls where each key does what it asks for, the TV's walk gives up only on
\* a target that is farther than its steps, or cannot take the focus: it never wanders between two
\* controls, whatever one had the focus (adapters.py:607-635). One iteration presses select, and with
\* nothing focused one is spent on getting a focus. A label inside a focused control is walked away
\* from, and the walk gives up on it however near it is.
WalkArrives ==
  outcome = "VerificationError" /\ ~moved /\ start # Nowhere /\ goal \in Focusable =>
    Distance(Center(start)[1], Center(goal)[1]) + Distance(Center(start)[2], Center(goal)[2])
      >= Side * MaxFocusSteps
====
