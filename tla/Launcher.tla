---- MODULE Launcher ----
(***************************************************************************
 scripts/StartServices.py: one terminal starts every process of the dashboard,
 in order and each checked before the next, watches them, and stops them all
 again.

 What the launcher finds on the machine is chosen by the initial state and
 stays (`found`); the children, their ports and Ctrl+C are the environment.
 ***************************************************************************)
EXTENDS Integers, Sequences, FiniteSets, SequencesExt

CONSTANTS
  MaxExits,     \* bound: children that end by themselves
  MaxCtrlC      \* bound: how often the user presses Ctrl+C

ASSUME LauncherAssumption == MaxExits \in Nat /\ MaxCtrlC \in Nat

VARIABLES
  found,    \* the machine: see Machines
  args,     \* the --no-... switches given, a set
  services, \* build_services: the names still to be started, in order
  started,  \* the list of that name
  child,    \* "none", "starting", "serving" or "exited", by name
  reported, \* the set of that name
  main,     \* where main() is: "broker", "start", "append", "wait", "watch", "stop", "returned", "traceback"
  handled,  \* main() is in its `except KeyboardInterrupt`
  exitCode,
  exits, ctrlCs

launchVars == <<found, args, services, started, child, reported, main, handled, exitCode, exits, ctrlCs>>

Names == {"api", "worker", "livescreen", "frontend"}

Required == {"api", "frontend"}

\* The machine: the ways to a broker that work (it answers already; a local redis-server, the
\* container or WSL's own can be started and is reachable; a second instance in WSL, bound to all
\* addresses, is); the ports held by a process of an earlier session; whether there is npm.
Machines == [redis : SUBSET {"up", "started", "wslBound"},
             taken : SUBSET {"api", "livescreen"}, npm : BOOLEAN]

\* ensure_redis: the broker it finds. Only the last way gives another port than the default.
Broker(m) ==
  CASE m.redis = {} -> "none"
    [] m.redis = {"wslBound"} -> "fallback"
    [] OTHER -> "default"

\* With no broker there is no worker; without npm, or its modules, no frontend.
Skipped ==
  args \cup (IF Broker(found) = "none" /\ "redis" \notin args THEN {"worker"} ELSE {})
       \cup (IF found.npm THEN {} ELSE {"frontend"})

Unless(s) == IF s \in Skipped THEN <<>> ELSE <<s>>

BuildServices == <<"api">> \o Unless("worker") \o Unless("livescreen") \o Unless("frontend")

LaunchInit ==
  /\ found \in Machines /\ args \in SUBSET {"redis", "worker", "livescreen", "frontend"}
  /\ services = <<>> /\ started = <<>> /\ child = [s \in Names |-> "none"] /\ reported = {}
  /\ main = "broker" /\ handled = FALSE /\ exitCode = -1 /\ exits = 0 /\ ctrlCs = 0

----
Alive(s) == child[s] \in {"starting", "serving"}

\* The health checks of the API and the live screen see whoever holds the port.
Answers(s) == child[s] = "serving" \/ s \in found.taken

\* shutdown(started, code)
Shutdown(code) == main' = "stop" /\ exitCode' = code

\* The next service's turn, or all are up.
Proceed == main' = IF services = <<>> THEN "watch" ELSE "start"

Prepare ==
  /\ main = "broker"
  /\ services' = BuildServices /\ main' = "start"
  /\ UNCHANGED <<found, args, started, child, reported, handled, exitCode, exits, ctrlCs>>

\* Service.start
Start ==
  /\ main = "start"
  /\ child' = [child EXCEPT ![Head(services)] = "starting"] /\ main' = "append"
  /\ UNCHANGED <<found, args, services, started, reported, handled, exitCode, exits, ctrlCs>>

\* started.append, a statement of its own: Ctrl+C may come between the two.
Remember ==
  /\ main = "append"
  /\ started' = Append(started, Head(services)) /\ services' = Tail(services) /\ main' = "wait"
  /\ UNCHANGED <<found, args, child, reported, handled, exitCode, exits, ctrlCs>>

\* wait_until returns; a service that is not ready in time is given up, with everything else,
\* unless it is optional and its process still runs.
Waited ==
  /\ main = "wait"
  /\ LET s == Last(started) IN
       IF Answers(s) \/ (Alive(s) /\ s \notin Required)
         THEN Proceed /\ UNCHANGED exitCode
         ELSE Shutdown(1)
  /\ UNCHANGED <<found, args, services, started, child, reported, handled, exits, ctrlCs>>

EndsTheSession(s) == s \in Required

\* One service of the loop's round: a loss is reported once, and a required one ends the session.
Watch(s) ==
  /\ main = "watch" /\ s \in ToSet(started) \ reported /\ ~Alive(s)
  /\ reported' = reported \cup {s}
  /\ IF EndsTheSession(s) THEN Shutdown(1) ELSE UNCHANGED <<main, exitCode>>
  /\ UNCHANGED <<found, args, services, started, child, handled, exits, ctrlCs>>

\* Mutant: only services that came up are stopped.
MustStopUp(s) == child[s] = "serving"

MustStop(s) == Alive(s)

\* One service of shutdown, the last started first: Service.stop returns when the process has
\* ended, by terminate (the whole tree on Windows) or in the end by kill.
Stop ==
  /\ main = "stop"
  /\ LET rest == {i \in DOMAIN started : MustStop(started[i])} IN
       IF rest = {} THEN main' = "returned" /\ UNCHANGED child
       ELSE child' = [child EXCEPT ![started[Max(rest)]] = "exited"] /\ UNCHANGED main
  /\ UNCHANGED <<found, args, services, started, reported, handled, exitCode, exits, ctrlCs>>

----
\* A child comes up, unless its port is taken; a child ends by itself (the one that finds its
\* port taken does).
ComesUp(s) ==
  /\ child[s] = "starting" /\ s \notin found.taken /\ main \notin {"returned", "traceback"}
  /\ child' = [child EXCEPT ![s] = "serving"]
  /\ UNCHANGED <<found, args, services, started, reported, main, handled, exitCode, exits, ctrlCs>>

Ends(s) ==
  /\ Alive(s) /\ (exits < MaxExits \/ s \in found.taken) /\ main \notin {"returned", "traceback"}
  /\ child' = [child EXCEPT ![s] = "exited"]
  /\ exits' = IF s \in found.taken THEN exits ELSE exits + 1
  /\ UNCHANGED <<found, args, services, started, reported, main, handled, exitCode, ctrlCs>>

\* Ctrl+C stops the services with exit code 0, also in the middle of a shutdown for another reason;
\* in the handler itself, or before the try, nothing catches it. The children of the same console
\* may get it too: that is Ends.
CtrlC ==
  /\ ctrlCs < MaxCtrlC /\ main \notin {"returned", "traceback"} /\ ctrlCs' = ctrlCs + 1
  /\ IF handled \/ main = "broker"
       THEN main' = "traceback" /\ UNCHANGED <<handled, exitCode>>
       ELSE Shutdown(0) /\ handled' = TRUE
  /\ UNCHANGED <<found, args, services, started, child, reported, exits>>

Main == Prepare \/ Start \/ Remember \/ Waited \/ (\E s \in Names : Watch(s)) \/ Stop

LaunchNext == Main \/ CtrlC \/ \E s \in Names : ComesUp(s) \/ Ends(s)

LaunchSpec == LaunchInit /\ [][LaunchNext]_launchVars

----
\* When main() returns, no child it started runs, whichever shutdown Ctrl+C cut short; the only
\* exception is one that Ctrl+C hit between its start and its place in `started` (437-438).
NoneLeftBehind ==
  main = "returned" => \A s \in Names : Alive(s) => handled /\ services # <<>> /\ s = Head(services)
====
