---- MODULE MCSession ----
(***************************************************************************
 What the user has in front: the terminal with StartServices, a tab with a live screen, one with the
 page of a run, one with the reports of a campaign. They share no state, so a behaviour is one of
 them alone: main() has returned before a tab is open.
 ***************************************************************************)
EXTENDS Launcher, ScreenClient, RunPage, Reports
CONSTANTS phone, tv, a, b

VARIABLE tab

OneOrTwo == {<<a>>, <<a, b>>}

LauncherOver ==
  /\ found = [redis |-> {}, taken |-> {}, npm |-> FALSE] /\ args = {}
  /\ services = <<>> /\ started = <<>> /\ child = [s \in Names |-> "none"] /\ reported = {}
  /\ main = "returned" /\ handled = FALSE /\ exitCode = 1 /\ exits = 0 /\ ctrlCs = 0

Init ==
  /\ ScreenInit /\ PageInit /\ ReportsInit
  /\ \/ LaunchInit /\ tab = "none" /\ spec.kind = "soak"
     \/ LauncherOver /\ tab \in {"screen", "run"} /\ spec.kind = "soak"
     \/ LauncherOver /\ tab = "reports"
  /\ webCodecs \/ tab = "screen"

Next ==
  \/ tab = "none" /\ LaunchNext /\ UNCHANGED <<tab, clientVars, pageVars, reportVars>>
  \/ tab = "screen" /\ ScreenNext /\ UNCHANGED <<tab, launchVars, pageVars, reportVars>>
  \/ tab = "run" /\ PageNext /\ UNCHANGED <<tab, launchVars, clientVars, reportVars>>
  \/ tab = "reports" /\ ReportsNext /\ UNCHANGED <<tab, launchVars, clientVars, pageVars>>

Spec == Init /\ [][Next]_<<tab, launchVars, clientVars, pageVars, reportVars>>
====
