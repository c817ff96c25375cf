---- MODULE Preflight ----
(***************************************************************************
 A preflight (preflight.py): which scenarios it walks, how it grades each target, when
 it stops grading, what it makes of the grades and how it leaves the device. The
 device it drives locks and is unlocked, loads slowly, loses calls, and shows what a
 tap led to. What a verification finds is no matter of a target, and left out.

 Screens and scripts are parameters. Where a tap leads is the scenario's intention
 when it lands on its control, and anywhere otherwise.
 ***************************************************************************)
EXTENDS ElementLookup

CONSTANTS
  ScenarioNames,  \* in the order of their names
  Script,         \* per scenario its steps: [act, target, to]
  TargetOf,       \* per target name the target
  Tree,           \* per screen its nodes, when it has settled and every selector is good
  Package, Launcher, LockScreen, Elsewhere,
  MaxUnseen       \* bound: kinds of trouble in one preflight that no read of the device shows

Steps == [act: {"launch", "swipe", "verify", "tap"}, target: DOMAIN TargetOf \cup {None},
          to: DOMAIN Tree \cup {None}]

ASSUME ScriptsAssumption ==
  /\ ScenarioNames \in Seq(DOMAIN Script)
  /\ \A n \in DOMAIN Script : Script[n] \in Seq(Steps)
  /\ MaxUnseen \in Nat

ASSUME ScreensAssumption ==
  /\ {Launcher, LockScreen, Elsewhere} \subseteq DOMAIN Tree /\ None \notin DOMAIN Tree
  /\ Package # Launcher
  /\ \A scr \in DOMAIN Tree : IsFiniteSet(DOMAIN Tree[scr])
  /\ \A n \in DOMAIN Script : \A i \in DOMAIN Script[n] :
       /\ Script[n][i].act # "verify" => Script[n][i].to \in DOMAIN Tree
       /\ Script[n][i].act = "tap" => Script[n][i].target \in DOMAIN TargetOf
  /\ \A t \in DOMAIN TargetOf : DOMAIN TargetOf[t].selectors \subseteq Nat

VARIABLES
  \* the device
  works,     \* targets whose control still has what their selectors look for
  front,     \* the app or the launcher
  screen,    \* the app's screen, or None when it does not run
  locked,
  missed,    \* in this scenario the keyguard has swallowed a tap or a swipe
  unseen,    \* history: the trouble that no read of the device has shown, see Trouble
  \* run_preflight and check_scenario
  readable,  \* profile.ui_is_introspectable
  plan,      \* the scenarios to walk
  at, step,  \* where in the plan and in the scenario
  lost,      \* lost_the_screen: "", "locked", "blind" or "untapped"
  seen,      \* between look and tap: the resolution, or None
  phase,     \* "between", "reset", "walking", "looking", "tapping", "quiet", "home" or "done"
  checks,    \* TargetChecks: [scenario, step, target, status, why]
  stopped, failed \* stopped_early; an exception is on its way out

preVars == <<works, front, screen, locked, missed, unseen, readable, plan, at, step, lost, seen, phase, checks,
             stopped, failed>>
deviceVars == <<works, front, screen, locked, missed, unseen>>

\* The dump of a look was of the keyguard; it was of a half-built screen; a selector found another
\* control; a reset, a launch or a swipe failed; the device was unlocked again after the keyguard
\* had swallowed a tap, and before the lock was read.
Trouble == {"keyguard", "stalled", "mistaken", "swallowed", "blink"}

Names == {ScenarioNames[i] : i \in DOMAIN ScenarioNames}
TargetNames == DOMAIN TargetOf
SelfDrawn == {t \in TargetNames : TargetOf[t].drawn}

TapsOf(name) == {i \in DOMAIN Script[name] : Script[name][i].act = "tap"}
TargetsOf(name) == {Script[name][i].target : i \in TapsOf(name)}

\* Mutant: a scenario for one last target is not worth its time.
GainFew(name, uncovered) == IF Cardinality(TargetsOf(name) \cap uncovered) > 1 THEN TargetsOf(name) \cap uncovered ELSE {}

Gain(name, uncovered) == TargetsOf(name) \cap uncovered

AllTargets == UNION {TargetsOf(n) : n \in Names}

Size(i, u) == Cardinality(Gain(ScenarioNames[i], u))

\* max(sorted(remaining)): the first of the scenarios that add most.
Best(u) == CHOOSE i \in DOMAIN ScenarioNames : \A j \in DOMAIN ScenarioNames :
             Size(i, u) > Size(j, u) \/ (Size(i, u) = Size(j, u) /\ i <= j)

\* Greedy, until nothing is uncovered or nothing adds to it.
Cover[u \in SUBSET AllTargets] ==
  IF u = {} \/ Size(Best(u), u) = 0 THEN <<>>
  ELSE <<ScenarioNames[Best(u)]>> \o Cover[u \ Gain(ScenarioNames[Best(u)], u)]

CoveringScenarios == Cover[AllTargets]

PreInit ==
  /\ works \in SUBSET (TargetNames \ SelfDrawn)
  /\ front = Launcher /\ screen = None /\ locked = FALSE /\ missed = FALSE /\ unseen = {}
  /\ readable \in BOOLEAN
  /\ plan \in {<<n>> : n \in Names} \cup {CoveringScenarios}
  /\ at = 0 /\ step = 1 /\ lost = "" /\ seen = None /\ phase = "between"
  /\ checks = {} /\ stopped = FALSE /\ failed = FALSE

Unseen(kinds) == unseen' = unseen \cup kinds /\ Cardinality(unseen') <= MaxUnseen

----
\* The device

\* Which of a screen's nodes a dump shows: a control that is not good has decayed, and is there under
\* another name; one that the app draws itself is published now and then.
Shown(s, good, drawn) ==
  LET tree == Tree[s] IN
  [i \in {i \in DOMAIN tree : tree[i].is \in SelfDrawn => tree[i].is \in drawn} |->
     IF tree[i].is \in TargetNames \ (good \cup drawn)
       THEN Node(tree[i].is, None, <<>>, tree[i].area, FALSE, tree[i].enabled) ELSE tree[i]]

OnScreen == IF locked THEN LockScreen ELSE IF front = Launcher THEN Launcher ELSE screen

InScenario == phase \in {"reset", "walking", "looking", "tapping"}

\* The screen times out, as a Redmi Pad 2's did.
Locks ==
  /\ ~locked /\ InScenario /\ locked' = TRUE
  /\ UNCHANGED <<works, front, screen, missed, unseen, readable, plan, at, step, lost, seen, phase, checks,
                 stopped, failed>>

\* Somebody unlocks it.
Unlocks ==
  /\ locked /\ InScenario /\ locked' = FALSE
  /\ Unseen(IF missed /\ lost = "" THEN {"blink"} ELSE {})
  /\ UNCHANGED <<works, front, screen, missed, readable, plan, at, step, lost, seen, phase, checks, stopped,
                 failed>>

\* A tap that lands on the control of the step leads where the scenario means to go.
Tapped(to, lands) ==
  /\ missed' = (missed \/ locked)
  /\ screen' \in (IF locked THEN {screen} ELSE IF lands THEN {to} ELSE {screen, to, Elsewhere})
  /\ UNCHANGED front

----
\* run_preflight

Scenario == plan[at]
Step == Script[Scenario][step]

\* should_stop, and reading the request may fail.
Between ==
  /\ phase = "between"
  /\ \/ /\ at < Len(plan)
        /\ at' = at + 1 /\ step' = 1 /\ lost' = "" /\ missed' = FALSE /\ phase' = "reset"
        /\ UNCHANGED <<stopped, failed>>
     \/ /\ at = Len(plan) /\ phase' = "quiet" /\ UNCHANGED <<at, step, lost, missed, stopped, failed>>
     \/ /\ at < Len(plan)
        /\ phase' = "quiet" /\ stopped' \in BOOLEAN /\ failed' = ~stopped'
        /\ UNCHANGED <<at, step, lost, missed>>
  /\ UNCHANGED <<works, front, screen, locked, unseen, readable, plan, seen, checks>>

\* _reset: force-stop, which brings the launcher back. A call that fails is passed over.
ResetDevice ==
  /\ phase = "reset" /\ phase' = "walking"
  /\ \/ front' = Launcher /\ screen' = None /\ UNCHANGED unseen
     \/ Unseen({"swallowed"}) /\ UNCHANGED <<front, screen>>
  /\ UNCHANGED <<works, locked, missed, readable, plan, at, step, lost, seen, checks, stopped, failed>>

----
\* check_scenario, one step after the other

EndOfScenario ==
  /\ phase = "walking" /\ step > Len(Script[Scenario])
  /\ phase' = "between"
  /\ UNCHANGED <<deviceVars, readable, plan, at, step, lost, seen, checks, stopped, failed>>

Walking(act) == phase = "walking" /\ step <= Len(Script[Scenario]) /\ Step.act = act

\* A launch, a swipe or a key, each under its name. Its exception is passed over. A launch of an app
\* that runs only brings it to the front, behind the keyguard too.
Navigate ==
  /\ \E act \in {"launch", "swipe"} : Walking(act)
  /\ step' = step + 1
  /\ \/ Unseen({"swallowed"}) /\ UNCHANGED <<front, screen, missed>>
     \/ /\ UNCHANGED unseen
        /\ IF Step.act = "launch"
             THEN front' = Package /\ screen' = (IF screen = None THEN Step.to ELSE screen) /\ UNCHANGED missed
             ELSE Tapped(Step.to, screen # Elsewhere)
  /\ UNCHANGED <<works, locked, readable, plan, at, lost, seen, phase, checks, stopped, failed>>

\* _check_verification changes nothing.
Verify ==
  /\ Walking("verify")
  /\ step' = step + 1
  /\ UNCHANGED <<deviceVars, readable, plan, at, lost, seen, phase, checks, stopped, failed>>

\* `why' is of the detail what tells a check that could not be made from one that was: it was not
\* graded because the device was locked, or after a tap that was blind or not made; or its dump or
\* its tap failed.
Graded(status, why) ==
  checks' = checks \cup
    {[scenario |-> Scenario, step |-> step, target |-> Step.target, status |-> status, why |-> why]}

\* Mutant: an intended coordinate is taken for a hit.
LosesScreenUnlessDrawn(status) ==
  CASE status = "coordinates" -> "blind"
    [] status \in {"missing", "error"} -> "untapped"
    [] OTHER -> ""

\* After a blind tap, or none, the app is no longer known to be on the scenario's screen.
LosesScreen(status) ==
  CASE status \in {"coordinates", "by_design"} -> "blind"
    [] status \in {"missing", "error"} -> "untapped"
    [] OTHER -> ""

IsLocked(window) == window.locked = TRUE

\* The lock is read before each tap, as long as the screen is not lost. A read that fails tells
\* nothing.
TapElement ==
  /\ Walking("tap")
  /\ \E answers \in BOOLEAN :
       lost' = IF lost = "" /\ IsLocked(WindowState(answers, front, locked)) THEN "locked" ELSE lost
  /\ IF lost' # ""
       THEN Graded("unreliable", lost') /\ step' = step + 1 /\ UNCHANGED phase
       ELSE phase' = "looking" /\ UNCHANGED <<checks, step>>
  /\ UNCHANGED <<deviceVars, readable, plan, at, seen, stopped, failed>>

\* _settled_nodes: how many nodes the last of up to three dumps has; it ends with two that agree.
Settled(s) == IF s[1] = s[2] THEN s[2] ELSE s[3]

\* A screen that fills in seldom shows the same number twice, or needs three dumps.
Stalls(s, all) == (s[1] = s[2] /\ s[2] < all) \/ s[3] < all

Count(nodes) == Cardinality(DOMAIN nodes)

\* How many of all nodes the three dumps have; when they fail that makes no difference.
Dumps(all, fails) ==
  {s \in {<<a, b, c>> : a, b, c \in {0, all \div 2, all - 1, all}} :
     0 <= s[1] /\ s[1] <= s[2] /\ s[2] <= s[3] /\ (fails => s[1] = all)}

Seen(r) == IF r.node = None THEN None ELSE r.node.is

\* What of a look that resolved to r no read shows.
Mistakes(r, fails, stalls) ==
  (IF ~fails /\ locked THEN {"keyguard"} ELSE {}) \cup (IF ~fails /\ stalls THEN {"stalled"} ELSE {})
    \cup (IF r.strategy = "selector" /\ Seen(r) # Step.target THEN {"mistaken"} ELSE {})

\* _check_target, as far as the resolution: a target that is not found is not tapped.
Resolved(r, fails) ==
  \/ /\ r.strategy = "none"
     /\ Graded("missing", IF fails THEN "failed" ELSE "") /\ lost' = LosesScreen("missing")
     /\ step' = step + 1 /\ phase' = "walking" /\ UNCHANGED seen
  \/ /\ r.strategy # "none"
     /\ seen' = [strategy |-> r.strategy, failed |-> fails, is |-> Seen(r)]
     /\ phase' = "tapping" /\ UNCHANGED <<checks, lost, step>>

\* What the dumps show and how the target resolves. One that fails leaves no nodes.
Look ==
  /\ phase = "looking" /\ readable
  /\ \E drawn \in SUBSET SelfDrawn, fails \in BOOLEAN :
       LET nodes == Shown(OnScreen, works, drawn) IN
       \E s \in Dumps(Count(nodes), fails) :
         LET r == Resolve(TargetOf[Step.target], ParseHierarchy(nodes, IF fails THEN 0 ELSE Settled(s))) IN
           Unseen(Mistakes(r, fails, Stalls(s, Count(nodes)))) /\ Resolved(r, fails)
  /\ UNCHANGED <<works, front, screen, locked, missed, readable, plan, at, stopped, failed>>

Status ==
  CASE seen.strategy = "selector" -> "selector"
    [] seen.strategy = "coordinates" /\ TargetOf[Step.target].drawn /\ ~seen.failed -> "by_design"
    [] OTHER -> "coordinates"

\* The rest of _check_target: the tap, however the target resolved. A tap that fails is an error.
Tap ==
  /\ phase = "tapping"
  /\ \/ /\ Graded(Status, IF seen.failed THEN "failed" ELSE "") /\ lost' = LosesScreen(Status)
        /\ Tapped(Step.to, seen.is = Step.target)
     \/ /\ Graded("error", "failed") /\ lost' = LosesScreen("error")
        /\ UNCHANGED <<front, screen, missed>>
  /\ step' = step + 1 /\ phase' = "walking" /\ seen' = None
  /\ UNCHANGED <<works, locked, unseen, readable, plan, at, stopped, failed>>

\* A platform that publishes no UI: the adapter's own tap_element is tried, and nothing is graded.
TapUnseen ==
  /\ phase = "looking" /\ ~readable
  /\ Graded("not_applicable", "") /\ step' = step + 1 /\ phase' = "walking"
  /\ Tapped(Step.to, FALSE)
  /\ UNCHANGED <<works, locked, unseen, readable, plan, at, lost, seen, stopped, failed>>

\* Ctrl+C at any point. In the finally it ends that too: nothing there catches it.
Interrupt ==
  /\ phase # "done"
  /\ failed' = TRUE /\ phase' = IF phase \in {"quiet", "home"} THEN "done" ELSE "quiet"
  /\ UNCHANGED <<deviceVars, readable, plan, at, step, lost, seen, checks, stopped>>

\* _leave_device_quiet, in the finally of run_preflight: the app is stopped, and then the home key
\* pressed. Each call may fail, and is passed over.
StopApps ==
  /\ phase = "quiet" /\ phase' = "home"
  /\ \/ front' = Launcher /\ screen' = None
     \/ UNCHANGED <<front, screen>>
  /\ UNCHANGED <<works, locked, missed, unseen, readable, plan, at, step, lost, seen, checks, stopped, failed>>

GoHome ==
  /\ phase = "home" /\ phase' = "done"
  /\ front' \in {front, Launcher}
  /\ UNCHANGED <<works, screen, locked, missed, unseen, readable, plan, at, step, lost, seen, checks, stopped,
                 failed>>

PreNext ==
  \/ Locks \/ Unlocks \/ Between \/ ResetDevice \/ EndOfScenario \/ Navigate \/ Verify \/ TapElement
  \/ Look \/ Tap \/ TapUnseen \/ Interrupt \/ StopApps \/ GoHome

PreSpec == PreInit /\ [][PreNext]_preVars

----
\* summarise

ByTarget == {c.target : c \in checks}
Statuses(t) == {c.status : c \in {d \in checks : d.target = t}} \ {"unreliable"}

Ungraded(t) == Statuses(t) = {}
ByDesign(t) == Statuses(t) = {"by_design"}
NotApplicable(t) == Statuses(t) = {"not_applicable"}
Healthy(t) == Statuses(t) = {"selector"}
NeedsAttention(t) == ~Ungraded(t) /\ ~ByDesign(t) /\ ~NotApplicable(t) /\ ~Healthy(t)

----
\* What a table of selectors and the scenarios are to be for a preflight's word to be good

\* A selector does not match a control. What it may do is found in its label, unless it is short.
Misses(s, n) ==
  \/ s.id # None /\ s.id # n.id
  \/ /\ s.label \notin {None, <<>>} /\ s.label # n.label
     /\ s.exact \/ Len(s.label) <= ShortLabelLength \/ ~Within(s.label, n.label)
  \/ s.clickable # None /\ s.clickable # n.clickable
  \/ s.minArea # None /\ ~(n.area >= s.minArea)

\* Each selector looks for something that a control may lose.
SelectorsAsk ==
  \A t \in TargetNames : \A k \in DOMAIN TargetOf[t].selectors :
    LET s == TargetOf[t].selectors[k] IN
      s.id # None \/ (s.label # None /\ Len(s.label) \in Nat \ {0}) \/ s.clickable = TRUE

\* Another control, on some screen, has what a selector of the target looks for.
LookAlike(t) ==
  \E scr \in DOMAIN Tree, k \in DOMAIN TargetOf[t].selectors : \E i \in DOMAIN Tree[scr] :
    LET n == Tree[scr][i] IN Usable(n) /\ n.is # t /\ ~Misses(TargetOf[t].selectors[k], n)

\* The scenarios lead where they mean to go: on[n][i] is the screen before the i-th step of n, and
\* as long as what that step taps is good, one of its selectors finds something there, whatever else
\* has decayed.
Leads(on) ==
  \A n \in Names :
    /\ on[n][1] = None
    /\ \A i \in DOMAIN Script[n] :
         LET step_i == Script[n][i] IN
           /\ step_i.act = "launch" => on[n][i + 1] = IF on[n][i] = None THEN step_i.to ELSE on[n][i]
           /\ step_i.act = "verify" => on[n][i + 1] = on[n][i]
           /\ step_i.act \in {"swipe", "tap"} =>
                on[n][i] \in DOMAIN Tree \ {Elsewhere} /\ on[n][i + 1] = step_i.to
           /\ step_i.act = "tap" =>
                \A good \in SUBSET (TargetNames \ SelfDrawn), drawn \in SUBSET SelfDrawn :
                  step_i.target \in good =>
                    \E k \in DOMAIN TargetOf[step_i.target].selectors :
                      Find(Shown(on[n][i], good, drawn), TargetOf[step_i.target].selectors[k]) # None

----
\* A finding is real, or the failure of a read or a tap of that very target: whatever locked, was
\* tapped blind or could not be dumped before it, a target needs attention only when its control no
\* longer has what its selectors look for (one that the app draws itself never has), or when its own
\* dump or tap failed, which is reported the same way. What no read shows (Trouble) is excepted
\* (preflight.py:65-80, 219-249, 282-308, 503-516).
FindingsAreReal ==
  phase = "done" /\ unseen = {} =>
    \A t \in ByTarget : NeedsAttention(t) =>
      t \notin works \/ \E c \in checks : c.target = t /\ c.why = "failed"

\* A decayed selector is reported as healthy only when another control has what it looks for: by the
\* whole of a short label, or within a longer one, or by the same id. The rows of a feed, the two like
\* buttons and the two fullscreen buttons are such (selectors.py:107-147, 197, 205, 254, 261), a
\* video's title with a tab's label in it is not (uiauto.py:164-181, 234-254).
DecayIsReported ==
  phase = "done" =>
    \A t \in ByTarget : Healthy(t) => t \in works \/ TargetOf[t].drawn \/ LookAlike(t)

Untroubled == unseen = {} /\ readable /\ \A c \in checks : c.why \notin {"failed", "locked"}

\* A preflight that went to its end leaves no target out: each of a scenario it walked is in its
\* report, and with the covering set that is every target there is. If nothing failed or locked, a
\* target is listed as ungraded only when some target tapped before it, in each scenario that taps it,
\* has decayed or is drawn by the app (preflight.py:158-183, 236-252, 394-407, 554-596).
EveryTargetAccounted ==
  phase = "done" /\ ~stopped /\ ~failed =>
    /\ plan = CoveringScenarios => ByTarget = AllTargets
    /\ \A i \in DOMAIN plan : TargetsOf(plan[i]) \subseteq ByTarget
    /\ Untroubled =>
         \A i \in DOMAIN plan : \A j \in TapsOf(plan[i]) :
           Ungraded(Script[plan[i]][j].target) =>
             \E k \in TapsOf(plan[i]) : k < j /\ Script[plan[i]][k].target \notin works
====
