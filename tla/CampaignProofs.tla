---------------------------- MODULE CampaignProofs ----------------------------
(***************************************************************************)
(* Proofs about Campaign, for any number of runs, terminals, workers and   *)
(* requests: what cancelling and deleting leave behind, and that a         *)
(* baseline can be read.                                                   *)
(***************************************************************************)
EXTENDS Campaign, TLAPS

-------------------------------------------------------------------------------
(* The inductive invariant, part by part. *)

\* What the aims of a process may be, where they are read.
Aims ==
  /\ DOMAIN aim = Processes
  /\ \A c \in Clerks :
       /\ aim[c] \in {"none", "cancel", "delete", "run"}
       /\ pc[c] \in {"flagging", "collecting"} => aim[c] = "cancel"
       /\ pc[c] = "gathering" => aim[c] = "delete"
       /\ pc[c] = "removing" => aim[c] # "none"
       /\ pc[c] \notin ClerkPlaces => aim[c] = "none"
       /\ pc[c] \in ClerkPlaces \cup {"idle", "done"}
  /\ \A t \in Terminals :
       pc[t] = "closing" => aim[t] \in {"running", "completed", "interrupted"}
  /\ \A p \in Pickers : pc[p] = "writing" => aim[p] \in Scenarios

\* Nobody has a run that is not inserted yet.
OnlyPlanned ==
  /\ \A k \in Planned : Exists(k) => k <= planned
  /\ \A p \in Pickers : run[p] # NoRun => run[p] <= planned
  /\ \A p \in Terminals \cup Clerks : \A k \in todo[p] : k <= planned

\* Nobody cancels or deletes a campaign that was never created.
Started ==
  /\ campaign # "absent" => maker # "idle"
  /\ \A c \in Clerks : pc[c] \in {"flagging", "collecting", "gathering"} => maker # "idle"

\* What is being made a baseline is there, of the scenario it was chosen for.
PickedIsThere ==
  Unmet({"picked"}) =>
    \A p \in Pickers : Picking(p) =>
      Exists(run[p]) /\ (pc[p] = "writing" => aim[p] = row[run[p]].scenario)

\* A run that is on its way has its row, and no row was inserted a second time.
AwaitedIsThere ==
  Unmet({"held"}) =>
    /\ \A e \in Executors, k \in Planned : Awaits(e, k) => Exists(k)
    /\ \A k \in Planned : Exists(k) => row[k].child

\* What is driven has its row.
DrivenIsThere ==
  Unmet({"driven"}) =>
    \A e \in Executors : pc[e] = "driving" => Exists(run[e])

\* A clerk that deletes has every row that is left on its list.
DeletesAll ==
  Unmet({"early", "held"}) =>
    /\ \A c \in Clerks : pc[c] = "removing" /\ aim[c] = "delete" =>
         /\ maker \in {"triggered", "done"}
         /\ \A k \in Planned : Exists(k) => k \in todo[c]
    /\ maker # "idle" /\ campaign = "absent" =>
         /\ maker \in {"triggered", "done"}
         /\ \A k \in Planned : ~Exists(k)

\* A terminal's list is what it has yet to look at, not what it looks at.
ListIsAhead ==
  \A t \in Terminals :
    /\ run[t] \notin todo[t]
    /\ pc[t] \in {"idle"} \cup TerminalPlaces => run[t] = NoRun
    /\ pc[t] \in {"idle", "announcing", "listing", "closing"} => todo[t] = {}

\* One process executes: what is on its way waits, what runs is driven.
OneExecutor ==
  Unmet({"shared", "dead", "held"}) =>
    /\ \A e, f \in Executors : pc[e] # "idle" /\ pc[f] # "idle" => e = f
    /\ \A e \in Executors, k \in Planned : Awaits(e, k) => row[k].status = "pending"
    /\ \A e \in Executors : pc[e] = "driving" => row[run[e]].status \in {"running", "none"}
    /\ \A k \in Planned : row[k].status = "running" =>
         \E e \in Executors : pc[e] = "driving" /\ run[e] = k

Stopped(k) == row[k].status # "pending" /\ (row[k].status = "running" => row[k].cancel)

\* A clerk that cancels has what is not stopped on its list, and in the end all is.
CancelsAll ==
  Unmet({"shared", "dead", "early", "held", "driven"}) =>
    /\ \A c \in Clerks : pc[c] = "removing" /\ aim[c] = "cancel" =>
         /\ maker \in {"triggered", "done"}
         /\ \A k \in Planned : Stopped(k) \/ k \in todo[c]
    /\ flagged /\ NobodyIs("cancel") =>
         /\ maker \in {"triggered", "done"}
         /\ \A k \in Planned : Stopped(k)

CampaignInv ==
  /\ TypeOK /\ Aims /\ OnlyPlanned /\ Started
  /\ BaselineReadable /\ PickedIsThere
  /\ AwaitedIsThere /\ DrivenIsThere /\ DeletesAll
  /\ ListIsAhead /\ OneExecutor /\ CancelsAll

-------------------------------------------------------------------------------
(* What a step does to the rows. *)

\* The row of k gets a status and keeps the rest; the other rows stay.
Sets(k, status) ==
  /\ \A j \in Planned \ {k} : row'[j] = row[j]
  /\ row'[k].status = status /\ row'[k].cancel = row[k].cancel
  /\ row'[k].child = row[k].child /\ row'[k].scenario = row[k].scenario

\* The row of k is inserted; the other rows stay.
Inserts(k, child, scenario) ==
  /\ \A j \in Planned \ {k} : row'[j] = row[j]
  /\ row'[k].status = "pending" /\ row'[k].cancel = FALSE
  /\ row'[k].child = child /\ row'[k].scenario = scenario

\* The row of k goes; the other rows stay.
Erases(k) ==
  /\ \A j \in Planned \ {k} : row'[j] = row[j]
  /\ row'[k].status = "none"

\* Rows are flagged and otherwise left as they are.
Flags ==
  \A k \in Planned :
    /\ row'[k].status = row[k].status /\ row'[k].child = row[k].child
    /\ row'[k].scenario = row[k].scenario
    /\ row'[k].cancel = (row[k].cancel \/ (row[k].child /\ row[k].status = "running"))

\* An update of a status keeps the rows' type and changes one status.
LEMMA StatusStep ==
  ASSUME TypeOK, NEW k \in Planned, NEW s \in Statuses, SetStatus(k, s)
  PROVE  row' \in [Planned -> Rows] /\ Sets(k, s)
<1> DEFINE new == [row[k] EXCEPT !.status = s]
<1>1. row \in [Planned -> Rows] /\ row[k] \in Rows
  BY DEF TypeOK
<1>2. /\ new \in Rows /\ new.status = s /\ new.cancel = row[k].cancel
      /\ new.child = row[k].child /\ new.scenario = row[k].scenario
  BY <1>1 DEF Rows
<1>3. row' = [row EXCEPT ![k] = new]
  BY DEF SetStatus
<1> HIDE DEF new
<1> QED BY <1>1, <1>2, <1>3 DEF Sets

\* Or nothing, when the row is gone.
LEMMA UpdateStep ==
  ASSUME TypeOK, NEW k \in Planned, NEW s \in Statuses, UpdateRun(k, s)
  PROVE  row' \in [Planned -> Rows] /\ (IF Exists(k) THEN Sets(k, s) ELSE row' = row)
BY StatusStep DEF UpdateRun, TypeOK

\* A row that is inserted is one.
LEMMA InsertStep ==
  ASSUME TypeOK, NEW k \in Planned, NEW child \in BOOLEAN, NEW s \in Scenarios,
         row' = [row EXCEPT ![k] = Pending(child, s)]
  PROVE  row' \in [Planned -> Rows] /\ Inserts(k, child, s)
<1>1. /\ Pending(child, s) \in Rows
      /\ Pending(child, s).status = "pending" /\ Pending(child, s).cancel = FALSE
      /\ Pending(child, s).child = child /\ Pending(child, s).scenario = s
  BY DEF Pending, Rows, Statuses
<1>2. row \in [Planned -> Rows]
  BY DEF TypeOK
<1> QED BY <1>1, <1>2 DEF Inserts

\* A row that is removed leaves none.
LEMMA EraseStep ==
  ASSUME TypeOK, NEW k \in Planned, row' = [row EXCEPT ![k] = Absent]
  PROVE  row' \in [Planned -> Rows] /\ Erases(k)
<1>1. Absent \in Rows /\ Absent.status = "none"
  BY CampaignAssumption DEF Absent, Rows
<1>2. row \in [Planned -> Rows]
  BY DEF TypeOK
<1> QED BY <1>1, <1>2 DEF Erases

\* Flagging what runs keeps the rest.
LEMMA CollectStep ==
  ASSUME TypeOK,
         row' = [k \in Planned |->
           [row[k] EXCEPT !.cancel = @ \/ (row[k].child /\ row[k].status = "running")]]
  PROVE  row' \in [Planned -> Rows] /\ Flags
<1> DEFINE flag(k) == row[k].cancel \/ (row[k].child /\ row[k].status = "running")
           new(k) == [row[k] EXCEPT !.cancel = flag(k)]
<1>1. \A k \in Planned : row[k] \in Rows
  BY DEF TypeOK
<1>2. \A k \in Planned : flag(k) \in BOOLEAN
  BY <1>1 DEF Rows
<1>3. ASSUME NEW k \in Planned
      PROVE  /\ new(k) \in Rows /\ new(k).cancel = flag(k)
             /\ new(k).status = row[k].status /\ new(k).child = row[k].child
             /\ new(k).scenario = row[k].scenario
  <2> HIDE DEF flag
  <2> QED BY <1>1, <1>2 DEF Rows
<1>4. row' = [k \in Planned |-> new(k)]
  OBVIOUS
<1>5. /\ row' \in [Planned -> Rows]
      /\ \A k \in Planned : row'[k] = new(k)
  <2> HIDE DEF new
  <2> QED BY <1>3, <1>4
<1> QED
  <2> HIDE DEF new
  <2> QED BY <1>3, <1>5 DEF Flags

-------------------------------------------------------------------------------
(* Types. *)

Places ==
  {"idle", "choosing", "writing", "done"} \cup TerminalPlaces \cup RunPlaces \cup ClerkPlaces

Picks == RunPlaces \cup {"choosing", "writing"}

\* A process goes to a place; a picker that goes on with a run has one.
LEMMA MoveType ==
  ASSUME TypeOK, NEW p \in Processes, NEW to \in Places, Goto(p, to),
         \/ run' = run
         \/ \E k \in Planned \cup {NoRun} : run' = [run EXCEPT ![p] = k],
         p \in Pickers /\ to \in Picks => run'[p] \in Planned
  PROVE  /\ pc' \in [Processes -> Places]
         /\ run' \in [Pickers -> Planned \cup {NoRun}]
         /\ \A q \in Pickers : pc'[q] \in Picks => run'[q] \in Planned
<1>1. pc' \in [Processes -> Places] /\ run' \in [Pickers -> Planned \cup {NoRun}]
  BY DEF Goto, TypeOK, Places
<1>2. ASSUME NEW q \in Pickers, pc'[q] \in Picks
      PROVE  run'[q] \in Planned
  <2>1. CASE q = p
    BY <1>2, <2>1 DEF Goto, TypeOK
  <2>2. CASE q # p
    <3>1. pc'[q] = pc[q] /\ run'[q] = run[q]
      BY <2>2 DEF Goto, TypeOK, Processes
    <3> QED BY <1>2, <3>1 DEF TypeOK, Picks
  <2> QED BY <2>1, <2>2
<1> QED BY <1>1, <1>2

\* A picker that is through is nowhere with no run.
LEMMA LeaveType ==
  ASSUME TypeOK, NEW p \in Pickers, Leave(p)
  PROVE  /\ pc' \in [Processes -> Places]
         /\ run' \in [Pickers -> Planned \cup {NoRun}]
         /\ \A q \in Pickers : pc'[q] \in Picks => run'[q] \in Planned
<1>1. p \in Processes
  BY DEF Processes
<1>2. PICK to \in {"loop", "idle", "done"} : Goto(p, to)
  BY DEF Leave
<1>3. to \in Places /\ to \notin Picks
  BY DEF Places, Picks, TerminalPlaces, RunPlaces
<1> QED BY <1>1, <1>2, <1>3, MoveType DEF Leave

\* Hazards that are met are hazards.
LEMMA MeetType ==
  ASSUME TypeOK, NEW h \in HazardKinds, NEW b, Meet(h, b)
  PROVE  met' \subseteq HazardKinds
BY DEF Meet, TypeOK

\* Every step keeps the types.
LEMMA TypeStep ==
  ASSUME TypeOK, Aims, [Next]_vars
  PROVE  TypeOK'
<1>0. /\ {"completed", "failed", "interrupted", "running", "pending"} = Statuses
      /\ {"shared", "dead", "early", "held", "driven", "picked"} = HazardKinds
      /\ Ends \subseteq Statuses
      /\ Executors \subseteq Pickers /\ Pickers \subseteq Processes
      /\ Terminals \subseteq Executors /\ Workers \subseteq Executors
      /\ Curators \subseteq Pickers /\ Clerks \subseteq Processes
  BY DEF Statuses, Ends, HazardKinds, Executors, Pickers, Processes
<1>1. CASE Making
  <2>1. CASE Create \/ Created \/ Trigger
    BY <2>1 DEF Create, Created, Trigger, UpdateCampaign, TypeOK, creation
  <2>2. CASE CreateRun
    <3>1. planned' \in 0..N /\ planned' \in Planned /\ planned \in Nat
      BY <2>2, CampaignAssumption DEF CreateRun, TypeOK, Planned
    <3>2. ScenarioOf[planned'] \in Scenarios
      BY <3>1, CampaignAssumption
    <3>3. row' \in [Planned -> Rows]
      BY <2>2, <3>1, <3>2, InsertStep DEF CreateRun
    <3> QED BY <2>2, <3>1, <3>3 DEF CreateRun, TypeOK
  <2> QED BY <1>1, <2>1, <2>2 DEF Making
<1>2. ASSUME NEW t \in Terminals, TerminalStep(t)
      PROVE  TypeOK'
  <2>0. t \in Processes /\ t \in Pickers
    BY <1>0
  <2>1. CASE Begin(t)
    <3>1. met' \subseteq HazardKinds
      BY <2>1, <1>0 DEF Begin, TypeOK
    <3>2. "announcing" \in Places /\ "announcing" \notin Picks
      BY DEF Places, Picks, TerminalPlaces, RunPlaces
    <3> QED BY <2>0, <2>1, <3>1, <3>2, MoveType DEF Begin, TypeOK, creation, Places, Picks
  <2>2. CASE Announce(t)
    <3>1. "listing" \in Places /\ "listing" \notin Picks
      BY DEF Places, Picks, TerminalPlaces, RunPlaces
    <3> QED BY <2>0, <2>2, <3>1, MoveType
            DEF Announce, UpdateCampaign, TypeOK, creation, Places, Picks
  <2>3. CASE ListRuns(t)
    <3>1. "loop" \in Places /\ "loop" \notin Picks
      BY DEF Places, Picks, TerminalPlaces, RunPlaces
    <3>2. Children \subseteq Planned /\ {k \in Children : Ended(k)} \subseteq Planned
      BY DEF Children
    <3>3. /\ todo' \in [Terminals \cup Clerks -> SUBSET Planned]
          /\ skip' \in [Terminals -> SUBSET Planned]
      BY <2>3, <3>2 DEF ListRuns, TypeOK
    <3> QED BY <2>0, <2>3, <3>1, <3>3, MoveType DEF ListRuns, TypeOK, creation, Places, Picks
  <2>4. CASE HeedCancel(t) \/ Judge(t)
    <3>1. "closing" \in Places /\ "closing" \notin Picks
      BY DEF Places, Picks, TerminalPlaces, RunPlaces
    <3>2. todo' \in [Terminals \cup Clerks -> SUBSET Planned]
      BY <2>4 DEF HeedCancel, Judge, TypeOK
    <3> QED BY <2>0, <2>4, <3>1, <3>2, MoveType
            DEF HeedCancel, Judge, TypeOK, creation, Places, Picks
  <2>5. CASE Close(t)
    <3>1. "idle" \in Places /\ "idle" \notin Picks
      BY DEF Places, Picks, TerminalPlaces, RunPlaces
    <3>2. campaign' \in {"absent", "running", "completed", "interrupted"}
      BY <2>5 DEF Close, UpdateCampaign, Aims, TypeOK
    <3>3. skip' \in [Terminals -> SUBSET Planned]
      BY <2>5 DEF Close, TypeOK
    <3> QED BY <2>0, <2>5, <3>1, <3>2, <3>3, MoveType DEF Close, TypeOK, creation, Places, Picks
  <2>6. CASE FailBefore(t)
    <3>1. "ran" \in Places /\ run[t] \in Planned
      BY <2>0, <2>6 DEF Places, FailBefore, TypeOK, RunPlaces
    <3>2. row' \in [Planned -> Rows]
      BY <2>6, <3>1, <1>0, UpdateStep DEF FailBefore
    <3> QED BY <2>0, <2>6, <3>1, <3>2, MoveType DEF FailBefore, TypeOK, creation, Places, Picks
  <2>7. ASSUME NEW k \in Planned, SkipEnded(t, k)
        PROVE  TypeOK'
    BY <2>7 DEF SkipEnded, TypeOK, creation
  <2>8. ASSUME NEW k \in Planned, Take(t, k)
        PROVE  TypeOK'
    <3>1. "lookup" \in Places /\ run'[t] = k
      BY <2>0, <2>8 DEF Places, RunPlaces, Take, TypeOK
    <3>2. todo' \in [Terminals \cup Clerks -> SUBSET Planned]
      BY <2>8 DEF Take, TypeOK
    <3> QED BY <2>0, <2>8, <3>1, <3>2, MoveType DEF Take, TypeOK, creation, Places, Picks
  <2> QED BY <1>2, <2>1, <2>2, <2>3, <2>4, <2>5, <2>6, <2>7, <2>8 DEF TerminalStep
<1>3. ASSUME NEW w \in Workers, WorkerStep(w)
      PROVE  TypeOK'
  <2>0. w \in Processes /\ w \in Pickers
    BY <1>0
  <2>1. CASE Arrive(w)
    <3>1. "lookup" \in Places /\ run[w] \in Planned
      BY <2>0, <2>1 DEF Places, Arrive, TypeOK, RunPlaces
    <3>2. ScenarioOf[run[w]] \in Scenarios
      BY <3>1, CampaignAssumption
    <3>3. row' \in [Planned -> Rows]
      BY <2>1, <3>1, <3>2, InsertStep DEF Arrive, TypeOK
    <3> QED BY <2>0, <2>1, <3>1, <3>3, MoveType DEF Arrive, TypeOK, creation, Places, Picks
  <2>2. CASE FailTask(w)
    BY <2>0, <2>2, LeaveType DEF FailTask, TypeOK, creation, Places, Picks
  <2>3. ASSUME NEW k \in Planned, Dispatch(w, k)
        PROVE  TypeOK'
    <3>1. "arriving" \in Places /\ run'[w] = k
      BY <2>0, <2>3 DEF Places, RunPlaces, Dispatch, TypeOK
    <3>2. met' \subseteq HazardKinds
      BY <2>3, <1>0, MeetType DEF Dispatch
    <3> QED BY <2>0, <2>3, <3>1, <3>2, MoveType DEF Dispatch, TypeOK, creation, Places, Picks
  <2> QED BY <1>3, <2>1, <2>2, <2>3 DEF WorkerStep
<1>4. ASSUME NEW e \in Executors, RunStep(e)
      PROVE  TypeOK'
  <2>0. e \in Processes /\ e \in Pickers
    BY <1>0
  <2>1. ASSUME NEW to \in RunPlaces \cup {"choosing"}, Goto(e, to), pc[e] \in RunPlaces,
               row' \in [Planned -> Rows],
               UNCHANGED <<campaign, flagged, creation, baseline, run, todo, skip, met>>
        PROVE  TypeOK'
    <3>1. to \in Places /\ run[e] \in Planned
      BY <2>0, <2>1 DEF Places, TypeOK
    <3> QED BY <2>0, <2>1, <3>1, MoveType DEF TypeOK, creation, Places, Picks
  <2>2. \A at \in {"arriving", "lookup", "claiming", "driving", "ran"} : at \in RunPlaces
    BY DEF RunPlaces
  <2>3. pc[e] \in RunPlaces => run[e] \in Planned
    BY <2>0 DEF TypeOK
  <2>4. row \in [Planned -> Rows]
    BY DEF TypeOK
  <2>5. CASE LookupNone(e)
    <3>1. row' \in [Planned -> Rows]
      BY <2>5, <2>2, <2>3, <2>4, CampaignAssumption, InsertStep DEF LookupNone
    <3> QED BY <2>1, <2>2, <2>5, <3>1 DEF LookupNone
  <2>6. CASE LookupCancelled(e) \/ Claim(e)
    <3>1. row' \in [Planned -> Rows]
      BY <2>6, <2>2, <2>3, <1>0, StatusStep DEF LookupCancelled, Claim
    <3> QED BY <2>1, <2>2, <2>6, <3>1 DEF LookupCancelled, Claim
  <2>7. CASE Lookup(e) \/ Seed(e)
    BY <2>1, <2>2, <2>4, <2>7 DEF Lookup, Seed
  <2>8. CASE Refused(e) \/ Finish(e)
    <3>1. row' \in [Planned -> Rows]
      BY <2>8, <2>2, <2>3, <2>4, <1>0, UpdateStep DEF Refused, Finish
    <3> QED BY <2>1, <2>2, <2>8, <3>1 DEF Refused, Finish
  <2>9. CASE Beat(e)
    <3>1. row' \in [Planned -> Rows]
      BY <2>9, <2>2, <2>3, <1>0, UpdateStep DEF Beat
    <3> QED BY <2>9, <3>1 DEF Beat, TypeOK, creation
  <2>10. CASE Die(e)
    <3>1. "idle" \in Places /\ "idle" \notin Picks
      BY DEF Places, Picks, RunPlaces
    <3>2. met' \subseteq HazardKinds
      BY <2>10, <1>0, MeetType DEF Die
    <3>3. /\ todo' \in [Terminals \cup Clerks -> SUBSET Planned]
          /\ skip' \in [Terminals -> SUBSET Planned]
      BY <2>10 DEF Die, TypeOK
    <3> QED BY <2>0, <2>10, <3>1, <3>2, <3>3, MoveType DEF Die, TypeOK, creation, Places, Picks
  <2>11. CASE NothingToSeed(e)
    BY <2>0, <2>11, LeaveType DEF NothingToSeed, TypeOK, creation, Places, Picks
  <2> QED BY <1>4, <2>5, <2>6, <2>7, <2>8, <2>9, <2>10, <2>11 DEF RunStep
<1>5. ASSUME NEW k \in Planned, Release(k)
      PROVE  TypeOK'
  <2>1. row' \in [Planned -> Rows]
    BY <1>5, <1>0, StatusStep DEF Release
  <2> QED BY <1>5, <2>1 DEF Release, TypeOK, creation
<1>6. ASSUME NEW p \in Pickers, PickerStep(p)
      PROVE  TypeOK'
  <2>1. CASE Choose(p)
    <3>1. "writing" \in Places /\ p \in Processes /\ run[p] \in Planned
      BY <2>1, <1>0 DEF Places, Choose, TypeOK
    <3> QED BY <2>1, <3>1, MoveType DEF Choose, TypeOK, creation, Places, Picks
  <2>2. CASE SetBaseline(p)
    <3>1. run[p] \in Planned
      BY <2>2 DEF SetBaseline, TypeOK
    <3>2. baseline' \in [Scenarios -> Planned \cup {NoRun}]
      BY <2>2, <3>1 DEF SetBaseline, TypeOK
    <3> QED BY <2>2, <3>2, LeaveType DEF SetBaseline, TypeOK, creation, Places, Picks
  <2> QED BY <1>6, <2>1, <2>2 DEF PickerStep
<1>7. ASSUME NEW u \in Curators, NEW k \in Planned, Pick(u, k)
      PROVE  TypeOK'
  <2>1. "choosing" \in Places /\ u \in Processes /\ u \in Pickers /\ run'[u] = k
    BY <1>0, <1>7 DEF Places, Pick, TypeOK
  <2> QED BY <1>7, <2>1, MoveType DEF Pick, TypeOK, creation, Places, Picks
<1>8. ASSUME NEW c \in Clerks, ClerkStep(c)
      PROVE  TypeOK'
  <2>0. c \in Processes /\ c \notin Pickers
    BY <1>0, DistinctProcesses DEF Pickers, Executors
  <2>1. ASSUME NEW to \in ClerkPlaces \cup {"done"}, Goto(c, to), UNCHANGED run
        PROVE  /\ pc' \in [Processes -> Places]
               /\ run' \in [Pickers -> Planned \cup {NoRun}]
               /\ \A q \in Pickers : pc'[q] \in Picks => run'[q] \in Planned
    BY <2>0, <2>1, MoveType DEF Places
  <2>2. \A at \in {"flagging", "collecting", "gathering", "removing"} : at \in ClerkPlaces
    BY DEF ClerkPlaces
  <2>3. CASE Cancel(c) \/ Delete(c)
    BY <2>1, <2>2, <2>3 DEF Cancel, Delete, TypeOK, creation, Places, Picks
  <2>4. CASE Flag(c)
    BY <2>1, <2>2, <2>4 DEF Flag, TypeOK, creation, Places, Picks
  <2>5. CASE Collect(c)
    <3>1. row' \in [Planned -> Rows]
      BY <2>5, CollectStep DEF Collect
    <3>2. todo' \in [Terminals \cup Clerks -> SUBSET Planned]
      BY <2>5 DEF Collect, TypeOK, Children
    <3>3. met' \subseteq HazardKinds
      BY <2>5, <1>0, MeetType DEF Collect
    <3> QED BY <2>1, <2>2, <2>5, <3>1, <3>2, <3>3 DEF Collect, TypeOK, creation, Places, Picks
  <2>6. CASE Gather(c)
    <3>1. todo' \in [Terminals \cup Clerks -> SUBSET Planned]
      BY <2>6 DEF Gather, TypeOK, Children
    <3>2. met' \subseteq HazardKinds
      BY <2>6, <1>0, MeetType DEF Gather
    <3> QED BY <2>1, <2>2, <2>6, <3>1, <3>2 DEF Gather, TypeOK, creation, Places, Picks
  <2>7. CASE Conclude(c)
    <3>1. /\ campaign' \in {"absent", "pending", "running", "completed", "interrupted"}
          /\ flagged' \in BOOLEAN
      <4>1. aim[c] \in {"cancel", "delete", "run"}
        BY <2>7 DEF Conclude, Aims
      <4> QED BY <2>7, <4>1 DEF Conclude, UpdateCampaign, TypeOK
    <3> QED BY <2>1, <2>7, <3>1 DEF Conclude, TypeOK, creation, Places, Picks
  <2>8. ASSUME NEW k \in Planned, DeleteRun(c, k)
        PROVE  TypeOK'
    <3>1. todo' \in [Terminals \cup Clerks -> SUBSET Planned]
      BY <2>8 DEF DeleteRun, TypeOK
    <3> QED BY <2>1, <2>2, <2>8, <3>1 DEF DeleteRun, TypeOK, creation, Places, Picks
  <2>9. ASSUME NEW k \in Planned, Remove(c, k)
        PROVE  TypeOK'
    <3>1. row' \in [Planned -> Rows]
      BY <2>9, EraseStep DEF Remove
    <3>2. baseline' \in [Scenarios -> Planned \cup {NoRun}]
      BY <2>9 DEF Remove, TypeOK
    <3>3. todo' \in [Terminals \cup Clerks -> SUBSET Planned]
      BY <2>9 DEF Remove, TypeOK
    <3>4. met' \subseteq HazardKinds
      BY <2>9, <1>0 DEF Remove, HazardsOf, TypeOK
    <3> QED BY <2>9, <3>1, <3>2, <3>3, <3>4 DEF Remove, TypeOK, creation
  <2> QED BY <1>8, <2>3, <2>4, <2>5, <2>6, <2>7, <2>8, <2>9 DEF ClerkStep
<1>9. CASE UNCHANGED vars
  BY <1>9 DEF vars, creation, TypeOK
<1> QED BY <1>1, <1>2, <1>3, <1>4, <1>5, <1>6, <1>7, <1>8, <1>9 DEF Next

-------------------------------------------------------------------------------
(* Who does what to whom. *)

\* What a process is, by what it does.
LEMMA Kinds ==
  /\ Executors \subseteq Pickers /\ Pickers \subseteq Processes
  /\ Terminals \subseteq Executors /\ Workers \subseteq Executors
  /\ Curators \subseteq Pickers /\ Clerks \subseteq Processes
  /\ Executors \cap Clerks = {} /\ Curators \cap Clerks = {}
  /\ Executors \cap Curators = {} /\ Terminals \cap Workers = {}
BY DistinctProcesses DEF Executors, Pickers, Processes

\* A step of p moves nobody else.
Alone(p) ==
  /\ DOMAIN aim' = Processes
  /\ \A q \in Processes \ {p} : pc'[q] = pc[q] /\ aim'[q] = aim[q]
  /\ \A q \in Pickers \ {p} : run'[q] = run[q]
  /\ \A q \in (Terminals \cup Clerks) \ {p} : todo'[q] = todo[q]
  /\ \A q \in Terminals \ {p} : skip'[q] = skip[q]

\* Whatever a process does it does to itself.
LEMMA OthersStay ==
  ASSUME TypeOK, Aims
  PROVE  /\ \A t \in Terminals : TerminalStep(t) => Alone(t)
         /\ \A w \in Workers : WorkerStep(w) => Alone(w)
         /\ \A e \in Executors : RunStep(e) => Alone(e)
         /\ \A p \in Pickers : PickerStep(p) => Alone(p)
         /\ \A u \in Curators, k \in Planned : Pick(u, k) => Alone(u)
         /\ \A c \in Clerks : ClerkStep(c) => Alone(c)
<1> USE DEF TypeOK, Aims, Alone, Goto, Leave
<1>1. ASSUME NEW t \in Terminals, TerminalStep(t)
      PROVE  Alone(t)
  <2>1. CASE Begin(t) \/ Announce(t) \/ ListRuns(t) \/ FailBefore(t)
    BY <2>1 DEF Begin, Announce, ListRuns, FailBefore
  <2>2. CASE HeedCancel(t) \/ Judge(t) \/ Close(t)
    BY <2>2 DEF HeedCancel, Judge, Close
  <2>3. CASE \E k \in Planned : SkipEnded(t, k) \/ Take(t, k)
    BY <2>3 DEF SkipEnded, Take
  <2> QED BY <1>1, <2>1, <2>2, <2>3 DEF TerminalStep
<1>2. ASSUME NEW w \in Workers, WorkerStep(w)
      PROVE  Alone(w)
  BY <1>2 DEF WorkerStep, Arrive, FailTask, Dispatch
<1>3. ASSUME NEW e \in Executors, RunStep(e)
      PROVE  Alone(e)
  <2>1. CASE Die(e)
    BY <2>1 DEF Die
  <2>2. CASE NothingToSeed(e)
    BY <2>2 DEF NothingToSeed
  <2>3. CASE UNCHANGED <<run, todo, skip, aim>> /\ (UNCHANGED pc \/ \E to \in RunPlaces \cup {"choosing"} : Goto(e, to))
    BY <2>3
  <2> QED BY <1>3, <2>1, <2>2, <2>3
          DEF RunStep, LookupNone, LookupCancelled, Lookup, Claim, Refused, Beat,
              Finish, Seed, RunPlaces
<1>4. ASSUME NEW p \in Pickers, PickerStep(p)
      PROVE  Alone(p)
  BY <1>4 DEF PickerStep, Choose, SetBaseline
<1>5. ASSUME NEW u \in Curators, NEW k \in Planned, Pick(u, k)
      PROVE  Alone(u)
  BY <1>5 DEF Pick
<1>6. ASSUME NEW c \in Clerks, ClerkStep(c)
      PROVE  Alone(c)
  <2>1. CASE Cancel(c) \/ Flag(c) \/ Delete(c) \/ Conclude(c)
    BY <2>1 DEF Cancel, Flag, Delete, Conclude
  <2>2. CASE Collect(c) \/ Gather(c)
    BY <2>2 DEF Collect, Gather
  <2>3. CASE \E k \in Planned : DeleteRun(c, k) \/ Remove(c, k)
    BY <2>3 DEF DeleteRun, Remove
  <2> QED BY <1>6, <2>1, <2>2, <2>3 DEF ClerkStep
<1> QED BY <1>1, <1>2, <1>3, <1>4, <1>5, <1>6

\* What no process does moves none.
LEMMA NobodyMoves ==
  ASSUME Making \/ (\E k \in Planned : Release(k)) \/ UNCHANGED vars
  PROVE  UNCHANGED <<pc, run, todo, skip, aim, met>>
BY DEF Making, Create, CreateRun, Created, Trigger, Release, vars

-------------------------------------------------------------------------------
(* Aims. *)

\* A step of a picker that leaves its own aim in order.
LEMMA PickerAims ==
  ASSUME TypeOK, Aims, NEW p \in Pickers, Alone(p),
         p \in Terminals /\ pc'[p] = "closing" => aim'[p] \in {"running", "completed", "interrupted"},
         pc'[p] = "writing" => aim'[p] \in Scenarios
  PROVE  Aims'
<1>1. p \notin Clerks
  BY Kinds DEF Pickers
<1>2. \A q \in Processes : q # p => pc'[q] = pc[q] /\ aim'[q] = aim[q]
  BY DEF Alone
<1>3. DOMAIN aim' = Processes
  BY DEF Alone
<1> QED BY <1>1, <1>2, <1>3, Kinds DEF Aims

\* Every step keeps the aims in order.
LEMMA AimsStep ==
  ASSUME TypeOK, Aims, [Next]_vars
  PROVE  Aims'
<1>1. CASE UNCHANGED <<pc, aim>>
  BY <1>1 DEF Aims
<1>2. ASSUME NEW t \in Terminals, TerminalStep(t)
      PROVE  Aims'
  <2>0. t \in Processes /\ t \in Pickers /\ Alone(t)
    BY <1>2, Kinds, OthersStay
  <2>1. CASE HeedCancel(t) \/ Judge(t)
    <3>1. pc'[t] = "closing" /\ aim'[t] \in {"running", "completed", "interrupted"}
      BY <2>0, <2>1 DEF HeedCancel, Judge, Verdict, Goto, TypeOK, Aims
    <3> QED BY <2>0, <3>1, PickerAims
  <2>2. CASE \E k \in Planned : SkipEnded(t, k)
    BY <1>1, <2>2 DEF SkipEnded
  <2>3. CASE pc'[t] \notin {"closing", "writing"}
    BY <2>0, <2>3, PickerAims
  <2> QED BY <1>2, <2>0, <2>1, <2>2, <2>3
          DEF TerminalStep, Begin, Announce, ListRuns, Close, FailBefore, Take, Goto, TypeOK
<1>3. ASSUME NEW w \in Workers, WorkerStep(w)
      PROVE  Aims'
  <2>0. w \in Processes /\ w \in Pickers /\ w \notin Terminals /\ Alone(w)
    BY <1>3, Kinds, OthersStay
  <2>1. pc'[w] \notin {"closing", "writing"}
    BY <1>3, <2>0 DEF WorkerStep, Arrive, FailTask, Dispatch, Goto, Leave, TypeOK
  <2> QED BY <2>0, <2>1, PickerAims
<1>4. ASSUME NEW e \in Executors, RunStep(e)
      PROVE  Aims'
  <2>0. e \in Processes /\ e \in Pickers /\ Alone(e)
    BY <1>4, Kinds, OthersStay
  <2>1. CASE Beat(e)
    BY <1>1, <2>1 DEF Beat
  <2>2. CASE pc'[e] \notin {"closing", "writing"}
    BY <2>0, <2>2, PickerAims
  <2> QED BY <1>4, <2>0, <2>1, <2>2
          DEF RunStep, LookupNone, LookupCancelled, Lookup, Claim, Refused, Finish,
              Die, Seed, NothingToSeed, Goto, Leave, TypeOK
<1>5. ASSUME NEW p \in Pickers, PickerStep(p)
      PROVE  Aims'
  <2>0. p \in Processes /\ Alone(p)
    BY <1>5, Kinds, OthersStay
  <2>1. CASE Choose(p)
    <3>1. row[run[p]].scenario \in Scenarios
      BY <2>1 DEF Choose, TypeOK, Rows
    <3>2. pc'[p] = "writing" /\ aim'[p] \in Scenarios
      BY <2>0, <2>1, <3>1 DEF Choose, Goto, TypeOK, Aims
    <3> QED BY <2>0, <3>2, PickerAims
  <2>2. CASE SetBaseline(p)
    <3>1. pc'[p] \notin {"closing", "writing"}
      BY <2>0, <2>2 DEF SetBaseline, Leave, Goto, TypeOK
    <3> QED BY <2>0, <3>1, PickerAims
  <2> QED BY <1>5, <2>1, <2>2 DEF PickerStep
<1>6. ASSUME NEW u \in Curators, NEW k \in Planned, Pick(u, k)
      PROVE  Aims'
  <2>1. u \in Pickers /\ Alone(u) /\ pc'[u] = "choosing"
    BY <1>6, Kinds, OthersStay DEF Pick, Goto, TypeOK
  <2> QED BY <2>1, PickerAims
<1>7. ASSUME NEW c \in Clerks, ClerkStep(c)
      PROVE  Aims'
  <2>0. c \in Processes /\ c \notin Pickers /\ Alone(c)
    BY <1>7, Kinds, OthersStay DEF Pickers
  <2>1. /\ \A q \in Processes : q # c => pc'[q] = pc[q] /\ aim'[q] = aim[q]
        /\ DOMAIN aim' = Processes
    BY <2>0 DEF Alone
  <2>2. ASSUME aim'[c] \in {"none", "cancel", "delete", "run"},
               pc'[c] \in {"flagging", "collecting"} => aim'[c] = "cancel",
               pc'[c] = "gathering" => aim'[c] = "delete",
               pc'[c] = "removing" => aim'[c] # "none",
               pc'[c] \notin ClerkPlaces => aim'[c] = "none",
               pc'[c] \in ClerkPlaces \cup {"idle", "done"}
        PROVE  Aims'
    BY <2>0, <2>1, <2>2, Kinds DEF Aims
  <2>3. CASE Cancel(c) \/ Delete(c) \/ Conclude(c)
    BY <2>0, <2>2, <2>3 DEF Cancel, Delete, Conclude, Goto, TypeOK, Aims, ClerkPlaces
  <2>4. CASE Flag(c) \/ Collect(c) \/ Gather(c)
    BY <2>0, <2>2, <2>4 DEF Flag, Collect, Gather, Goto, TypeOK, Aims, ClerkPlaces
  <2>5. CASE \E k \in Planned : DeleteRun(c, k)
    BY <2>0, <2>2, <2>5 DEF DeleteRun, Goto, TypeOK, Aims, ClerkPlaces
  <2>6. CASE \E k \in Planned : Remove(c, k)
    BY <1>1, <2>6 DEF Remove
  <2> QED BY <1>7, <2>3, <2>4, <2>5, <2>6 DEF ClerkStep
<1> QED BY <1>1, <1>2, <1>3, <1>4, <1>5, <1>6, <1>7, NobodyMoves DEF Next

-------------------------------------------------------------------------------
(* What becomes of each row. *)

Keeps(k) ==
  /\ Exists(k)' <=> Exists(k)
  /\ row'[k].child = row[k].child /\ row'[k].scenario = row[k].scenario

\* The row of k stays, or goes and everybody who had it in mind is a hazard, or
\* is created, or is inserted again by the executor that misses it.
RowStep(k) ==
  \/ Keeps(k)
  \/ ~Exists(k)' /\ \E c \in Clerks : Remove(c, k)
  \/ CreateRun /\ k = planned' /\ row'[k] = Pending(TRUE, ScenarioOf[k])
  \/ /\ ~Exists(k)
     /\ \E e \in Executors : run[e] = k /\ pc[e] \in {"arriving", "lookup"}

\* Nothing else becomes of a row.
LEMMA RowSteps ==
  ASSUME TypeOK, [Next]_vars
  PROVE  \A k \in Planned : RowStep(k)
<1>1. row' = row => \A k \in Planned : RowStep(k)
  BY DEF RowStep, Keeps, Exists
<1>2. ASSUME NEW k \in Planned, NEW s \in Statuses, SetStatus(k, s), Exists(k)
      PROVE  \A j \in Planned : RowStep(j)
  BY <1>2, StatusStep DEF RowStep, Keeps, Exists, Sets, Statuses, Ends
<1>3. ASSUME NEW k \in Planned, NEW s \in Statuses, UpdateRun(k, s)
      PROVE  \A j \in Planned : RowStep(j)
  BY <1>1, <1>2, <1>3 DEF UpdateRun
<1>4. ASSUME NEW k \in Planned, ~Exists(k), \A j \in Planned \ {k} : row'[j] = row[j],
             \E e \in Executors : run[e] = k /\ pc[e] \in {"arriving", "lookup"}
      PROVE  \A j \in Planned : RowStep(j)
  BY <1>4 DEF RowStep, Keeps, Exists
<1>5. ASSUME NEW e \in Executors, pc[e] \in RunPlaces
      PROVE  run[e] \in Planned
  BY <1>5, Kinds DEF TypeOK
<1>6. {"completed", "failed", "interrupted", "running"} \subseteq Statuses /\ Ends \subseteq Statuses
  BY DEF Statuses, Ends
<1>7. CASE Making
  <2>1. CASE CreateRun
    <3>1. planned' \in Planned
      BY <2>1, CampaignAssumption DEF CreateRun, TypeOK, Planned
    <3>2. \A k \in Planned : k # planned' => row'[k] = row[k]
      BY <2>1, <3>1 DEF CreateRun, TypeOK
    <3>3. row'[planned'] = Pending(TRUE, ScenarioOf[planned'])
      BY <2>1, <3>1 DEF CreateRun, TypeOK
    <3> QED BY <2>1, <3>2, <3>3 DEF RowStep, Keeps, Exists
  <2> QED BY <1>1, <1>7, <2>1 DEF Making, Create, Created, Trigger
<1>8. ASSUME NEW t \in Terminals, TerminalStep(t)
      PROVE  \A k \in Planned : RowStep(k)
  <2>1. CASE FailBefore(t)
    BY <2>1, <1>3, <1>5, <1>6, Kinds DEF FailBefore, RunPlaces
  <2> QED BY <1>1, <1>8, <2>1
          DEF TerminalStep, Begin, Announce, ListRuns, HeedCancel, Judge, Close, SkipEnded, Take
<1>9. ASSUME NEW w \in Workers, WorkerStep(w)
      PROVE  \A k \in Planned : RowStep(k)
  <2>1. CASE Arrive(w)
    <3>1. run[w] \in Planned
      BY <2>1, <1>5, Kinds DEF Arrive, RunPlaces
    <3>2. CASE Exists(run[w])
      BY <1>1, <2>1, <3>2 DEF Arrive
    <3>3. CASE ~Exists(run[w])
      BY <1>4, <2>1, <3>1, <3>3, Kinds DEF Arrive, TypeOK
    <3> QED BY <3>2, <3>3
  <2> QED BY <1>1, <1>9, <2>1 DEF WorkerStep, FailTask, Dispatch
<1>10. ASSUME NEW e \in Executors, RunStep(e)
       PROVE  \A k \in Planned : RowStep(k)
  <2>1. CASE LookupNone(e)
    <3>1. run[e] \in Planned
      BY <2>1, <1>5 DEF LookupNone, RunPlaces
    <3> QED BY <1>1, <1>4, <2>1, <3>1 DEF LookupNone, TypeOK
  <2>2. CASE LookupCancelled(e) \/ Claim(e)
    BY <1>2, <1>5, <1>6, <2>2 DEF LookupCancelled, Claim, RunPlaces
  <2>3. CASE Refused(e) \/ Beat(e) \/ Finish(e)
    BY <1>1, <1>3, <1>5, <1>6, <2>3 DEF Refused, Beat, Finish, RunPlaces
  <2> QED BY <1>1, <1>10, <2>1, <2>2, <2>3 DEF RunStep, Lookup, Die, Seed, NothingToSeed
<1>11. ASSUME NEW k \in Planned, Release(k)
       PROVE  \A j \in Planned : RowStep(j)
  BY <1>2, <1>6, <1>11 DEF Release, Exists
<1>12. ASSUME NEW c \in Clerks, ClerkStep(c)
       PROVE  \A k \in Planned : RowStep(k)
  <2>1. CASE Collect(c)
    BY <2>1, CollectStep DEF Collect, Flags, RowStep, Keeps, Exists
  <2>2. ASSUME NEW k \in Planned, Remove(c, k)
        PROVE  \A j \in Planned : RowStep(j)
    <3>1. Erases(k)
      BY <2>2, EraseStep DEF Remove
    <3>2. RowStep(k)
      BY <2>2, <3>1 DEF Erases, RowStep, Exists
    <3> QED BY <3>1, <3>2 DEF Erases, RowStep, Keeps, Exists
  <2> QED BY <1>1, <1>12, <2>1, <2>2 DEF ClerkStep, Cancel, Flag, Delete, Gather, Conclude, DeleteRun
<1> QED BY <1>1, <1>7, <1>8, <1>9, <1>10, <1>11, <1>12
        DEF Next, PickerStep, Choose, SetBaseline, Pick, vars

-------------------------------------------------------------------------------
(* Nobody is ahead of create_campaign, and no terminal behind its list. *)

\* Runs are handed out, listed and noted only when they have rows.
LEMMA OnlyPlannedStep ==
  ASSUME TypeOK, Aims, OnlyPlanned, [Next]_vars
  PROVE  OnlyPlanned'
<1>1. planned' \in Nat /\ planned \in Nat /\ planned <= planned'
  <2>1. planned \in Nat
    BY CampaignAssumption DEF TypeOK
  <2>2. CASE CreateRun
    BY <2>1, <2>2 DEF CreateRun
  <2>3. CASE UNCHANGED planned
    BY <2>1, <2>3
  <2>4. CASE Making
    BY <2>2, <2>3, <2>4 DEF Making, Create, Created, Trigger
  <2>5. CASE \E e \in Executors : RunStep(e)
    BY <2>3, <2>5
       DEF RunStep, LookupNone, LookupCancelled, Lookup, Claim, Refused, Beat, Finish,
           Die, Seed, NothingToSeed, creation
  <2>6. CASE \E c \in Clerks : ClerkStep(c)
    BY <2>3, <2>6
       DEF ClerkStep, Cancel, Flag, Collect, Delete, Gather, Conclude, DeleteRun,
           Remove, creation
  <2>7. CASE \E t \in Terminals : TerminalStep(t)
    BY <2>3, <2>7
       DEF TerminalStep, Begin, Announce, ListRuns, HeedCancel, SkipEnded, Take, Judge,
           Close, FailBefore, creation
  <2> QED BY <2>3, <2>4, <2>5, <2>6, <2>7
          DEF Next, vars, creation, WorkerStep, Arrive, FailTask, Dispatch, Release,
              PickerStep, Choose, SetBaseline, Pick
<1>2. ASSUME NEW k \in Planned, Exists(k)'
      PROVE  k <= planned'
  <2>1. RowStep(k)
    BY RowSteps
  <2>2. ASSUME NEW e \in Executors, run[e] = k
        PROVE  k <= planned
    <3>1. e \in Pickers /\ k # NoRun
      BY Kinds, CampaignAssumption
    <3> QED BY <2>2, <3>1 DEF OnlyPlanned
  <2>3. planned \in Nat /\ k \in Nat
    BY <1>1 DEF Planned
  <2>4. k <= planned \/ k = planned'
    BY <1>2, <2>1, <2>2 DEF RowStep, Keeps, OnlyPlanned
  <2> QED BY <1>1, <2>3, <2>4
<1>3. \A k \in Planned : Exists(k) => k <= planned'
  BY <1>1 DEF OnlyPlanned, Planned
<1>4. ASSUME NEW p \in Processes, Alone(p),
             p \in Pickers => run'[p] \in {run[p], NoRun}
                              \/ \E k \in Planned : run'[p] = k /\ k <= planned',
             p \in Terminals \cup Clerks => \A k \in todo'[p] : k \in todo[p] \/ k <= planned'
      PROVE  OnlyPlanned'
  <2>1. \A q \in Pickers : run'[q] # NoRun => run'[q] <= planned'
    <3> SUFFICES ASSUME NEW q \in Pickers, run'[q] # NoRun
                 PROVE  run'[q] <= planned'
      OBVIOUS
    <3>1. run[q] # NoRun => run[q] \in Nat /\ run[q] <= planned'
      BY <1>1 DEF OnlyPlanned, TypeOK, Planned
    <3> QED BY <1>4, <3>1 DEF Alone
  <2>2. \A q \in Terminals \cup Clerks : \A k \in todo'[q] : k <= planned'
    <3> SUFFICES ASSUME NEW q \in Terminals \cup Clerks, NEW k \in todo'[q]
                 PROVE  k <= planned'
      OBVIOUS
    <3>1. k \in todo[q] => k \in Nat /\ k <= planned'
      BY <1>1 DEF OnlyPlanned, TypeOK, Planned
    <3> QED BY <1>4, <3>1 DEF Alone
  <2> QED BY <1>2, <2>1, <2>2 DEF OnlyPlanned
<1>5. UNCHANGED <<run, todo>> => OnlyPlanned'
  <2> SUFFICES ASSUME UNCHANGED <<run, todo>>
               PROVE  OnlyPlanned'
    OBVIOUS
  <2>1. \A p \in Pickers : run[p] # NoRun => run[p] <= planned'
    BY <1>1 DEF OnlyPlanned, TypeOK, Planned
  <2>2. \A p \in Terminals \cup Clerks : \A k \in todo[p] : k <= planned'
    BY <1>1 DEF OnlyPlanned, TypeOK, Planned
  <2> QED BY <1>2, <2>1, <2>2 DEF OnlyPlanned
<1>6. ASSUME NEW t \in Terminals, TerminalStep(t)
      PROVE  OnlyPlanned'
  <2>0. t \in Processes /\ t \in Pickers /\ Alone(t)
    BY <1>6, Kinds, OthersStay
  <2>1. CASE ListRuns(t)
    BY <1>3, <1>4, <2>0, <2>1 DEF ListRuns, Children, TypeOK
  <2>2. ASSUME NEW k \in Planned, Take(t, k)
        PROVE  OnlyPlanned'
    <3>1. k <= planned'
      BY <1>1, <2>2 DEF Take, IsFirst, OnlyPlanned, TypeOK, Planned
    <3> QED BY <1>4, <2>0, <2>2, <3>1 DEF Take, TypeOK
  <2>3. CASE UNCHANGED run /\ todo'[t] \subseteq todo[t]
    BY <1>4, <2>0, <2>3
  <2> QED BY <1>6, <2>1, <2>2, <2>3
          DEF TerminalStep, Begin, Announce, HeedCancel, SkipEnded, Judge, Close,
              FailBefore, TypeOK
<1>7. ASSUME NEW w \in Workers, WorkerStep(w)
      PROVE  OnlyPlanned'
  <2>0. w \in Processes /\ w \in Pickers /\ Alone(w)
    BY <1>7, Kinds, OthersStay
  <2>1. ASSUME NEW k \in Planned, Dispatch(w, k)
        PROVE  OnlyPlanned'
    <3>1. k <= planned'
      BY <1>3, <2>1 DEF Dispatch, IsFirst, Waiting, Exists
    <3> QED BY <1>4, <2>0, <2>1, <3>1 DEF Dispatch, TypeOK
  <2>2. CASE Arrive(w)
    BY <1>5, <2>2 DEF Arrive
  <2>3. CASE FailTask(w)
    BY <1>4, <2>0, <2>3 DEF FailTask, Leave, TypeOK
  <2> QED BY <1>7, <2>1, <2>2, <2>3 DEF WorkerStep
<1>8. ASSUME NEW e \in Executors, RunStep(e)
      PROVE  OnlyPlanned'
  <2>0. e \in Processes /\ e \in Pickers /\ Alone(e)
    BY <1>8, Kinds, OthersStay
  <2>1. CASE Die(e)
    BY <1>4, <2>0, <2>1 DEF Die, TypeOK
  <2>2. CASE NothingToSeed(e)
    BY <1>4, <2>0, <2>2 DEF NothingToSeed, Leave, TypeOK
  <2> QED BY <1>5, <1>8, <2>1, <2>2
          DEF RunStep, LookupNone, LookupCancelled, Lookup, Claim, Refused, Beat, Finish, Seed
<1>9. ASSUME NEW p \in Pickers, PickerStep(p)
      PROVE  OnlyPlanned'
  <2>0. p \in Processes /\ Alone(p)
    BY <1>9, Kinds, OthersStay
  <2> QED BY <1>4, <1>5, <1>9, <2>0 DEF PickerStep, Choose, SetBaseline, Leave, TypeOK
<1>10. ASSUME NEW u \in Curators, NEW k \in Planned, Pick(u, k)
       PROVE  OnlyPlanned'
  <2>0. u \in Processes /\ u \in Pickers /\ Alone(u)
    BY <1>10, Kinds, OthersStay
  <2> QED BY <1>3, <1>4, <1>10, <2>0 DEF Pick, TypeOK
<1>11. ASSUME NEW c \in Clerks, ClerkStep(c)
       PROVE  OnlyPlanned'
  <2>0. c \in Processes /\ c \notin Pickers /\ Alone(c)
    BY <1>11, Kinds, OthersStay DEF Pickers
  <2>1. CASE Collect(c) \/ Gather(c)
    BY <1>3, <1>4, <2>0, <2>1 DEF Collect, Gather, Children, TypeOK
  <2>2. CASE \E k \in Planned : DeleteRun(c, k)
    BY <1>3, <1>4, <2>0, <2>2 DEF DeleteRun, TypeOK
  <2>3. CASE \E k \in Planned : Remove(c, k)
    BY <1>4, <2>0, <2>3 DEF Remove, TypeOK
  <2> QED BY <1>5, <1>11, <2>1, <2>2, <2>3 DEF ClerkStep, Cancel, Flag, Delete, Conclude
<1> QED BY <1>5, <1>6, <1>7, <1>8, <1>9, <1>10, <1>11, NobodyMoves DEF Next

-------------------------------------------------------------------------------
(* Terminals. *)

\* A terminal's list is ahead of it.
LEMMA ListStep ==
  ASSUME TypeOK, Aims, ListIsAhead, [Next]_vars
  PROVE  ListIsAhead'
<1>1. UNCHANGED <<pc, run, todo>> => ListIsAhead'
  BY DEF ListIsAhead
<1>2. ASSUME NEW p \in Processes, Alone(p),
             p \in Terminals =>
               /\ run'[p] \notin todo'[p]
               /\ pc'[p] \in {"idle"} \cup TerminalPlaces => run'[p] = NoRun
               /\ pc'[p] \in {"idle", "announcing", "listing", "closing"} => todo'[p] = {}
      PROVE  ListIsAhead'
  <2>1. \A t \in Terminals : t # p => pc'[t] = pc[t] /\ run'[t] = run[t] /\ todo'[t] = todo[t]
    BY <1>2, Kinds DEF Alone
  <2> QED BY <1>2, <2>1 DEF ListIsAhead
<1>3. ASSUME NEW t \in Terminals, TerminalStep(t)
      PROVE  ListIsAhead'
  <2>0. t \in Processes /\ t \in Pickers /\ Alone(t)
    BY <1>3, Kinds, OthersStay
  <2>1. CASE Begin(t) \/ Announce(t) \/ ListRuns(t) \/ FailBefore(t)
    BY <1>2, <2>0, <2>1, CampaignAssumption
       DEF Begin, Announce, ListRuns, FailBefore, Goto, Children, TypeOK, ListIsAhead,
           TerminalPlaces
  <2>2. CASE HeedCancel(t) \/ Judge(t) \/ Close(t)
    BY <1>2, <2>0, <2>2
       DEF HeedCancel, Judge, Close, Goto, TypeOK, ListIsAhead, TerminalPlaces
  <2>3. ASSUME NEW k \in Planned, SkipEnded(t, k) \/ Take(t, k)
        PROVE  ListIsAhead'
    BY <1>2, <2>0, <2>3 DEF SkipEnded, Take, Goto, TypeOK, ListIsAhead, TerminalPlaces
  <2> QED BY <1>3, <2>1, <2>2, <2>3 DEF TerminalStep
<1>4. ASSUME NEW w \in Workers, WorkerStep(w)
      PROVE  ListIsAhead'
  BY <1>2, <1>4, Kinds, OthersStay
<1>5. ASSUME NEW e \in Executors, RunStep(e)
      PROVE  ListIsAhead'
  <2>0. e \in Processes /\ e \in Pickers /\ Alone(e)
    BY <1>5, Kinds, OthersStay
  <2>1. CASE Beat(e)
    BY <1>1, <2>1 DEF Beat
  <2>2. CASE Die(e)
    BY <1>2, <2>0, <2>2, CampaignAssumption DEF Die, Goto, TypeOK, TerminalPlaces
  <2>3. CASE NothingToSeed(e)
    BY <1>2, <2>0, <2>3, CampaignAssumption
       DEF NothingToSeed, Leave, Goto, TypeOK, TerminalPlaces
  <2>4. CASE UNCHANGED <<run, todo>> /\ \E to \in RunPlaces \cup {"choosing"} : Goto(e, to)
    BY <1>2, <2>0, <2>4 DEF Goto, TypeOK, RunPlaces, TerminalPlaces, ListIsAhead
  <2> QED BY <1>5, <2>1, <2>2, <2>3, <2>4
          DEF RunStep, LookupNone, LookupCancelled, Lookup, Claim, Refused, Finish, Seed,
              RunPlaces
<1>6. ASSUME NEW p \in Pickers, PickerStep(p)
      PROVE  ListIsAhead'
  <2>0. p \in Processes /\ Alone(p)
    BY <1>6, Kinds, OthersStay
  <2>1. CASE Choose(p)
    BY <1>2, <2>0, <2>1 DEF Choose, Goto, TypeOK, TerminalPlaces, ListIsAhead
  <2>2. CASE SetBaseline(p)
    BY <1>2, <2>0, <2>2, CampaignAssumption
       DEF SetBaseline, Leave, Goto, TypeOK, TerminalPlaces
  <2> QED BY <1>6, <2>1, <2>2 DEF PickerStep
<1>7. ASSUME NEW u \in Curators, NEW k \in Planned, Pick(u, k)
      PROVE  ListIsAhead'
  BY <1>2, <1>7, Kinds, OthersStay
<1>8. ASSUME NEW c \in Clerks, ClerkStep(c)
      PROVE  ListIsAhead'
  BY <1>2, <1>8, Kinds, OthersStay
<1> QED BY <1>1, <1>3, <1>4, <1>5, <1>6, <1>7, <1>8, NobodyMoves DEF Next

-------------------------------------------------------------------------------
(* The campaign's row. *)

\* create_campaign goes forward; only a delete takes the campaign away, and only a
\* cancel flags it.
LEMMA CampaignRow ==
  ASSUME TypeOK, Aims, [Next]_vars
  PROVE  /\ maker' = maker \/ Making
         /\ campaign' # "absent" => campaign # "absent" \/ Create
         /\ campaign' = "absent" =>
              campaign = "absent" \/ \E c \in Clerks : Conclude(c) /\ aim[c] = "delete"
         /\ flagged' => flagged \/ \E c \in Clerks : Flag(c)
         /\ met \subseteq met'
<1> DEFINE Goal ==
         /\ maker' = maker \/ Making
         /\ campaign' # "absent" => campaign # "absent" \/ Create
         /\ campaign' = "absent" =>
              campaign = "absent" \/ \E c \in Clerks : Conclude(c) /\ aim[c] = "delete"
         /\ flagged' => flagged \/ \E c \in Clerks : Flag(c)
         /\ met \subseteq met'
<1>1. UNCHANGED <<campaign, flagged, maker>> /\ met \subseteq met' => Goal
  OBVIOUS
<1>2. CASE Making
  <2>1. UNCHANGED <<flagged, met>>
    BY <1>2 DEF Making, Create, CreateRun, Created, Trigger
  <2>2. CASE Create
    <3>1. campaign' # "absent"
      BY <2>2 DEF Create
    <3> QED BY <1>2, <2>1, <2>2, <3>1
  <2>3. CASE CreateRun \/ Created
    <3>1. UNCHANGED campaign
      BY <2>3 DEF CreateRun, Created
    <3> QED BY <1>2, <2>1, <3>1
  <2>4. CASE Trigger
    <3>1. campaign' = campaign \/ (campaign # "absent" /\ campaign' # "absent")
      BY <2>4 DEF Trigger, UpdateCampaign
    <3> QED BY <1>2, <2>1, <3>1
  <2> QED BY <1>2, <2>2, <2>3, <2>4 DEF Making
<1>3. ASSUME NEW t \in Terminals, TerminalStep(t)
      PROVE  Goal
  <2>1. CASE Announce(t) \/ Close(t)
    BY <2>1 DEF Announce, Close, UpdateCampaign, Aims, creation
  <2> QED BY <1>1, <1>3, <2>1
          DEF TerminalStep, Begin, ListRuns, HeedCancel, SkipEnded, Take, Judge, FailBefore,
              creation
<1>4. ASSUME NEW w \in Workers, WorkerStep(w)
      PROVE  Goal
  BY <1>1, <1>4 DEF WorkerStep, Arrive, FailTask, Dispatch, Meet, creation
<1>5. ASSUME NEW e \in Executors, RunStep(e)
      PROVE  Goal
  BY <1>1, <1>5
     DEF RunStep, LookupNone, LookupCancelled, Lookup, Claim, Refused, Beat, Finish, Die,
         Seed, NothingToSeed, Meet, creation
<1>6. ASSUME NEW c \in Clerks, ClerkStep(c)
      PROVE  Goal
  <2>1. CASE Conclude(c)
    <3>1. aim[c] \in {"cancel", "delete", "run"}
      BY <2>1 DEF Conclude, Aims
    <3> QED BY <2>1, <3>1 DEF Conclude, UpdateCampaign, creation
  <2>2. CASE Flag(c)
    BY <2>2 DEF Flag, creation
  <2> QED BY <1>1, <1>6, <2>1, <2>2
          DEF ClerkStep, Cancel, Collect, Delete, Gather, DeleteRun, Remove, Meet, creation
<1> QED BY <1>1, <1>2, <1>3, <1>4, <1>5, <1>6
        DEF Next, vars, creation, Release, PickerStep, Choose, SetBaseline, Pick

\* How the creation proceeds.
LEMMA MakerStep ==
  ASSUME TypeOK, Aims, [Next]_vars
  PROVE  /\ maker' = "idle" => maker = "idle"
         /\ maker \in {"triggered", "done"} => maker' \in {"triggered", "done"} /\ ~CreateRun
<1>1. Making => /\ maker' # "idle"
                /\ maker \in {"triggered", "done"} => maker' = "done" /\ ~CreateRun
  BY DEF Making, Create, CreateRun, Created, Trigger
<1> QED BY <1>1, CampaignRow DEF CreateRun

\* Who cancels or deletes a campaign has seen it.
LEMMA StartedStep ==
  ASSUME TypeOK, Aims, Started, [Next]_vars
  PROVE  Started'
<1>1. campaign' # "absent" => maker' # "idle"
  BY CampaignRow, MakerStep DEF Started, Create
<1>2. ASSUME NEW c \in Clerks, pc'[c] \in {"flagging", "collecting", "gathering"}
      PROVE  maker' # "idle"
  <2>0. c \in Processes /\ c \notin Executors /\ c \notin Pickers
    BY Kinds DEF Pickers
  <2>1. CASE pc'[c] = pc[c]
    BY <1>2, <2>1, MakerStep DEF Started
  <2>2. CASE ClerkStep(c)
    <3>1. pc[c] \in {"flagging"} \/ campaign # "absent" \/ pc'[c] = pc[c]
      BY <1>2, <2>0, <2>2
         DEF ClerkStep, Cancel, Flag, Collect, Delete, Gather, Conclude, DeleteRun,
             Remove, Goto, TypeOK
    <3> QED BY <2>1, <3>1, MakerStep DEF Started
  <2>3. ClerkStep(c) \/ pc'[c] = pc[c]
    BY <2>0, Kinds, OthersStay, NobodyMoves DEF Next, Alone
  <2> QED BY <2>1, <2>2, <2>3
<1> QED BY <1>1, <1>2 DEF Started

-------------------------------------------------------------------------------
(* Baselines. *)

\* A row that is there keeps what it was planned for, or is removed.
LEMMA RowStays ==
  ASSUME TypeOK, OnlyPlanned, [Next]_vars, NEW k \in Planned, Exists(k)
  PROVE  Keeps(k) \/ \E c \in Clerks : Remove(c, k)
<1>1. RowStep(k)
  BY RowSteps
<1>2. ~(CreateRun /\ k = planned')
  <2>1. planned \in Nat /\ k \in Nat /\ k <= planned
    BY CampaignAssumption DEF OnlyPlanned, TypeOK, Planned
  <2>2. CreateRun => planned' = planned + 1
    BY DEF CreateRun
  <2> QED BY <2>1, <2>2
<1> QED BY <1>1, <1>2 DEF RowStep

\* What is removed while somebody picks it is noticed.
LEMMA PickedIsMet ==
  ASSUME NEW k \in Planned, NEW c \in Clerks, Remove(c, k), Unmet({"picked"})',
         NEW p \in Pickers, Picking(p), run[p] = k
  PROVE  FALSE
BY DEF Remove, HazardsOf, Unmet

\* Who begins to pick a run has seen its row, and who has chosen has read it.
LEMMA PickStep ==
  ASSUME TypeOK, Aims, [Next]_vars, NEW p \in Pickers, Picking(p)'
  PROVE  \/ /\ Picking(p) /\ run'[p] = run[p]
            /\ \/ pc'[p] = "writing" => pc[p] = "writing" /\ aim'[p] = aim[p]
               \/ aim'[p] = row[run[p]].scenario /\ row' = row
         \/ pc'[p] = "choosing" /\ row' = row /\ Exists(run'[p])
<1> DEFINE Goal ==
      \/ /\ Picking(p) /\ run'[p] = run[p]
         /\ \/ pc'[p] = "writing" => pc[p] = "writing" /\ aim'[p] = aim[p]
            \/ aim'[p] = row[run[p]].scenario /\ row' = row
      \/ pc'[p] = "choosing" /\ row' = row /\ Exists(run'[p])
<1>0. p \in Processes /\ p \notin Clerks
  BY Kinds DEF Pickers
<1>1. CASE pc'[p] = pc[p] /\ aim'[p] = aim[p] /\ run'[p] = run[p]
  BY <1>1 DEF Picking
<1>2. CASE TerminalStep(p)
  <2>1. CASE \E k \in Planned : SkipEnded(p, k)
    BY <1>1, <2>1 DEF SkipEnded
  <2>2. CASE pc'[p] \notin {"choosing", "writing"}
    BY <2>2 DEF Picking
  <2> QED BY <1>0, <1>2, <2>1, <2>2
          DEF TerminalStep, Begin, Announce, ListRuns, HeedCancel, Take, Judge, Close,
              FailBefore, Goto, TypeOK
<1>3. CASE WorkerStep(p)
  <2>1. pc'[p] \notin {"choosing", "writing"}
    BY <1>0, <1>3 DEF WorkerStep, Arrive, FailTask, Dispatch, Goto, Leave, TypeOK
  <2> QED BY <2>1 DEF Picking
<1>4. CASE RunStep(p)
  <2>1. CASE Beat(p)
    BY <1>1, <2>1 DEF Beat
  <2>2. CASE Seed(p)
    BY <1>0, <2>2 DEF Seed, Goto, TypeOK, Exists
  <2>3. CASE pc'[p] \notin {"choosing", "writing"}
    BY <2>3 DEF Picking
  <2> QED BY <1>0, <1>4, <2>1, <2>2, <2>3
          DEF RunStep, LookupNone, LookupCancelled, Lookup, Claim, Refused, Finish, Die,
              NothingToSeed, Goto, Leave, TypeOK
<1>5. CASE PickerStep(p)
  <2>1. CASE Choose(p)
    <3>1. aim'[p] = row[run[p]].scenario
      BY <1>0, <2>1 DEF Choose, Aims
    <3> QED BY <2>1, <3>1 DEF Choose, Picking
  <2>2. CASE SetBaseline(p)
    <3>1. pc'[p] \notin {"choosing", "writing"}
      BY <1>0, <2>2 DEF SetBaseline, Goto, Leave, TypeOK
    <3> QED BY <3>1 DEF Picking
  <2> QED BY <1>5, <2>1, <2>2 DEF PickerStep
<1>6. ASSUME NEW k \in Planned, Pick(p, k)
      PROVE  Goal
  BY <1>0, <1>6 DEF Pick, Goto, TypeOK, Exists
<1>7. ASSUME NEW q \in Processes, Alone(q), q # p
      PROVE  Goal
  BY <1>0, <1>1, <1>7 DEF Alone
<1> QED BY <1>0, <1>1, <1>2, <1>3, <1>4, <1>5, <1>6, <1>7, Kinds, OthersStay, NobodyMoves DEF Next

\* What is picked is there until its baseline is written.
LEMMA PickedStep ==
  ASSUME TypeOK, Aims, OnlyPlanned, PickedIsThere, [Next]_vars
  PROVE  PickedIsThere'
<1> SUFFICES ASSUME Unmet({"picked"})', NEW p \in Pickers, Picking(p)'
             PROVE  /\ Exists(run[p])'
                    /\ pc'[p] = "writing" => aim'[p] = row'[run'[p]].scenario
  BY DEF PickedIsThere
<1>1. Unmet({"picked"})
  BY CampaignRow DEF Unmet
<1>2. CASE Picking(p) /\ run'[p] = run[p]
  <2>1. Exists(run[p]) /\ (pc[p] = "writing" => aim[p] = row[run[p]].scenario)
    BY <1>1, <1>2 DEF PickedIsThere
  <2>2. run[p] \in Planned
    BY <1>2 DEF TypeOK, Picking
  <2>3. Keeps(run[p])
    BY <1>2, <2>1, <2>2, RowStays, PickedIsMet
  <2>4. Exists(run[p])'
    BY <1>2, <2>1, <2>3 DEF Keeps, Exists
  <2> QED BY <1>2, <2>1, <2>3, <2>4, PickStep DEF Keeps
<1>3. CASE pc'[p] = "choosing" /\ row' = row /\ Exists(run'[p])
  BY <1>3 DEF Exists
<1> QED BY <1>2, <1>3, PickStep

\* Which baselines there are changes when one is written or its run is removed.
LEMMA BaselineStep ==
  ASSUME TypeOK, Aims, OnlyPlanned, PickedIsThere, BaselineReadable, [Next]_vars
  PROVE  BaselineReadable'
<1> SUFFICES ASSUME Unmet({"picked"})', NEW s \in Scenarios, baseline'[s] # NoRun
             PROVE  Exists(baseline[s])' /\ row'[baseline'[s]].scenario = s
  BY DEF BaselineReadable
<1>1. Unmet({"picked"})
  BY CampaignRow DEF Unmet
<1>2. CASE baseline'[s] = baseline[s] /\ \A c \in Clerks : ~Remove(c, baseline[s])
  <2>1. baseline[s] \in Planned /\ Exists(baseline[s]) /\ row[baseline[s]].scenario = s
    BY <1>1, <1>2 DEF BaselineReadable, TypeOK
  <2>2. Keeps(baseline[s])
    BY <1>2, <2>1, RowStays
  <2> QED BY <1>2, <2>1, <2>2 DEF Keeps, Exists
<1>3. ASSUME NEW p \in Pickers, SetBaseline(p)
      PROVE  Exists(baseline[s])' /\ row'[baseline'[s]].scenario = s
  <2>0. row' = row /\ \A c \in Clerks, k \in Planned : ~Remove(c, k)
    <3>1. p \in Processes /\ p \notin Clerks /\ pc'[p] # pc[p]
      BY <1>3, Kinds DEF SetBaseline, Leave, Goto, TypeOK, Pickers
    <3> QED BY <1>3, <3>1 DEF SetBaseline, Remove
  <2>1. CASE s = aim[p]
    <3>1. baseline'[s] = run[p]
      BY <1>3, <2>1 DEF SetBaseline, TypeOK
    <3>2. Exists(run[p]) /\ row[run[p]].scenario = s
      BY <1>1, <1>3, <2>1 DEF SetBaseline, PickedIsThere, Picking
    <3> QED BY <2>0, <3>1, <3>2 DEF Exists
  <2>2. CASE s # aim[p]
    <3>1. baseline'[s] = baseline[s] /\ baseline[s] \in Planned
      BY <1>3, <2>2 DEF SetBaseline, TypeOK
    <3> QED BY <1>2, <2>0, <3>1
  <2> QED BY <2>1, <2>2
<1>4. ASSUME NEW c \in Clerks, NEW k \in Planned, Remove(c, k)
      PROVE  Exists(baseline[s])' /\ row'[baseline'[s]].scenario = s
  <2>1. baseline'[s] = baseline[s] /\ baseline[s] # k /\ baseline[s] \in Planned
    BY <1>4 DEF Remove, TypeOK
  <2>2. row'[baseline[s]] = row[baseline[s]]
    BY <1>4, <2>1, EraseStep DEF Remove, Erases
  <2> QED BY <1>1, <2>1, <2>2 DEF BaselineReadable, Exists
<1>5. CASE UNCHANGED baseline /\ \A c \in Clerks, k \in Planned : ~Remove(c, k)
  BY <1>2, <1>5 DEF TypeOK
<1>6. UNCHANGED baseline \/ (\E p \in Pickers : SetBaseline(p))
        \/ \E c \in Clerks, k \in Planned : Remove(c, k)
  <2>1. CASE Making
    BY <2>1 DEF Making, Create, CreateRun, Created, Trigger
  <2>2. CASE \E t \in Terminals : TerminalStep(t)
    BY <2>2 DEF TerminalStep, Begin, Announce, ListRuns, HeedCancel, SkipEnded, Take, Judge,
       Close, FailBefore
  <2>3. CASE \E e \in Executors : RunStep(e)
    BY <2>3 DEF RunStep, LookupNone, LookupCancelled, Lookup, Claim, Refused, Beat, Finish,
       Die, Seed, NothingToSeed
  <2>4. CASE \E c \in Clerks : ClerkStep(c)
    BY <2>4 DEF ClerkStep, Cancel, Flag, Collect, Delete, Gather, Conclude, DeleteRun
  <2> QED BY <2>1, <2>2, <2>3, <2>4
          DEF Next, vars, WorkerStep, Arrive, FailTask, Dispatch, Release, PickerStep,
              Choose, Pick
<1> QED BY <1>3, <1>4, <1>5, <1>6

-------------------------------------------------------------------------------
(* Runs that are on their way. *)

\* Who comes to have a run on its way has just read its row, of a run that had not
\* ended.
LEMMA AwaitsStep ==
  ASSUME TypeOK, Aims, ListIsAhead, [Next]_vars,
         NEW e \in Executors, NEW k \in Planned, Awaits(e, k)'
  PROVE  \/ Awaits(e, k)
         \/ /\ row' = row /\ Exists(k) /\ ~Ended(k)
            /\ row[k].status = "running" => e \in Terminals /\ pc[e] = "listing"
<1> DEFINE Goal ==
      \/ Awaits(e, k)
      \/ /\ row' = row /\ Exists(k) /\ ~Ended(k)
         /\ row[k].status = "running" => e \in Terminals /\ pc[e] = "listing"
<1>0. e \in Processes /\ e \in Pickers /\ e \notin Clerks /\ e \notin Curators
  BY Kinds
<1>1. CASE /\ pc'[e] = pc[e] /\ run'[e] = run[e]
           /\ e \in Terminals => todo'[e] = todo[e] /\ skip'[e] = skip[e]
  BY <1>1 DEF Awaits
<1>2. CASE /\ pc'[e] \notin {"arriving", "lookup", "claiming"}
           /\ e \in Terminals => todo'[e] \ skip'[e] \subseteq todo[e] \ skip[e]
  BY <1>2 DEF Awaits
<1>3. CASE e \in Terminals /\ TerminalStep(e)
  <2>1. CASE Begin(e) \/ Announce(e) \/ FailBefore(e)
    BY <1>0, <1>2, <2>1 DEF Begin, Announce, FailBefore, Goto, TypeOK
  <2>2. CASE ListRuns(e)
    <3>1. pc'[e] = "loop" /\ row' = row
      BY <1>0, <2>2 DEF ListRuns, Goto, TypeOK
    <3>2. todo'[e] = Children /\ skip'[e] = {j \in Children : Ended(j)}
      BY <1>3, <2>2 DEF ListRuns, TypeOK
    <3>3. k \in Children /\ ~Ended(k)
      BY <3>1, <3>2 DEF Awaits
    <3> QED BY <1>3, <2>2, <3>1, <3>3 DEF Children, ListRuns
  <2>3. CASE HeedCancel(e) \/ Judge(e)
    BY <1>0, <1>2, <1>3, <2>3 DEF HeedCancel, Judge, Goto, TypeOK
  <2>4. CASE Close(e)
    <3>1. todo'[e] = {}
      BY <1>3, <2>4 DEF Close, ListIsAhead
    <3>2. pc'[e] = "idle"
      BY <1>0, <2>4 DEF Close, Goto, TypeOK
    <3> QED BY <1>2, <3>1, <3>2
  <2>5. CASE \E j \in Planned : SkipEnded(e, j)
    <3>1. pc'[e] = "loop"
      BY <2>5 DEF SkipEnded
    <3>2. todo'[e] \ skip'[e] \subseteq todo[e] \ skip[e]
      BY <1>3, <2>5 DEF SkipEnded, TypeOK
    <3> QED BY <1>2, <3>1, <3>2
  <2>6. ASSUME NEW j \in Planned, Take(e, j)
        PROVE  Goal
    <3>1. j \in todo[e] \ skip[e] /\ run'[e] = j
      BY <1>0, <2>6 DEF Take, IsFirst, TypeOK
    <3>2. todo'[e] \ skip'[e] \subseteq todo[e] \ skip[e]
      BY <1>3, <2>6 DEF Take, TypeOK
    <3> QED BY <1>3, <3>1, <3>2 DEF Awaits
  <2> QED BY <1>3, <2>1, <2>2, <2>3, <2>4, <2>5, <2>6 DEF TerminalStep
<1>4. CASE e \in Workers /\ WorkerStep(e)
  <2>0. e \notin Terminals
    BY <1>4, Kinds
  <2>1. CASE Arrive(e)
    BY <1>0, <2>0, <2>1 DEF Arrive, Goto, TypeOK, Awaits
  <2>2. CASE FailTask(e)
    BY <1>0, <1>2, <1>4, <2>0, <2>2 DEF FailTask, Leave, Goto, TypeOK
  <2>3. ASSUME NEW j \in Planned, Dispatch(e, j)
        PROVE  Goal
    <3>1. run'[e] = j
      BY <1>0, <2>3 DEF Dispatch, TypeOK
    <3>2. row[j].status = "pending" /\ row' = row
      BY <2>3 DEF Dispatch, IsFirst, Waiting
    <3>3. k = j
      BY <2>0, <3>1 DEF Awaits
    <3> QED BY <3>2, <3>3 DEF Exists, Ended, Ends
  <2> QED BY <1>4, <2>1, <2>2, <2>3 DEF WorkerStep
<1>5. CASE RunStep(e)
  <2>1. CASE LookupNone(e) \/ Lookup(e)
    BY <1>0, <2>1 DEF LookupNone, Lookup, Goto, TypeOK, Awaits
  <2>2. CASE Refused(e)
    BY <1>0, <2>2 DEF Refused, Goto, TypeOK, Awaits
  <2>3. CASE LookupCancelled(e) \/ Claim(e) \/ Finish(e) \/ Seed(e)
    BY <1>0, <1>2, <2>3 DEF LookupCancelled, Claim, Finish, Seed, Goto, TypeOK
  <2>4. CASE Beat(e)
    BY <1>1, <2>4 DEF Beat
  <2>5. CASE Die(e)
    <3>1. e \in Terminals => todo'[e] = {}
      BY <2>5 DEF Die
    <3>2. pc'[e] = "idle"
      BY <1>0, <2>5 DEF Die, Goto, TypeOK
    <3> QED BY <1>2, <3>1, <3>2
  <2>6. CASE NothingToSeed(e)
    <3>1. pc'[e] \in {"loop", "idle", "done"}
      BY <1>0, <2>6 DEF NothingToSeed, Leave, Goto, TypeOK
    <3> QED BY <1>2, <2>6, <3>1 DEF NothingToSeed
  <2> QED BY <1>5, <2>1, <2>2, <2>3, <2>4, <2>5, <2>6 DEF RunStep
<1>6. CASE PickerStep(e)
  <2>1. pc'[e] \in {"writing", "loop", "idle", "done"}
    BY <1>0, <1>6 DEF PickerStep, Choose, SetBaseline, Leave, Goto, TypeOK
  <2> QED BY <1>2, <1>6, <2>1 DEF PickerStep, Choose, SetBaseline
<1>7. ASSUME NEW q \in Processes, Alone(q), q # e
      PROVE  Goal
  BY <1>0, <1>1, <1>7 DEF Alone
<1> QED BY <1>0, <1>1, <1>3, <1>4, <1>5, <1>6, <1>7, Kinds, OthersStay, NobodyMoves DEF Next

\* What is removed while it is on its way is noticed.
LEMMA HeldIsMet ==
  ASSUME NEW k \in Planned, NEW c \in Clerks, Remove(c, k), Unmet({"held"})',
         NEW e \in Executors, Awaits(e, k)
  PROVE  FALSE
BY DEF Remove, HazardsOf, Unmet

\* A run that is on its way keeps its row, so nobody has to insert it again.
LEMMA AwaitedStep ==
  ASSUME TypeOK, Aims, ListIsAhead, AwaitedIsThere, [Next]_vars
  PROVE  AwaitedIsThere'
<1> SUFFICES ASSUME Unmet({"held"})'
             PROVE  /\ \A e \in Executors, k \in Planned : Awaits(e, k)' => Exists(k)'
                    /\ \A k \in Planned : Exists(k)' => row'[k].child
  BY DEF AwaitedIsThere
<1>0. \A s : Pending(TRUE, s).status = "pending" /\ Pending(TRUE, s).child = TRUE
  BY DEF Pending
<1>1. Unmet({"held"})
  BY CampaignRow DEF Unmet
<1>2. ASSUME NEW e \in Executors, NEW k \in Planned, Awaits(e, k)'
      PROVE  Exists(k)'
  <2>1. CASE row' = row /\ Exists(k)
    BY <2>1 DEF Exists
  <2>2. CASE Awaits(e, k)
    <3>1. Exists(k) /\ \A c \in Clerks : ~Remove(c, k)
      BY <1>1, <2>2, HeldIsMet DEF AwaitedIsThere
    <3>2. row'[k] = Pending(TRUE, ScenarioOf[k]) => Exists(k)'
      BY <1>0 DEF Exists
    <3> QED BY <3>1, <3>2, RowSteps DEF RowStep, Keeps
  <2> QED BY <1>2, <2>1, <2>2, AwaitsStep
<1>3. ASSUME NEW k \in Planned, Exists(k)'
      PROVE  row'[k].child
  <2>1. ASSUME NEW e \in Executors, run[e] = k, pc[e] \in {"arriving", "lookup"}
        PROVE  Exists(k)
    BY <1>1, <2>1 DEF AwaitedIsThere, Awaits
  <2>2. Exists(k) => row[k].child
    BY <1>1 DEF AwaitedIsThere
  <2>3. CASE Keeps(k)
    BY <1>3, <2>2, <2>3 DEF Keeps
  <2>4. CASE row'[k] = Pending(TRUE, ScenarioOf[k])
    BY <1>0, <2>4
  <2> QED BY <1>3, <2>1, <2>2, <2>3, <2>4, RowSteps DEF RowStep, Keeps
<1> QED BY <1>2, <1>3

-------------------------------------------------------------------------------
(* What a clerk does. *)

\* A clerk removes what it has listed, and keeps its errand until it has.
LEMMA ClerkMoves ==
  ASSUME TypeOK, Aims, [Next]_vars, NEW c \in Clerks
  PROVE  /\ pc'[c] = "removing" /\ aim'[c] \in {"delete", "cancel"} =>
              \/ Gather(c) /\ aim'[c] = "delete"
              \/ Collect(c) /\ aim'[c] = "cancel"
              \/ /\ pc[c] = "removing" /\ aim'[c] = aim[c]
                 /\ todo'[c] = todo[c] \/ \E k \in Planned : Remove(c, k)
         /\ aim'[c] = aim[c] \/ aim[c] = "none" \/ Conclude(c)
<1> DEFINE Goal ==
         /\ pc'[c] = "removing" /\ aim'[c] \in {"delete", "cancel"} =>
              \/ Gather(c) /\ aim'[c] = "delete"
              \/ Collect(c) /\ aim'[c] = "cancel"
              \/ /\ pc[c] = "removing" /\ aim'[c] = aim[c]
                 /\ todo'[c] = todo[c] \/ \E k \in Planned : Remove(c, k)
         /\ aim'[c] = aim[c] \/ aim[c] = "none" \/ Conclude(c)
<1>0. c \in Processes /\ c \notin Pickers /\ c \notin Executors /\ c \notin Terminals
  BY Kinds DEF Pickers
<1>1. CASE pc'[c] = pc[c] /\ aim'[c] = aim[c] /\ todo'[c] = todo[c]
  BY <1>1
<1>2. CASE ClerkStep(c)
  <2>1. CASE Cancel(c) \/ Delete(c) \/ Flag(c)
    BY <1>0, <2>1 DEF Cancel, Delete, Flag, Goto, TypeOK, Aims, ClerkPlaces
  <2>2. CASE Collect(c) \/ Gather(c)
    BY <2>2 DEF Collect, Gather, Aims
  <2>3. CASE \E k \in Planned : DeleteRun(c, k)
    BY <1>0, <2>3 DEF DeleteRun, Aims, ClerkPlaces
  <2>4. CASE \E k \in Planned : Remove(c, k)
    BY <2>4 DEF Remove
  <2>5. CASE Conclude(c)
    BY <1>0, <2>5 DEF Conclude, Goto, TypeOK
  <2> QED BY <1>2, <2>1, <2>2, <2>3, <2>4, <2>5 DEF ClerkStep
<1>3. ASSUME NEW q \in Processes, Alone(q), q # c
      PROVE  Goal
  BY <1>0, <1>1, <1>3 DEF Alone
<1> QED BY <1>0, <1>1, <1>2, <1>3, Kinds, OthersStay, NobodyMoves DEF Next

\* Once every run was inserted and none is missed, no row is inserted.
LEMMA NoNewRow ==
  ASSUME TypeOK, Aims, AwaitedIsThere, Unmet({"held"}), [Next]_vars,
         maker \in {"triggered", "done"}, NEW k \in Planned, Exists(k)'
  PROVE  Exists(k)
<1>1. ~CreateRun
  BY MakerStep
<1>2. ASSUME NEW e \in Executors, run[e] = k, pc[e] \in {"arriving", "lookup"}
      PROVE  Exists(k)
  BY <1>2 DEF AwaitedIsThere, Awaits
<1> QED BY <1>1, <1>2, RowSteps DEF RowStep, Keeps

\* A clerk that deletes gathers all there is and leaves nothing.
LEMMA DeletesStep ==
  ASSUME TypeOK, Aims, Started, AwaitedIsThere, DeletesAll, [Next]_vars
  PROVE  DeletesAll'
<1> DEFINE Made == maker \in {"triggered", "done"}
<1> SUFFICES ASSUME Unmet({"early", "held"})'
             PROVE  /\ \A c \in Clerks : pc'[c] = "removing" /\ aim'[c] = "delete" =>
                         /\ maker' \in {"triggered", "done"}
                         /\ \A k \in Planned : Exists(k)' => k \in todo'[c]
                    /\ maker' # "idle" /\ campaign' = "absent" =>
                         /\ maker' \in {"triggered", "done"}
                         /\ \A k \in Planned : ~Exists(k)'
  BY DEF DeletesAll
<1>1. Unmet({"early", "held"}) /\ Unmet({"held"})
  BY CampaignRow DEF Unmet
<1>2. ASSUME NEW c \in Clerks, pc'[c] = "removing", aim'[c] = "delete"
      PROVE  /\ maker' \in {"triggered", "done"}
             /\ \A k \in Planned : Exists(k)' => k \in todo'[c]
  <2>1. CASE Gather(c)
    <3>1. maker # "planning" /\ maker # "idle" /\ maker' = maker /\ row' = row
      BY <2>1 DEF Gather, Meet, Unmet, Unfinished, Started, creation
    <3>2. todo'[c] = Children
      BY <2>1 DEF Gather, TypeOK
    <3>3. \A k \in Planned : Exists(k)' => Exists(k) /\ row[k].child
      BY <1>1, <3>1 DEF AwaitedIsThere, Exists
    <3> QED BY <3>1, <3>2, <3>3 DEF Children, TypeOK
  <2>2. CASE /\ pc[c] = "removing" /\ aim'[c] = aim[c]
             /\ todo'[c] = todo[c] \/ \E k \in Planned : Remove(c, k)
    <3>1. Made /\ \A k \in Planned : Exists(k) => k \in todo[c]
      BY <1>1, <1>2, <2>2 DEF DeletesAll
    <3>2. \A k \in Planned : Exists(k)' => k \in todo[c]
      BY <1>1, <3>1, NoNewRow
    <3>3. CASE todo'[c] = todo[c]
      BY <3>1, <3>2, <3>3, MakerStep
    <3>4. ASSUME NEW j \in Planned, Remove(c, j)
          PROVE  \A k \in Planned : Exists(k)' => k \in todo'[c]
      <4>1. todo'[c] = todo[c] \ {j}
        BY <3>4 DEF Remove, TypeOK
      <4>2. ~Exists(j)'
        BY <3>4, EraseStep DEF Remove, Erases, Exists
      <4> QED BY <3>2, <4>1, <4>2
    <3> QED BY <2>2, <3>1, <3>3, <3>4, MakerStep
  <2> QED BY <1>2, <2>1, <2>2, ClerkMoves
<1>3. ASSUME maker' # "idle", campaign' = "absent"
      PROVE  /\ maker' \in {"triggered", "done"}
             /\ \A k \in Planned : ~Exists(k)'
  <2>1. CASE campaign = "absent" /\ maker # "idle"
    <3>1. Made /\ \A k \in Planned : ~Exists(k)
      BY <1>1, <2>1 DEF DeletesAll
    <3> QED BY <1>1, <3>1, NoNewRow, MakerStep
  <2>2. CASE maker = "idle"
    <3>1. Making
      BY <1>3, <2>2, CampaignRow
    <3>2. Create
      BY <2>2, <3>1 DEF Making, CreateRun, Created, Trigger
    <3> QED BY <1>3, <3>2 DEF Create
  <2>3. ASSUME NEW c \in Clerks, Conclude(c), aim[c] = "delete"
        PROVE  /\ maker' \in {"triggered", "done"}
               /\ \A k \in Planned : ~Exists(k)'
    <3>1. pc[c] = "removing" /\ todo[c] = {} /\ row' = row
      BY <2>3 DEF Conclude
    <3>2. Made /\ \A k \in Planned : ~Exists(k)
      BY <1>1, <2>3, <3>1 DEF DeletesAll
    <3> QED BY <3>1, <3>2, MakerStep DEF Exists
  <2> QED BY <1>3, <2>1, <2>2, <2>3, CampaignRow
<1> QED BY <1>2, <1>3

-------------------------------------------------------------------------------
(* What becomes of the status of each run. *)

\* The executor of a run inserts its row again, claims it, beats or ends it.
Executes(e, k) ==
  /\ run[e] = k /\ run'[e] = k
  /\ \/ ~Exists(k) /\ pc[e] \in {"arriving", "lookup"} /\ row'[k].status = "pending"
     \/ pc[e] = "claiming" /\ pc'[e] = "driving" /\ row'[k].status = "running"
     \/ /\ pc[e] = "driving" /\ pc'[e] = "driving" /\ Exists(k)
        /\ row'[k].status = "running" /\ row'[k].cancel = row[k].cancel
     \/ /\ pc[e] \in {"lookup", "claiming", "driving"} /\ pc'[e] = "ran"
        /\ row'[k].status \in Ends

\* A status stays and what is flagged stays flagged, or the run is created, removed,
\* released or executed.
Turn(k) ==
  \/ row'[k].status = row[k].status /\ (row[k].cancel => row'[k].cancel)
  \/ CreateRun /\ k = planned'
  \/ row'[k].status = "none"
  \/ Release(k) /\ row'[k].status = "interrupted"
  \/ \E e \in Executors : Executes(e, k)

\* Nothing else becomes of a status.
LEMMA Turns ==
  ASSUME TypeOK, [Next]_vars
  PROVE  \A k \in Planned : Turn(k)
<1>1. row' = row => \A k \in Planned : Turn(k)
  BY DEF Turn
<1>2. ASSUME NEW k \in Planned, \A j \in Planned \ {k} : row'[j] = row[j], Turn(k)
      PROVE  \A j \in Planned : Turn(j)
  BY <1>2 DEF Turn
<1>3. ASSUME NEW k \in Planned, NEW s \in Statuses, UpdateRun(k, s),
             NEW e \in Executors, run[e] = k, run'[e] = k,
             \/ s = "running" /\ pc[e] = "driving" /\ pc'[e] = "driving"
             \/ s \in Ends /\ pc[e] \in {"lookup", "claiming", "driving"} /\ pc'[e] = "ran"
      PROVE  \A j \in Planned : Turn(j)
  <2>1. CASE Exists(k)
    <3>1. Sets(k, s)
      BY <1>3, <2>1, UpdateStep
    <3>2. Executes(e, k)
      BY <1>3, <2>1, <3>1 DEF Sets, Executes
    <3> QED BY <1>2, <3>1, <3>2 DEF Sets, Turn
  <2>2. CASE ~Exists(k)
    BY <1>1, <1>3, <2>2 DEF UpdateRun
  <2> QED BY <2>1, <2>2
<1>4. ASSUME NEW k \in Planned, ~Exists(k), NEW child \in BOOLEAN, NEW s \in Scenarios,
             row' = [row EXCEPT ![k] = Pending(child, s)],
             NEW e \in Executors, run[e] = k, run'[e] = k, pc[e] \in {"arriving", "lookup"}
      PROVE  \A j \in Planned : Turn(j)
  <2>1. Inserts(k, child, s)
    BY <1>4, InsertStep
  <2>2. Executes(e, k)
    BY <1>4, <2>1 DEF Inserts, Executes
  <2> QED BY <1>2, <2>1, <2>2 DEF Inserts, Turn
<1>5. ASSUME NEW e \in Executors, pc[e] \in RunPlaces
      PROVE  run[e] \in Planned /\ ScenarioOf[run[e]] \in Scenarios
  BY <1>5, Kinds, CampaignAssumption DEF TypeOK
<1>6. /\ {"completed", "failed", "interrupted", "running"} \subseteq Statuses
      /\ {"failed", "interrupted"} \subseteq Ends /\ Ends \subseteq Statuses
  BY DEF Statuses, Ends
<1>7. \A e \in Executors : e \in Processes
  BY Kinds
<1>8. CASE Making
  <2>1. CASE CreateRun
    <3>1. planned' \in Planned
      BY <2>1, CampaignAssumption DEF CreateRun, TypeOK, Planned
    <3>2. \A k \in Planned : k # planned' => row'[k] = row[k]
      BY <2>1, <3>1 DEF CreateRun, TypeOK
    <3> QED BY <2>1, <3>2 DEF Turn
  <2> QED BY <1>1, <1>8, <2>1 DEF Making, Create, Created, Trigger
<1>9. ASSUME NEW t \in Terminals, TerminalStep(t)
      PROVE  \A k \in Planned : Turn(k)
  <2>1. CASE FailBefore(t)
    <3>1. t \in Executors /\ run[t] \in Planned /\ pc'[t] = "ran" /\ run' = run
      BY <2>1, <1>5, <1>7, Kinds DEF FailBefore, RunPlaces, Goto, TypeOK
    <3> QED BY <2>1, <3>1, <1>3, <1>6 DEF FailBefore
  <2> QED BY <1>1, <1>9, <2>1
          DEF TerminalStep, Begin, Announce, ListRuns, HeedCancel, Judge, Close, SkipEnded, Take
<1>10. ASSUME NEW w \in Workers, WorkerStep(w)
       PROVE  \A k \in Planned : Turn(k)
  <2>1. CASE Arrive(w)
    <3>1. w \in Executors /\ run[w] \in Planned /\ ScenarioOf[run[w]] \in Scenarios
      BY <2>1, <1>5, Kinds DEF Arrive, RunPlaces
    <3>2. CASE Exists(run[w])
      BY <1>1, <2>1, <3>2 DEF Arrive
    <3>3. CASE ~Exists(run[w])
      BY <1>4, <2>1, <3>1, <3>3 DEF Arrive
    <3> QED BY <3>2, <3>3
  <2> QED BY <1>1, <1>10, <2>1 DEF WorkerStep, FailTask, Dispatch
<1>11. ASSUME NEW e \in Executors, RunStep(e)
       PROVE  \A k \in Planned : Turn(k)
  <2>0. e \in Processes
    BY <1>7
  <2>1. CASE LookupNone(e)
    <3>1. run[e] \in Planned
      BY <2>1, <1>5 DEF LookupNone, RunPlaces
    <3> QED BY <1>1, <1>4, <2>1, <3>1, CampaignAssumption DEF LookupNone
  <2>2. CASE LookupCancelled(e)
    <3>1. run[e] \in Planned /\ pc'[e] = "ran" /\ run' = run
      BY <2>0, <2>2, <1>5 DEF LookupCancelled, RunPlaces, Goto, TypeOK
    <3> QED BY <1>3, <1>6, <2>2, <3>1 DEF LookupCancelled, UpdateRun
  <2>3. CASE Claim(e)
    <3>1. run[e] \in Planned /\ pc'[e] = "driving" /\ run' = run
      BY <2>0, <2>3, <1>5 DEF Claim, RunPlaces, Goto, TypeOK
    <3>2. Sets(run[e], "running")
      BY <2>3, <3>1, <1>6, StatusStep DEF Claim
    <3>3. Executes(e, run[e])
      BY <2>3, <3>1, <3>2 DEF Claim, Sets, Executes
    <3> QED BY <1>2, <3>1, <3>2, <3>3 DEF Sets, Turn
  <2>4. CASE Refused(e)
    <3>1. CASE e \in Terminals
      <4>1. run[e] \in Planned /\ pc'[e] = "ran" /\ run' = run
        BY <2>0, <2>4, <3>1, <1>5 DEF Refused, RunPlaces, Goto, TypeOK
      <4> QED BY <1>3, <1>6, <2>4, <3>1, <4>1 DEF Refused
    <3>2. CASE e \notin Terminals
      BY <1>1, <2>4, <3>2 DEF Refused
    <3> QED BY <3>1, <3>2
  <2>5. CASE Beat(e)
    <3>1. run[e] \in Planned
      BY <2>5, <1>5 DEF Beat, RunPlaces
    <3> QED BY <1>3, <1>6, <2>5, <3>1 DEF Beat
  <2>6. CASE Finish(e)
    <3>1. run[e] \in Planned /\ pc'[e] = "ran" /\ run' = run
      BY <2>0, <2>6, <1>5 DEF Finish, RunPlaces, Goto, TypeOK
    <3> QED BY <1>3, <1>6, <2>6, <3>1 DEF Finish
  <2> QED BY <1>1, <1>11, <2>1, <2>2, <2>3, <2>4, <2>5, <2>6
          DEF RunStep, Lookup, Die, Seed, NothingToSeed
<1>12. ASSUME NEW k \in Planned, Release(k)
       PROVE  \A j \in Planned : Turn(j)
  <2>1. Sets(k, "interrupted")
    BY <1>6, <1>12, StatusStep DEF Release
  <2> QED BY <1>2, <1>12, <2>1 DEF Sets, Turn
<1>13. ASSUME NEW c \in Clerks, ClerkStep(c)
       PROVE  \A k \in Planned : Turn(k)
  <2>1. CASE Collect(c)
    BY <2>1, CollectStep DEF Collect, Flags, Turn
  <2>2. ASSUME NEW k \in Planned, Remove(c, k)
        PROVE  \A j \in Planned : Turn(j)
    BY <1>2, <2>2, EraseStep DEF Remove, Erases, Turn
  <2> QED BY <1>1, <1>13, <2>1, <2>2 DEF ClerkStep, Cancel, Flag, Delete, Gather, Conclude, DeleteRun
<1> QED BY <1>1, <1>8, <1>9, <1>10, <1>11, <1>12, <1>13
        DEF Next, PickerStep, Choose, SetBaseline, Pick, vars

-------------------------------------------------------------------------------
(* One executor. *)

\* An executor that was idle begins or is handed a run, and it is noticed when it is
\* not the only one; who drives the phone goes on, is through or is killed, which is
\* noticed; who comes to drive it has claimed it.
LEMMA ExecutorMoves ==
  ASSUME TypeOK, Aims, [Next]_vars, NEW e \in Executors
  PROVE  /\ pc[e] = "idle" /\ pc'[e] # "idle" /\ Unmet({"shared"})' =>
              \A f \in Executors : f # e => pc'[f] = "idle"
         /\ pc[e] = "driving" /\ Unmet({"dead"})' => pc'[e] \in {"driving", "ran"} /\ run'[e] = run[e]
         /\ pc'[e] = "driving" =>
              /\ run'[e] = run[e]
              /\ pc[e] = "driving" \/ (Claim(e) /\ row'[run[e]].status = "running")
         /\ pc[e] = "driving" /\ pc'[e] = "ran" => Finish(e)
<1> DEFINE Goal ==
         /\ pc[e] = "idle" /\ pc'[e] # "idle" /\ Unmet({"shared"})' =>
              \A f \in Executors : f # e => pc'[f] = "idle"
         /\ pc[e] = "driving" /\ Unmet({"dead"})' => pc'[e] \in {"driving", "ran"} /\ run'[e] = run[e]
         /\ pc'[e] = "driving" =>
              /\ run'[e] = run[e]
              /\ pc[e] = "driving" \/ (Claim(e) /\ row'[run[e]].status = "running")
         /\ pc[e] = "driving" /\ pc'[e] = "ran" => Finish(e)
<1>0. /\ e \in Processes /\ e \in Pickers /\ e \notin Clerks /\ e \notin Curators
      /\ \A f \in Executors : f \in Processes
  BY Kinds
<1>1. CASE pc'[e] = pc[e] /\ run'[e] = run[e]
  BY <1>1
<1>2. CASE pc[e] \notin {"idle", "driving"} /\ pc'[e] # "driving"
  BY <1>2
<1>3. CASE e \in Terminals /\ TerminalStep(e)
  <2>1. CASE Begin(e)
    <3>1. pc[e] = "idle" /\ pc'[e] = "announcing"
      BY <1>0, <2>1 DEF Begin, Goto, TypeOK
    <3>2. ASSUME NEW f \in Executors, f # e, Unmet({"shared"})'
          PROVE  pc'[f] = "idle"
      <4>1. pc[f] = "idle"
        BY <2>1, <3>2 DEF Begin, Unmet
      <4> QED BY <1>0, <2>1, <3>2, <4>1 DEF Begin, Goto, TypeOK
    <3> QED BY <3>1, <3>2
  <2>2. CASE \E k \in Planned : SkipEnded(e, k)
    BY <1>1, <2>2 DEF SkipEnded
  <2> QED BY <1>0, <1>2, <1>3, <2>1, <2>2
          DEF TerminalStep, Announce, ListRuns, HeedCancel, Judge, Close, FailBefore, Take,
              Goto, TypeOK
<1>4. CASE e \in Workers /\ WorkerStep(e)
  <2>1. ASSUME NEW k \in Planned, Dispatch(e, k)
        PROVE  Goal
    <3>1. pc[e] = "idle" /\ pc'[e] = "arriving"
      BY <1>0, <2>1 DEF Dispatch, Goto, TypeOK
    <3>2. ASSUME NEW f \in Executors, f # e, Unmet({"shared"})'
          PROVE  pc'[f] = "idle"
      <4>1. pc[f] = "idle"
        BY <2>1, <3>2 DEF Dispatch, Meet, Unmet
      <4> QED BY <1>0, <2>1, <3>2, <4>1 DEF Dispatch, Goto, TypeOK
    <3> QED BY <3>1, <3>2
  <2> QED BY <1>0, <1>2, <1>4, <2>1 DEF WorkerStep, Arrive, FailTask, Leave, Goto, TypeOK
<1>5. CASE RunStep(e)
  <2>1. CASE Claim(e)
    <3>1. run[e] \in Planned /\ pc'[e] = "driving" /\ pc[e] = "claiming" /\ run' = run
      BY <1>0, <2>1 DEF Claim, RunPlaces, Goto, TypeOK
    <3>2. Sets(run[e], "running")
      BY <2>1, <3>1, StatusStep DEF Claim, Statuses
    <3> QED BY <2>1, <3>1, <3>2 DEF Sets
  <2>2. CASE Beat(e)
    BY <1>1, <2>2 DEF Beat
  <2>3. CASE Finish(e)
    <3>1. pc[e] = "driving" /\ pc'[e] = "ran" /\ run' = run
      BY <1>0, <2>3 DEF Finish, Goto, TypeOK
    <3> QED BY <2>3, <3>1
  <2>4. CASE Die(e)
    <3>1. pc[e] # "idle" /\ pc'[e] = "idle"
      BY <1>0, <2>4 DEF Die, Goto, TypeOK
    <3>2. pc[e] = "driving" => ~Unmet({"dead"})'
      BY <2>4 DEF Die, Meet, Unmet
    <3> QED BY <3>1, <3>2
  <2>5. CASE LookupNone(e) \/ LookupCancelled(e) \/ Lookup(e) \/ Refused(e) \/ Seed(e)
             \/ NothingToSeed(e)
    BY <1>0, <1>2, <2>5
       DEF LookupNone, LookupCancelled, Lookup, Refused, Seed, NothingToSeed, Leave, Goto, TypeOK
  <2> QED BY <1>5, <2>1, <2>2, <2>3, <2>4, <2>5 DEF RunStep
<1>6. CASE PickerStep(e)
  BY <1>0, <1>2, <1>6 DEF PickerStep, Choose, SetBaseline, Leave, Goto, TypeOK
<1>7. ASSUME NEW q \in Processes, Alone(q), q # e
      PROVE  Goal
  BY <1>0, <1>1, <1>7 DEF Alone
<1> QED BY <1>0, <1>1, <1>3, <1>4, <1>5, <1>6, <1>7, Kinds, OthersStay, NobodyMoves DEF Next

\* Who has a run on its way is not idle.
LEMMA AwaitsIsBusy ==
  ASSUME ListIsAhead, NEW e \in Executors, NEW k \in Planned, Awaits(e, k)
  PROVE  pc[e] # "idle"
BY DEF ListIsAhead, Awaits

\* One process goes on executing.
LEMMA OneExecutorStep ==
  ASSUME TypeOK, Aims, OnlyPlanned, ListIsAhead, ListIsAhead', AwaitedIsThere, OneExecutor,
         [Next]_vars
  PROVE  OneExecutor'
<1> SUFFICES ASSUME Unmet({"shared", "dead", "held"})'
             PROVE  /\ \A e, f \in Executors : pc'[e] # "idle" /\ pc'[f] # "idle" => e = f
                    /\ \A e \in Executors, k \in Planned :
                         Awaits(e, k)' => row'[k].status = "pending"
                    /\ \A e \in Executors :
                         pc'[e] = "driving" => row'[run'[e]].status \in {"running", "none"}
                    /\ \A k \in Planned : row'[k].status = "running" =>
                         \E e \in Executors : pc'[e] = "driving" /\ run'[e] = k
  BY DEF OneExecutor
<1>1. /\ Unmet({"shared", "dead", "held"}) /\ Unmet({"held"})
      /\ Unmet({"held"})' /\ Unmet({"shared"})' /\ Unmet({"dead"})'
  BY CampaignRow DEF Unmet
<1>2. /\ \A e, f \in Executors : pc[e] # "idle" /\ pc[f] # "idle" => e = f
      /\ \A e \in Executors, k \in Planned : Awaits(e, k) => row[k].status = "pending"
      /\ \A e \in Executors : pc[e] = "driving" => row[run[e]].status \in {"running", "none"}
      /\ \A k \in Planned : row[k].status = "running" =>
           \E e \in Executors : pc[e] = "driving" /\ run[e] = k
  BY <1>1 DEF OneExecutor
<1>3. \A e \in Executors, k \in Planned : Awaits(e, k) => Exists(k)
  BY <1>1 DEF AwaitedIsThere
<1>4. ASSUME NEW e \in Executors, NEW f \in Executors, pc'[e] # "idle", pc'[f] # "idle"
      PROVE  e = f
  <2>1. CASE pc[e] = "idle" \/ pc[f] = "idle"
    BY <1>1, <1>4, <2>1, ExecutorMoves
  <2>2. CASE pc[e] # "idle" /\ pc[f] # "idle"
    BY <1>2, <2>2
  <2> QED BY <2>1, <2>2
<1>5. ASSUME NEW e \in Executors, NEW k \in Planned, Executes(e, k), Awaits(e, k)'
      PROVE  row'[k].status = "pending"
  <2>1. pc'[e] \in {"driving", "ran"} => e \in Terminals /\ run'[e] \in todo'[e]
    BY <1>5 DEF Awaits, Executes
  <2>2. e \in Terminals => run'[e] \notin todo'[e]
    BY DEF ListIsAhead
  <2> QED BY <1>5, <2>1, <2>2 DEF Executes
<1>6. ASSUME NEW e \in Executors, NEW k \in Planned, Awaits(e, k)'
      PROVE  row'[k].status = "pending"
  <2>1. CASE row' = row /\ Exists(k) /\ ~Ended(k)
             /\ (row[k].status = "running" => e \in Terminals /\ pc[e] = "listing")
    <3>1. row[k].status # "running"
      BY <1>2, <2>1
    <3>2. row[k] \in Rows
      BY DEF TypeOK
    <3> QED BY <2>1, <3>1, <3>2 DEF Rows, Statuses, Exists, Ended
  <2>2. CASE Awaits(e, k)
    <3>1. row[k].status = "pending" /\ Exists(k) /\ pc[e] # "idle"
      BY <1>2, <1>3, <2>2, AwaitsIsBusy
    <3>2. Turn(k)
      BY Turns
    <3>3. CASE CreateRun /\ k = planned'
      <4>1. k <= planned /\ planned \in Nat /\ k \in Nat
        BY <3>1, CampaignAssumption DEF OnlyPlanned, TypeOK, Planned
      <4>2. planned' = planned + 1
        BY <3>3 DEF CreateRun
      <4> QED BY <3>3, <4>1, <4>2
    <3>4. CASE row'[k].status = "none"
      <4>1. AwaitedIsThere'
        BY AwaitedStep
      <4> QED BY <1>1, <1>6, <3>4, <4>1 DEF AwaitedIsThere, Exists
    <3>5. CASE Release(k)
      BY <3>1, <3>5 DEF Release
    <3>6. ASSUME NEW f \in Executors, Executes(f, k)
          PROVE  row'[k].status = "pending"
      <4>1. pc[f] # "idle"
        BY <3>6 DEF Executes
      <4>2. f = e
        BY <1>2, <3>1, <4>1
      <4> QED BY <1>5, <1>6, <3>6, <4>2
    <3> QED BY <3>1, <3>2, <3>3, <3>4, <3>5, <3>6 DEF Turn
  <2> QED BY <1>6, <2>1, <2>2, AwaitsStep
<1>7. ASSUME NEW e \in Executors, pc'[e] = "driving"
      PROVE  row'[run'[e]].status \in {"running", "none"}
  <2>1. CASE pc[e] = "driving" /\ run'[e] = run[e]
    <3>1. run[e] \in Planned /\ row[run[e]].status \in {"running", "none"}
      BY <1>2, <2>1, Kinds DEF TypeOK, RunPlaces
    <3>2. Turn(run[e])
      BY <3>1, Turns
    <3>3. CASE CreateRun /\ run[e] = planned'
      <4>1. run[e] <= planned /\ planned \in Nat /\ run[e] \in Nat
        BY <3>1, Kinds, CampaignAssumption DEF OnlyPlanned, TypeOK, Planned
      <4>2. planned' = planned + 1
        BY <3>3 DEF CreateRun
      <4> QED BY <3>3, <4>1, <4>2
    <3>4. CASE Release(run[e])
      BY <2>1, <3>4 DEF Release
    <3>5. ASSUME NEW f \in Executors, Executes(f, run[e])
          PROVE  row'[run[e]].status \in {"running", "none"}
      <4>1. pc[f] # "idle" /\ pc[e] # "idle"
        BY <2>1, <3>5 DEF Executes
      <4>2. f = e
        BY <1>2, <4>1
      <4> QED BY <1>7, <2>1, <3>5, <4>2 DEF Executes
    <3> QED BY <2>1, <3>1, <3>2, <3>3, <3>4, <3>5 DEF Turn
  <2> QED BY <1>7, <2>1, ExecutorMoves
<1>8. ASSUME NEW k \in Planned, row'[k].status = "running"
      PROVE  \E e \in Executors : pc'[e] = "driving" /\ run'[e] = k
  <2>1. CASE row[k].status = "running"
    <3>1. PICK e \in Executors : pc[e] = "driving" /\ run[e] = k
      BY <1>2, <2>1
    <3>2. pc'[e] \in {"driving", "ran"} /\ run'[e] = k
      BY <1>1, <3>1, ExecutorMoves
    <3>3. CASE pc'[e] = "ran"
      <4>1. Finish(e)
        BY <3>1, <3>3, ExecutorMoves
      <4>2. PICK s \in Ends : UpdateRun(k, s)
        BY <3>1, <4>1 DEF Finish
      <4>3. Exists(k) /\ s \in Statuses /\ s # "running"
        BY <2>1 DEF Exists, Ends, Statuses
      <4>4. row'[k].status = s
        BY <4>2, <4>3, UpdateStep DEF Sets
      <4> QED BY <1>8, <4>3, <4>4
    <3> QED BY <3>2, <3>3
  <2>2. CASE row[k].status # "running"
    <3>1. CASE CreateRun /\ k = planned'
      <4>1. row'[k] = Pending(TRUE, ScenarioOf[k])
        BY <3>1 DEF CreateRun, TypeOK
      <4> QED BY <1>8, <4>1 DEF Pending
    <3>2. ASSUME NEW e \in Executors, Executes(e, k)
          PROVE  pc'[e] = "driving" /\ run'[e] = k
      BY <1>8, <3>2 DEF Executes, Ends
    <3>3. Turn(k)
      BY Turns
    <3> QED BY <1>8, <2>2, <3>1, <3>2, <3>3 DEF Turn
  <2> QED BY <2>1, <2>2
<1> QED BY <1>4, <1>6, <1>7, <1>8

\* What is removed while it is driven is noticed.
LEMMA DrivenIsMet ==
  ASSUME NEW k \in Planned, NEW c \in Clerks, Remove(c, k), Unmet({"driven"})',
         NEW e \in Executors, pc[e] = "driving", run[e] = k
  PROVE  FALSE
BY DEF Remove, HazardsOf, Unmet

\* Who drives has claimed a row that is there, and it stays.
LEMMA DrivenStep ==
  ASSUME TypeOK, Aims, OnlyPlanned, DrivenIsThere, [Next]_vars
  PROVE  DrivenIsThere'
<1> SUFFICES ASSUME Unmet({"driven"})', NEW e \in Executors, pc'[e] = "driving"
             PROVE  row'[run'[e]].status # "none"
  BY DEF DrivenIsThere, Exists
<1>1. Unmet({"driven"})
  BY CampaignRow DEF Unmet
<1>2. CASE pc[e] = "driving"
  <2>1. run'[e] = run[e] /\ run[e] \in Planned /\ Exists(run[e])
    BY <1>1, <1>2, ExecutorMoves, Kinds DEF DrivenIsThere, TypeOK, RunPlaces
  <2>2. \A c \in Clerks : ~Remove(c, run[e])
    BY <1>2, <2>1, DrivenIsMet
  <2> QED BY <2>1, <2>2, RowStays DEF Keeps, Exists
<1>3. CASE pc[e] # "driving"
  BY <1>3, ExecutorMoves
<1> QED BY <1>2, <1>3

-------------------------------------------------------------------------------
(* Cancelling. *)

\* What is stopped stays so: nobody is left who could start it.
LEMMA StoppedStays ==
  ASSUME TypeOK, Aims, AwaitedIsThere, OneExecutor, Unmet({"shared", "dead", "held"}),
         [Next]_vars, maker \in {"triggered", "done"}, NEW k \in Planned, Stopped(k)
  PROVE  Stopped(k)'
<1>1. ~CreateRun
  BY MakerStep
<1>2. Unmet({"held"})
  BY DEF Unmet
<1>3. ASSUME NEW e \in Executors, Executes(e, k)
      PROVE  Stopped(k)'
  <2>1. pc[e] \notin {"arriving", "lookup", "claiming"}
    <3>1. CASE pc[e] \in {"arriving", "lookup", "claiming"}
      <4>1. Awaits(e, k)
        BY <1>3, <3>1 DEF Awaits, Executes
      <4>2. row[k].status = "pending"
        BY <4>1 DEF OneExecutor
      <4> QED BY <4>2 DEF Stopped
    <3> QED BY <3>1
  <2>2. pc[e] = "driving" => row[k].status \in {"running", "none"}
    BY <1>3 DEF OneExecutor, Executes
  <2>3. CASE row'[k].status \in Ends
    BY <2>3 DEF Stopped, Ends
  <2>4. CASE pc[e] = "driving" /\ Exists(k) /\ row'[k].status = "running"
             /\ row'[k].cancel = row[k].cancel
    BY <2>2, <2>4 DEF Exists, Stopped
  <2> QED BY <1>3, <2>1, <2>3, <2>4 DEF Executes
<1>4. CASE row'[k].status = row[k].status /\ (row[k].cancel => row'[k].cancel)
  BY <1>4 DEF Stopped
<1>5. CASE row'[k].status = "none" \/ row'[k].status = "interrupted"
  BY <1>5 DEF Stopped
<1> QED BY <1>1, <1>3, <1>4, <1>5, Turns DEF Turn

\* A clerk that cancels stops what runs, and then removes what waits.
LEMMA CancelsStep ==
  ASSUME TypeOK, Aims, Started, AwaitedIsThere, OneExecutor, CancelsAll, [Next]_vars
  PROVE  CancelsAll'
<1> DEFINE Made == maker \in {"triggered", "done"}
<1> SUFFICES ASSUME Unmet({"shared", "dead", "early", "held", "driven"})'
             PROVE  /\ \A c \in Clerks : pc'[c] = "removing" /\ aim'[c] = "cancel" =>
                         /\ maker' \in {"triggered", "done"}
                         /\ \A k \in Planned : Stopped(k)' \/ k \in todo'[c]
                    /\ flagged' /\ NobodyIs("cancel")' =>
                         /\ maker' \in {"triggered", "done"}
                         /\ \A k \in Planned : Stopped(k)'
  BY DEF CancelsAll
<1>1. /\ Unmet({"shared", "dead", "early", "held", "driven"}) /\ Unmet({"shared", "dead", "held"})
      /\ Unmet({"held"}) /\ Unmet({"early"})'
  BY CampaignRow DEF Unmet
<1>2. ASSUME NEW c \in Clerks, pc'[c] = "removing", aim'[c] = "cancel"
      PROVE  /\ maker' \in {"triggered", "done"}
             /\ \A k \in Planned : Stopped(k)' \/ k \in todo'[c]
  <2>1. CASE Collect(c)
    <3>1. maker # "planning" /\ maker # "idle" /\ maker' = maker
      BY <1>1, <2>1 DEF Collect, Meet, Unmet, Unfinished, Started, creation
    <3>2. todo'[c] = {k \in Children : row[k].status = "pending"} /\ Flags
      BY <2>1, CollectStep DEF Collect, TypeOK
    <3>3. ASSUME NEW k \in Planned
          PROVE  Stopped(k)' \/ k \in todo'[c]
      <4>1. Exists(k) => row[k].child
        BY <1>1 DEF AwaitedIsThere
      <4>2. CASE row[k].status = "pending"
        BY <3>2, <4>1, <4>2 DEF Children, Exists
      <4>3. CASE row[k].status # "pending"
        <5>1. row[k].status = "running" => row'[k].cancel
          BY <3>2, <4>1 DEF Flags, Exists
        <5> QED BY <3>2, <4>3, <5>1 DEF Flags, Stopped
      <4> QED BY <4>2, <4>3
    <3> QED BY <3>1, <3>3 DEF TypeOK
  <2>2. CASE /\ pc[c] = "removing" /\ aim'[c] = aim[c]
             /\ todo'[c] = todo[c] \/ \E k \in Planned : Remove(c, k)
    <3>1. Made /\ \A k \in Planned : Stopped(k) \/ k \in todo[c]
      BY <1>1, <1>2, <2>2 DEF CancelsAll
    <3>2. \A k \in Planned : Stopped(k)' \/ k \in todo[c]
      BY <1>1, <3>1, StoppedStays
    <3>3. CASE todo'[c] = todo[c]
      BY <3>1, <3>2, <3>3, MakerStep
    <3>4. ASSUME NEW j \in Planned, Remove(c, j)
          PROVE  \A k \in Planned : Stopped(k)' \/ k \in todo'[c]
      <4>1. todo'[c] = todo[c] \ {j}
        BY <3>4 DEF Remove, TypeOK
      <4>2. Stopped(j)'
        BY <3>4, EraseStep DEF Remove, Erases, Stopped
      <4> QED BY <3>2, <4>1, <4>2
    <3> QED BY <2>2, <3>1, <3>3, <3>4, MakerStep
  <2> QED BY <1>2, <2>1, <2>2, ClerkMoves
<1>3. ASSUME flagged', NobodyIs("cancel")'
      PROVE  /\ maker' \in {"triggered", "done"}
             /\ \A k \in Planned : Stopped(k)'
  <2>1. CASE NobodyIs("cancel")
    <3>1. flagged
      BY <1>3, <2>1, CampaignRow DEF Flag, Aims, NobodyIs
    <3>2. Made /\ \A k \in Planned : Stopped(k)
      BY <1>1, <2>1, <3>1 DEF CancelsAll
    <3> QED BY <1>1, <3>2, StoppedStays, MakerStep
  <2>2. ASSUME NEW c \in Clerks, aim[c] = "cancel"
        PROVE  /\ maker' \in {"triggered", "done"}
               /\ \A k \in Planned : Stopped(k)'
    <3>1. Conclude(c)
      BY <1>3, <2>2, ClerkMoves DEF NobodyIs
    <3>2. pc[c] = "removing" /\ todo[c] = {} /\ row' = row
      BY <3>1 DEF Conclude
    <3>3. Made /\ \A k \in Planned : Stopped(k)
      BY <1>1, <2>2, <3>2 DEF CancelsAll
    <3> QED BY <3>2, <3>3, MakerStep DEF Stopped
  <2> QED BY <2>1, <2>2 DEF NobodyIs
<1> QED BY <1>2, <1>3

-------------------------------------------------------------------------------
(* The theorems. *)

\* The invariant holds in the beginning, when there is no row and nobody does anything.
LEMMA CampaignStarts ==
  Init => CampaignInv
<1> SUFFICES ASSUME Init
             PROVE  CampaignInv
  OBVIOUS
<1>0. /\ Absent \in Rows /\ Absent.status = "none" /\ NoRun \notin Planned /\ 0 \in 0..N
  BY CampaignAssumption DEF Absent, Rows
<1>1. \A k \in Planned : row[k].status = "none"
  BY <1>0 DEF Init
<1>2. /\ \A p \in Processes : pc[p] = "idle" /\ aim[p] = "none"
      /\ \A p \in Pickers : run[p] = NoRun
      /\ \A p \in Terminals \cup Clerks : todo[p] = {}
      /\ maker = "idle" /\ campaign = "absent" /\ flagged = FALSE
      /\ DOMAIN aim = Processes
  BY DEF Init
<1>3. TypeOK
  BY <1>0 DEF Init, TypeOK, Pickers, Processes, Executors, RunPlaces
<1>4. Aims
  BY <1>2, Kinds DEF Aims, ClerkPlaces
<1>5. OnlyPlanned /\ Started /\ BaselineReadable
  BY <1>1, <1>2, Kinds DEF OnlyPlanned, Started, BaselineReadable, Init, Exists
<1>6. \A e \in Executors, k \in Planned : ~Awaits(e, k)
  BY <1>2, Kinds DEF Awaits
<1>7. PickedIsThere /\ AwaitedIsThere /\ DrivenIsThere
  BY <1>1, <1>2, <1>6, Kinds DEF PickedIsThere, AwaitedIsThere, DrivenIsThere, Picking, Exists
<1>8. DeletesAll /\ CancelsAll
  BY <1>2, Kinds DEF DeletesAll, CancelsAll
<1>9. ListIsAhead
  BY <1>2, Kinds DEF ListIsAhead
<1>10. OneExecutor
  BY <1>1, <1>2, <1>6, Kinds DEF OneExecutor
<1> QED BY <1>3, <1>4, <1>5, <1>7, <1>8, <1>9, <1>10 DEF CampaignInv

\* Every step keeps the invariant.
LEMMA CampaignKeeps ==
  CampaignInv /\ [Next]_vars => CampaignInv'
BY TypeStep, AimsStep, OnlyPlannedStep, StartedStep, BaselineStep, PickedStep, AwaitedStep,
   DrivenStep, DeletesStep, ListStep, OneExecutorStep, CancelsStep DEF CampaignInv

\* The invariant holds in every execution.
LEMMA CampaignInvariant ==
  Spec => []CampaignInv
BY CampaignStarts, CampaignKeeps, PTL DEF Spec

\* Every variable has its type, and whoever is about a run has one that was planned
\* (storage.py:592, runner.py:204).
THEOREM CampaignTypeCorrect ==
  Spec => []TypeOK
BY CampaignInvariant, PTL DEF CampaignInv

\* A baseline names a run that exists, of the baseline's scenario, unless a run is
\* removed while it is being made one: compare can read it (storage.py:619, 1018).
THEOREM BaselineCanBeRead ==
  Spec => []BaselineReadable
BY CampaignInvariant, PTL DEF CampaignInv

\* After delete_campaign no run is left and none comes back, however many terminals
\* and workers go on, unless one is still to start a run that was deleted or the
\* deletion came before the creation had ended (storage.py:931, runner.py:204).
THEOREM DeletedStaysGone ==
  Spec => []DeletedIsGone
<1>1. CampaignInv => DeletedIsGone
  BY DEF CampaignInv, DeletesAll, DeletedIsGone
<1> QED BY <1>1, CampaignInvariant, PTL

\* After cancel_campaign nothing waits, and whoever drives the phone finds in its row
\* that it has to stop, for any number of runs, while one process executes that is not
\* killed, every run was inserted and none is removed that was to start or is driven
\* (storage.py:855-865).
THEOREM CancelStopsAll ==
  Spec => []CancelStops
<1>1. ASSUME CampaignInv, flagged, NobodyIs("cancel"),
             Unmet({"shared", "dead", "early", "held", "driven"})
      PROVE  /\ \A k \in Planned : Stopped(k)
             /\ \A e \in Executors : pc[e] = "driving" =>
                  row[run[e]].status = "running" /\ row[run[e]].cancel
  <2>1. Unmet({"shared", "dead", "held"}) /\ Unmet({"driven"})
    BY <1>1 DEF Unmet
  <2>2. \A k \in Planned : Stopped(k)
    BY <1>1 DEF CampaignInv, CancelsAll
  <2>3. ASSUME NEW e \in Executors, pc[e] = "driving"
        PROVE  row[run[e]].status = "running" /\ row[run[e]].cancel
    <3>1. run[e] \in Planned /\ Exists(run[e])
      BY <1>1, <2>1, <2>3, Kinds DEF CampaignInv, DrivenIsThere, TypeOK, RunPlaces
    <3>2. row[run[e]].status \in {"running", "none"}
      BY <1>1, <2>1, <2>3 DEF CampaignInv, OneExecutor
    <3> QED BY <2>2, <3>1, <3>2 DEF Stopped, Exists
  <2> QED BY <2>2, <2>3
<1>2. CampaignInv => CancelStops
  BY <1>1 DEF CancelStops, Stopped
<1> QED BY <1>2, CampaignInvariant, PTL
==============================================================================
