---- MODULE Reports ----
(***************************************************************************
 What is said of a campaign while its runs come and go: the stability report of a repeat campaign,
 the drift report of a soak, and the chart of a run.

 The runs are driven as Campaign and DeviceClaims model it: here a run starts, measures one metric,
 notes what it could not do, and ends, one run at a time. A report is a function of the rows; means
 are compared by cross-multiplication, since Python's are floating point numbers.
 ***************************************************************************)
EXTENDS Integers, Sequences, FiniteSets, FiniteSetsExt, SequencesExt

CONSTANTS
  Tiers,          \* each a sequence of scenarios; one alone stands for a campaign of one scenario
  MaxRuns,        \* MAX_RUNS
  Threshold,      \* per cent
  Values,         \* what a sample measures
  Budgets,        \* the numbers of points a chart or a trend may ask for
  MaxSamples,     \* bound: samples of all the runs of a repeat campaign
  MaxSoakSamples, \* bound: samples of a soak
  MaxEvents,      \* bound: no step's outcome is noted once that many kinds of events are
  MaxMeddling,    \* bound: deletions, resumed runs and baselines chosen by hand
  NoRun

ASSUME ReportsAssumption ==
  /\ MaxRuns \in Nat \ {0} /\ \A t \in Tiers : t \in Seq(Range(t)) /\ t # <<>> /\ IsInjective(t)
  /\ Threshold \in Nat /\ Values \subseteq Nat /\ Budgets \subseteq Nat \ {0}
  /\ NoRun \notin Nat

VARIABLES
  spec,      \* the CampaignSpec: kind, tier and iterations
  status,    \* of each child run; "gone" once deleted
  events,    \* the kinds of events a run has recorded
  series,    \* a run's samples of the metric, in the order of their ids
  standard,  \* per scenario, the run that is its baseline
  meddling

reportVars == <<spec, status, events, series, standard, meddling>>

Finals == {"completed", "failed", "interrupted"}

\* validated(): a soak is one run of one scenario, a repeat campaign has no more than MAX_RUNS.
Validated ==
  {c \in [kind : {"soak"}, tier : Tiers, iterations : {1}] : Len(c.tier) = 1}
    \cup {c \in [kind : {"repeat"}, tier : Tiers, iterations : 1..MaxRuns] : Len(c.tier) * c.iterations <= MaxRuns}

\* The scenario of each child run, in row order: one sweep of the tier after the other.
PlannedScenarios ==
  [i \in 1..(spec.iterations * Len(spec.tier)) |-> spec.tier[((i - 1) % Len(spec.tier)) + 1]]

Children == DOMAIN PlannedScenarios
Listed == {k \in Children : status[k] # "gone"}
Of(s) == {k \in Listed : PlannedScenarios[k] = s}
Tested == Range(spec.tier)

ReportsInit ==
  /\ spec \in Validated
  /\ status = [k \in Children |-> "pending"]
  /\ events = [k \in Children |-> {}]
  /\ series = [k \in Children |-> <<>>]
  /\ standard = [s \in Tested |-> NoRun]
  /\ meddling = 0

----
(* The runs *)

Idle == \A k \in Children : status[k] # "running"

Begin(k) ==
  /\ Idle /\ status[k] = "pending" /\ \A j \in 1..(k - 1) : status[j] # "pending"
  /\ status' = [status EXCEPT ![k] = "running"]
  /\ UNCHANGED <<spec, events, series, standard, meddling>>

Taken == FoldSeq(LAMBDA s, n : n + Len(s), 0, series)
Recorded == FoldSeq(LAMBDA E, n : n + Cardinality(E), 0, events)

Measure(k) ==
  /\ status[k] = "running"
  /\ Taken < (IF spec.kind = "soak" THEN MaxSoakSamples ELSE MaxSamples)
  /\ \E v \in Values : series' = [series EXCEPT ![k] = Append(@, v)]
  /\ UNCHANGED <<spec, status, events, standard, meddling>>

\* What a step that ended leaves: a check that failed, a coordinate where one is expected, or one
\* where the selector should have matched.
Outcomes == {{"verification_failed"}, {"selector_fallback"}, {"selector_fallback", "selector_stale"}}

Note(k) ==
  /\ status[k] = "running" /\ spec.kind = "repeat" /\ Recorded < MaxEvents
  /\ \E noted \in Outcomes : events' = [events EXCEPT ![k] = @ \cup noted]
  /\ UNCHANGED <<spec, status, series, standard, meddling>>

\* Whoever executed a completed run makes it the baseline where there is none, whatever its quality.
End(k) ==
  /\ status[k] = "running"
  /\ \E e \in Finals :
       /\ status' = [status EXCEPT ![k] = e]
       /\ standard' = IF e = "completed" /\ standard[PlannedScenarios[k]] = NoRun
                      THEN [standard EXCEPT ![PlannedScenarios[k]] = k] ELSE standard
  /\ UNCHANGED <<spec, events, series, meddling>>

\* cancel_campaign: what waits is removed, what runs will see its own flag.
CancelAll ==
  /\ status' = [k \in Children |-> IF status[k] = "pending" THEN "gone" ELSE status[k]]
  /\ UNCHANGED <<spec, events, series, standard, meddling>>

Meddles == meddling < MaxMeddling /\ meddling' = meddling + 1

DeleteOne(k) ==
  /\ Meddles /\ status[k] \notin {"running", "gone"}
  /\ status' = [status EXCEPT ![k] = "gone"]
  /\ events' = [events EXCEPT ![k] = {}] /\ series' = [series EXCEPT ![k] = <<>>]
  /\ standard' = [s \in Tested |-> IF standard[s] = k THEN NoRun ELSE standard[s]]
  /\ UNCHANGED <<spec>>

\* `autoperf run --resume': the same row, its samples and events are added to.
ResumeOne(k) ==
  /\ Meddles /\ Idle /\ status[k] \in Finals
  /\ status' = [status EXCEPT ![k] = "running"]
  /\ UNCHANGED <<spec, events, series, standard>>

ChooseStandard(k) ==
  /\ Meddles /\ status[k] # "gone"
  /\ standard' = [standard EXCEPT ![PlannedScenarios[k]] = k]
  /\ UNCHANGED <<spec, status, events, series>>

ReportsNext ==
  \/ CancelAll
  \/ \E k \in Children :
       Begin(k) \/ Measure(k) \/ Note(k) \/ End(k) \/ DeleteOne(k) \/ ResumeOne(k) \/ ChooseStandard(k)

ReportsSpec == ReportsInit /\ [][ReportsNext]_reportVars

----
(* May a run's numbers be trusted, and how do they compare? *)

\* run_quality: verified, if no check failed and no selector that should have matched did not.
Verified(k) == events[k] \cap {"verification_failed", "selector_stale"} = {}

\* The sum of s over the positions in I.
SumOver(s, I) ==
  LET sum[i \in 0..Len(s)] == IF i = 0 THEN 0 ELSE sum[i - 1] + (IF i \in I THEN s[i] ELSE 0)
  IN sum[Len(s)]

\* Nothing for a run without samples of the metric; a deleted baseline has none either.
AggregateSamples(k) ==
  IF k = NoRun \/ series[k] = <<>> THEN {}
  ELSE {[count |-> Len(series[k]), sum |-> SumOver(series[k], DOMAIN series[k])]}

Apart(a, b) == IF a > b THEN a - b ELSE b - a

\* The metrics that moved by more than the threshold, whichever way.
Compare(baseline, candidate) ==
  {c \in candidate : \E b \in baseline :
     IF b.sum = 0 THEN c.sum # 0
     ELSE Apart(c.sum * b.count, b.sum * c.count) * 100 > Threshold * b.sum * c.count}

Moved(k) == Compare(AggregateSamples(standard[PlannedScenarios[k]]), AggregateSamples(k)) # {}

\* Mutant: what still waits counts as finished.
RepeatAnalysisOfAll(s) ==
  LET completed == {k \in Of(s) : status[k] = "completed" /\ Verified(k)}
      regressed == {k \in completed : Moved(k)}
      passed == completed \ regressed
  IN [passed |-> passed,
      flaky |-> Cardinality(Of(s)) > 1 /\ passed # {} /\ passed # Of(s)]

\* repeat_analysis of one scenario. Unverified runs are in neither count; a run without a baseline
\* to compare it with has passed.
RepeatAnalysis(s) ==
  LET errored == {k \in Of(s) : status[k] \in {"failed", "interrupted"}}
      finishedOk == {k \in Of(s) : status[k] = "completed"}
      unverified == {k \in finishedOk : ~Verified(k)}
      completed == finishedOk \ unverified
      regressed == {k \in completed : standard[s] # NoRun /\ Moved(k)}
      finished == Cardinality(completed) + Cardinality(errored)
      passed == completed \ regressed
  IN [passed |-> passed,
      flaky |-> finished > 1 /\ passed # {} /\ Cardinality(passed) < finished]

----
(* The series of a run, reduced to a number of points; its trend *)

\* Mutant: ranks from one.
BucketFromOne(rank, buckets, count) == (rank * buckets) \div count

\* Cut by rank, not by time.
Bucket(rank, buckets, count) == ((rank - 1) * buckets) \div count

DownsampleSamples(s, buckets) ==
  LET of(b) == {i \in DOMAIN s : Bucket(i, buckets, Len(s)) = b}
      used == {Bucket(i, buckets, Len(s)) : i \in DOMAIN s}
      point(I) == [count |-> Cardinality(I), sum |-> SumOver(s, I), first |-> Min(I),
                   minimum |-> Min({s[i] : i \in I}), maximum |-> Max({s[i] : i \in I})]
      nth(n) == CHOOSE b \in used : Cardinality({c \in used : c < b}) = n - 1
  IN [n \in 1..Cardinality(used) |-> point(of(nth(n)))]

\* compute_trend: the drift from the first quarter of the points to the last, and the numerator of
\* the least-squares slope over the points' first timestamps; its denominator is positive. Means are
\* counted in parts of `whole`: a point has as many samples as the smallest, or one more.
ComputeTrend(points) ==
  LET n == Len(points)
      edge == Max({1, n \div 4})
      least == Min({points[i].count : i \in 1..n})
      whole == least * (least + 1)
      mean == [i \in 1..n |-> points[i].sum * (whole \div points[i].count)]
      time == [i \in 1..n |-> points[i].first]
      start == SumOver(mean, 1..edge)
      xy == [i \in 1..n |-> time[i] * mean[i]]
  IN [start |-> start, drift |-> SumOver(mean, (n - edge + 1)..n) - start,
      slope |-> IF n < 2 THEN 0
                ELSE n * SumOver(xy, 1..n) - SumOver(time, 1..n) * SumOver(mean, 1..n)]

\* soak_analysis: of the first run that has anything to say.
SoakAnalysis(buckets) ==
  LET candidates == {k \in Listed : status[k] \in {"completed", "running"}}
      run == Min(IF candidates = {} THEN Listed ELSE candidates)
  IN ComputeTrend(DownsampleSamples(series[run], buckets))

----
(* Properties *)

Finished(S) == {k \in S : status[k] \in Finals}
Settled(s) == standard[s] \in {NoRun} \cup Finished(Children)

\* Once a scenario is called flaky it stays flaky, whatever its other runs do, unless somebody takes
\* one of its runs away, resumes it, or compares with another baseline (campaigns.py:256-259).
FlakyStays ==
  [][\A s \in Tested :
       /\ RepeatAnalysis(s).flaky /\ Settled(s) /\ standard'[s] = standard[s]
       /\ \A k \in Finished(Of(s)) : status'[k] = status[k]
       => RepeatAnalysis(s).flaky']_reportVars

Rising(s) == s[1] < s[Len(s)] /\ \A i \in 2..Len(s) : s[i - 1] <= s[i]

\* A chart has all the points it may, evenly cut, each with its own samples and its own extremes, so
\* that no spike is averaged away; and what only rises is reported as rising (storage.py:983, analyzer.py:29).
ChartHidesNothing ==
  \A k \in Children, buckets \in Budgets :
    series[k] # <<>> =>
      LET s == series[k]
          points == DownsampleSamples(s, buckets)
          trend == SoakAnalysis(buckets)
          last(n) == IF n = Len(points) THEN Len(s) ELSE points[n + 1].first - 1
      IN /\ Len(points) = Min({buckets, Len(s)})
         /\ \A n \in DOMAIN points :
              LET seen == {s[i] : i \in points[n].first..last(n)}
              IN /\ points[n].count = last(n) - points[n].first + 1
                 /\ points[n].count - Len(s) \div Len(points) \in {0, 1}
                 /\ points[n].minimum = Min(seen) /\ points[n].maximum = Max(seen)
         /\ spec.kind = "soak" /\ Rising(s) /\ Len(points) > 1 => trend.slope > 0 /\ trend.drift > 0
====
