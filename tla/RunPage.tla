---- MODULE RunPage ----
(***************************************************************************
 The page of one run (RunDetailView.vue): a timer that polls, polls that overlap when the server is
 slow, and the endpoint that hands out samples from an id on, some at a time.

 Samples of all runs share one sequence of ids. The page's buffers are reduced to what has been in
 them; what it draws, the comparison and the recording are left out.
 ***************************************************************************)
EXTENDS Integers, FiniteSets, FiniteSetsExt

CONSTANTS
  Polls,      \* the polls that may be under way at a time
  Limit,      \* of samples in one answer
  MaxIds,     \* bound: samples stored, of all runs
  MaxErrors   \* bound: requests that fail

ASSUME RunPageAssumption ==
  Limit \in Nat \ {0} /\ MaxIds \in Nat /\ MaxErrors \in Nat /\ Polls # {}

VARIABLES
  stored,    \* the ids of the run's samples
  lastId,    \* the last id given to a sample of any run
  over,      \* the run has ended
  late,      \* history: the samples stored when it had
  poll,      \* see IdlePoll
  runValue,  \* the run's status as the page has it: "none", "running", "over"
  sinceId,
  shown,     \* the samples that the page was given
  timer,     \* setInterval
  mounting,  \* onMounted awaits its poll: which
  left,      \* the user has gone to another page
  failed,    \* the page shows an error
  full,      \* an answer was as long as an answer may be
  errors

pageVars == <<stored, lastId, over, late, poll, runValue, sinceId, shown, timer, mounting, left, failed, full, errors>>

\* `at' is what the poll waits for; `page' is the answer on its way, `since' what was asked.
IdlePoll == [at |-> "idle", saw |-> "none", since |-> 0, page |-> {}]

PageInit ==
  /\ stored = {} /\ lastId = 0 /\ over = FALSE /\ late = {}
  /\ mounting = {CHOOSE p \in Polls : TRUE}
  /\ poll = [p \in Polls |-> IF p \in mounting THEN [IdlePoll EXCEPT !.at = "run"] ELSE IdlePoll]
  /\ runValue = "none" /\ sinceId = 0 /\ shown = {}
  /\ timer = FALSE /\ left = FALSE /\ failed = FALSE /\ full = FALSE /\ errors = 0

----
(* The server: one writer at a time gives out ids *)

\* A sample of this run or of another, by BatchWriter._run.
Commit ==
  /\ lastId < MaxIds /\ lastId' = lastId + 1
  /\ \/ /\ stored' = stored \cup {lastId'}
        /\ late' = IF over THEN late \cup {lastId'} ELSE late
     \/ UNCHANGED <<stored, late>>
  /\ UNCHANGED <<over, poll, runValue, sinceId, shown, timer, mounting, left, failed, full, errors>>

\* The row gets its final status. On the normal path the writer is closed before; when closing it
\* fails too, or another process gives the run up, the writer may still be at work.
RunOver ==
  /\ ~over /\ over' = TRUE
  /\ UNCHANGED <<stored, lastId, late, poll, runValue, sinceId, shown, timer, mounting, left, failed, full, errors>>

To(p, place) == poll' = [poll EXCEPT ![p].at = place]

ServeRun(p) ==
  /\ poll[p].at = "run"
  /\ poll' = [poll EXCEPT ![p].at = "gotRun", ![p].saw = IF over THEN "over" ELSE "running"]
  /\ UNCHANGED <<stored, lastId, over, late, runValue, sinceId, shown, timer, mounting, left, failed, full, errors>>

\* list_samples: the first ones after `since', in the order of their ids.
ListSamples(since) ==
  {id \in stored : id > since /\ Cardinality({j \in stored : since < j /\ j < id}) < Limit}

ServeSamples(p) ==
  /\ poll[p].at = "samples"
  /\ poll' = [poll EXCEPT ![p].at = "gotSamples", ![p].page = ListSamples(poll[p].since)]
  /\ UNCHANGED <<stored, lastId, over, late, runValue, sinceId, shown, timer, mounting, left, failed, full, errors>>

\* Mutant: the last id there is.
NextSinceIdOfAll(page, since) == IF page = {} THEN since ELSE Max(stored)

\* run_samples: the id of the last sample in the answer.
NextSinceId(page, since) == IF page = {} THEN since ELSE Max(page)

----
(* poll() *)

Free(p) == poll[p].at = "idle"

\* The timer fires, or onCancelRun polls once more, however many polls are under way.
Poll(p) ==
  /\ Free(p) /\ (timer \/ (runValue = "running" /\ ~left))
  /\ To(p, "run")
  /\ UNCHANGED <<stored, lastId, over, late, runValue, sinceId, shown, timer, mounting, left, failed, full, errors>>

GotRun(p) ==
  /\ poll[p].at = "gotRun"
  /\ runValue' = poll[p].saw
  /\ poll' = [poll EXCEPT ![p].at = "samples", ![p].since = sinceId]
  /\ UNCHANGED <<stored, lastId, over, late, sinceId, shown, timer, mounting, left, failed, full, errors>>

GotSamples(p) ==
  /\ poll[p].at = "gotSamples"
  /\ shown' = shown \cup poll[p].page
  /\ sinceId' = NextSinceId(poll[p].page, poll[p].since)
  /\ full' = (full \/ Cardinality(poll[p].page) = Limit)
  /\ To(p, "comparison")
  /\ UNCHANGED <<stored, lastId, over, late, runValue, timer, mounting, left, failed, errors>>

\* onMounted sets the timer when its poll is over, whatever has happened meanwhile.
Settle(p, stop) ==
  /\ poll' = [poll EXCEPT ![p] = IdlePoll]
  /\ timer' = IF p \in mounting THEN TRUE ELSE timer /\ ~stop
  /\ mounting' = mounting \ {p}

GotComparison(p) ==
  /\ poll[p].at = "comparison"
  /\ Settle(p, runValue = "over")
  /\ UNCHANGED <<stored, lastId, over, late, runValue, sinceId, shown, left, failed, full, errors>>

\* Any of the requests is answered with an error, or not at all.
PollFails(p) ==
  /\ ~Free(p) /\ errors < MaxErrors
  /\ errors' = errors + 1 /\ failed' = TRUE
  /\ Settle(p, TRUE)
  /\ UNCHANGED <<stored, lastId, over, late, runValue, sinceId, shown, left, full>>

Leave ==
  /\ ~left /\ left' = TRUE /\ timer' = FALSE
  /\ UNCHANGED <<stored, lastId, over, late, poll, runValue, sinceId, shown, mounting, failed, full, errors>>

PageNext ==
  \/ Commit \/ RunOver \/ Leave
  \/ \E p \in Polls :
       ServeRun(p) \/ ServeSamples(p) \/ Poll(p) \/ GotRun(p) \/ GotSamples(p) \/ GotComparison(p) \/ PollFails(p)

PageSpec == PageInit /\ [][PageNext]_pageVars

----
(* Properties *)

Quiet == ~timer /\ mounting = {} /\ \A p \in Polls : Free(p)

\* Whatever order the answers of overlapping polls come in, no sample is passed over: the page has all
\* up to the id it will ask from. And when the page stops by itself, it has all that were stored by the
\* end of the run, unless they were more than one answer holds (views.py:370-378,
\* RunDetailView.vue:187-194). What a writer stores after the final status may never be shown.
PageSkipsNothing ==
  /\ \A id \in stored : id <= sinceId => id \in shown
  /\ Quiet /\ ~left /\ ~failed => stored \ late \subseteq shown \/ full
====
