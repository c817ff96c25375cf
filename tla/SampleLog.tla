------------------------------- MODULE SampleLog -------------------------------
(***************************************************************************)
(* What the writer of samples and events promises its run: everything the  *)
(* run handed over is stored, once and in order, or the run is told.  It   *)
(* may be told late, and what is stored is then a prefix of what it gave.  *)
(***************************************************************************)
EXTENDS Sequences, Naturals

CONSTANT Items

VARIABLES
  given,    \* what the run has handed over, in order
  stored,   \* what metric_samples and test_events hold of it
  verdict   \* what the run knows: "open", "closed" (all stored), "failed"

LogInit ==
  /\ given = <<>> /\ stored = <<>> /\ verdict = "open"

Give(i) ==
  /\ verdict = "open"
  /\ given' = Append(given, i)
  /\ UNCHANGED <<stored, verdict>>

\* A commit adds some of what is missing; a run that was told of a failure may
\* still see its items stored.
Store ==
  /\ \E n \in Len(stored) + 1 .. Len(given) : stored' = SubSeq(given, 1, n)
  /\ UNCHANGED <<given, verdict>>

\* close returned.
CloseLog ==
  /\ verdict = "open" /\ stored = given
  /\ verdict' = "closed"
  /\ UNCHANGED <<given, stored>>

\* put or close raised.
FailLog ==
  /\ verdict = "open"
  /\ verdict' = "failed"
  /\ UNCHANGED <<given, stored>>

LogNext == (\E i \in Items : Give(i)) \/ Store \/ CloseLog \/ FailLog

logVars == <<given, stored, verdict>>

LogSpec == LogInit /\ [][LogNext]_logVars
=============================================================================
