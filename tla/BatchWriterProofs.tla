-------------------------- MODULE BatchWriterProofs --------------------------
(***************************************************************************)
(* What BatchWriter promises, for queues and batches of every size and any *)
(* number of items: the two threads conserve what is put, in order, until  *)
(* the writer dies; a run that is recorded as completed has lost nothing   *)
(* it did not report; and together they implement SampleLog.               *)
(***************************************************************************)
EXTENDS BatchWriter, TLAPS, FiniteSetTheorems, SequenceTheorems

(* Facts about sequences. *)

\* Concatenation is associative on sequences of items.
LEMMA Assoc == \A s, t, u \in Seq(Items) : (s \o t) \o u = s \o (t \o u)
BY ConcatAssociative

\* Moving the head of the queue to the end of the batch changes nothing in
\* what the three together hold.
LEMMA Moved ==
  \A s, p, q \in Seq(Items) :
    q # <<>> => (s \o Append(p, Head(q))) \o Tail(q) = (s \o p) \o q
<1> SUFFICES ASSUME NEW s \in Seq(Items), NEW p \in Seq(Items), NEW q \in Seq(Items), q # <<>>
             PROVE  (s \o Append(p, Head(q))) \o Tail(q) = (s \o p) \o q
  OBVIOUS
<1>1. PICK h, t \in Seq(Items) : Append(p, Head(q)) = p \o h /\ q = h \o t /\ t = Tail(q)
  <2>1. Head(q) \in Items /\ Tail(q) \in Seq(Items)
    BY HeadTailProperties
  <2>2. <<Head(q)>> \in Seq(Items)
    BY <2>1
  <2>3. Append(p, Head(q)) = p \o <<Head(q)>>
    BY <2>1, AppendIsConcat
  <2>4. q = <<Head(q)>> \o Tail(q)
    BY <2>1
  <2> QED BY <2>1, <2>2, <2>3, <2>4
<1>a. h \in Seq(Items) /\ t \in Seq(Items)
  BY <1>1
<1>2. p \o h \in Seq(Items) /\ h \o t \in Seq(Items)
  BY <1>a, ConcatProperties
<1>3. (s \o (p \o h)) \o t = s \o ((p \o h) \o t)
  BY <1>a, <1>2, Assoc, ZenonT(30)
<1>4. (p \o h) \o t = p \o (h \o t)
  BY <1>a, Assoc, ZenonT(30)
<1>5. (s \o p) \o (h \o t) = s \o (p \o (h \o t))
  BY <1>2, Assoc, ZenonT(30)
<1>6. (s \o (p \o h)) \o t = (s \o p) \o (h \o t)
  BY <1>3, <1>4, <1>5
<1> QED BY <1>1, <1>6

\* What is put goes to the end of what the three hold.
LEMMA PutBehind ==
  \A r, q \in Seq(Items), i \in Items : Append(r \o q, i) = r \o Append(q, i)
<1> SUFFICES ASSUME NEW r \in Seq(Items), NEW q \in Seq(Items), NEW i \in Items
             PROVE  Append(r \o q, i) = r \o Append(q, i)
  OBVIOUS
<1>1. <<i>> \in Seq(Items) /\ Append(q, i) = q \o <<i>> /\ r \o q \in Seq(Items)
  BY ConcatProperties
<1>2. Append(r \o q, i) = (r \o q) \o <<i>>
  BY <1>1
<1> QED BY <1>1, <1>2, ConcatAssociative

\* A commit makes of what is stored a longer prefix of what was put.
LEMMA LongerPrefix ==
  \A s, p, q \in Seq(Items) :
    p # <<>> =>
      \E n \in Len(s) + 1 .. Len((s \o p) \o q) : s \o p = SubSeq((s \o p) \o q, 1, n)
<1> SUFFICES ASSUME NEW s \in Seq(Items), NEW p \in Seq(Items), NEW q \in Seq(Items), p # <<>>
             PROVE  \E n \in Len(s) + 1 .. Len((s \o p) \o q) :
                      s \o p = SubSeq((s \o p) \o q, 1, n)
  OBVIOUS
<1> DEFINE r == s \o p
<1>1. r \in Seq(Items) /\ Len(r) = Len(s) + Len(p) /\ Len(r \o q) = Len(r) + Len(q)
  BY ConcatProperties
<1>2. Len(s) \in Nat /\ Len(p) \in Nat \ {0} /\ Len(q) \in Nat
  BY EmptySeq, LenProperties
<1>3. 1 \in 1..Len(r) /\ Len(r) \in 1..Len(r)
  BY <1>1, <1>2
<1>4. SubSeq(r \o q, 1, Len(r)) = SubSeq(r, 1, Len(r))
  BY <1>1, <1>3, SubSeqOfConcat1
<1>5. SubSeq(r, 1, Len(r)) = r
  BY <1>1, SubSeqFull
<1>6. Len(r) \in Len(s) + 1 .. Len(r \o q)
  BY <1>1, <1>2
<1> QED BY <1>4, <1>5, <1>6

\* Reports counts the reports of a sequence one by one.
LEMMA ReportsAppend ==
  ASSUME NEW s \in Seq(Items), NEW i \in Items
  PROVE  /\ Reports(s) \in Nat
         /\ Reports(Append(s, i)) = Reports(s) + IF i = Report THEN 1 ELSE 0
<1> DEFINE R(t) == {n \in DOMAIN t : t[n] = Report}
           m == Len(s) + 1
           t == Append(s, i)
<1>1. /\ Len(s) \in Nat /\ DOMAIN s = 1..Len(s) /\ DOMAIN t = 1..m
      /\ t[m] = i /\ \A n \in 1..Len(s) : t[n] = s[n]
  BY LenProperties
<1>2. IsFiniteSet(R(s)) /\ m \notin R(s)
  <2>1. IsFiniteSet(1..Len(s))
    BY <1>1, FS_Interval
  <2> QED BY <1>1, <2>1, FS_Subset
<1>3. Cardinality(R(s)) \in Nat
  BY <1>2, FS_CardinalityType
<1>4. CASE i = Report
  <2>1. R(t) = R(s) \union {m}
    BY <1>1, <1>4
  <2>2. Cardinality(R(t)) = Cardinality(R(s)) + 1
    BY <1>2, <2>1, FS_AddElement
  <2> QED BY <1>3, <1>4, <2>2 DEF Reports
<1>5. CASE i # Report
  <2>1. R(t) = R(s)
    BY <1>1, <1>5
  <2>2. Reports(t) = Reports(s)
    BY <2>1 DEF Reports
  <2>3. Reports(s) \in Nat
    BY <1>3 DEF Reports
  <2> QED BY <1>5, <2>2, <2>3
<1> QED BY <1>4, <1>5

\* Nothing has been reported before anything is put.
LEMMA ReportsNone == Reports(<<>>) = 0
<1>1. {n \in DOMAIN <<>> : <<>>[n] = Report} = {}
  OBVIOUS
<1> QED BY <1>1, FS_EmptySet DEF Reports

-----------------------------------------------------------------------------
(* The shape of the state. *)

\* Every step keeps the shape of the queue and of the two threads.
LEMMA TypeStep == TypeOK /\ [Next]_vars => TypeOK'
<1> SUFFICES ASSUME TypeOK, [Next]_vars PROVE TypeOK'
  OBVIOUS
<1> USE WriterAssumption DEF TypeOK, Full, writerVars, mainVars
<1>1. ASSUME NEW k \in {"sample", "event"}, PutCheck(k) PROVE TypeOK'
  <2>1. CASE ~error
    BY <1>1, <2>1 DEF PutCheck
  <2>2. CASE error /\ k = "sample"
    BY <1>1, <2>2 DEF PutCheck, PutRaises
  <2>3. CASE error /\ k = "event"
    BY <1>1, <2>3 DEF PutCheck, PutRaises, Raise
  <2> QED BY <2>1, <2>2, <2>3
<1>2. CASE ReportCheck
  BY <1>2 DEF ReportCheck, Raise
<1>3. ASSUME NEW i \in Items, Enqueue(i) PROVE TypeOK'
  BY <1>3 DEF Enqueue
<1>4. CASE PutFull
  <2>1. CASE main = "sample"
    BY <1>4, <2>1 DEF PutFull, PutRaises
  <2>2. CASE main # "sample"
    BY <1>4, <2>2 DEF PutFull, PutRaises, Raise
  <2> QED BY <2>1, <2>2
<1>5. CASE OtherException \/ Close
  BY <1>5 DEF OtherException, Close, Raise
<1>6. CASE SendStop
  <2>1. Len(queue) \in Nat /\ Len(queue) + stops + 1 <= QueueSize
    BY <1>6, LenProperties DEF SendStop
  <2> QED BY <1>6, <2>1 DEF SendStop
<1>7. CASE StopFull \/ Join \/ Record
  BY <1>7 DEF StopFull, Join, Record, CloseRaises, Raise
<1>8. CASE Connect \/ TakeNothing \/ Wait \/ Die
  BY <1>8 DEF Connect, TakeNothing, Wait, Die, NextRound
<1>9. CASE TakeItem
  <2>1. Head(queue) \in Items /\ Tail(queue) \in Seq(Items) /\ Len(Tail(queue)) = Len(queue) - 1
    BY <1>9, HeadTailProperties DEF TakeItem
  <2> QED BY <1>9, <2>1 DEF TakeItem
<1>10. CASE TakeStop
  BY <1>10 DEF TakeStop
<1>11. CASE Commit
  BY <1>11, ConcatProperties DEF Commit, NextRound
<1>12. CASE UNCHANGED vars
  BY <1>12 DEF vars
<1> QED BY <1>1, <1>2, <1>3, <1>4, <1>5, <1>6, <1>7, <1>8, <1>9, <1>10, <1>11, <1>12
        DEF Next, Put, EndRun, Writer, Ended

\* They start in it.
LEMMA TypeInit == Init => TypeOK
<1>1. <<>> \in Seq(Items) /\ Len(<<>>) = 0
  BY EmptySeq
<1> SUFFICES ASSUME Init PROVE TypeOK
  OBVIOUS
<1>2. given \in Seq(Items) /\ queue \in Seq(Items) /\ pending \in Seq(Items) /\ stored \in Seq(Items)
  BY <1>1 DEF Init
<1>3. stops \in Nat /\ dropped \in Nat /\ Len(queue) + stops <= QueueSize
  <2>1. Len(queue) = 0 /\ stops = 0 /\ dropped = 0
    BY <1>1 DEF Init
  <2> QED BY <2>1, WriterAssumption
<1> QED BY <1>2, <1>3 DEF Init, TypeOK

\* The queue keeps its bound and both threads their places.
THEOREM TypeCorrect == Spec => []TypeOK
BY TypeInit, TypeStep, PTL DEF Spec

-----------------------------------------------------------------------------
(* The order of the end: the writer stops only after the run has, and the  *)
(* run goes on only when the writer has.                                   *)

EndInOrder ==
  /\ stops > 0 \/ stopping => main \in {"closing", "joining", "closed", "over"}
  /\ stopping => queue = <<>> /\ writer \in {"check", "done"}
  /\ writer = "done" /\ ~error => stopping /\ pending = <<>>
  /\ error => writer = "done"
  /\ failing => main \in {"closing", "joining", "over"}
  /\ main = "closed" => writer = "done" /\ ~error /\ ~failing
  /\ main = "over" /\ ~failing => writer = "done" /\ ~error

\* Every step keeps that order.
LEMMA EndStep == TypeOK /\ EndInOrder /\ [Next]_vars => EndInOrder'
<1> SUFFICES ASSUME TypeOK, EndInOrder, [Next]_vars PROVE EndInOrder'
  OBVIOUS
<1> USE DEF TypeOK, EndInOrder, writerVars, mainVars
<1>1. CASE \E k \in {"sample", "event"} : PutCheck(k)
  BY <1>1 DEF PutCheck, PutRaises, Raise
<1>2. CASE ReportCheck \/ (\E i \in Items : Enqueue(i))
  BY <1>2 DEF ReportCheck, Raise, Enqueue
<1>3. CASE PutFull
  BY <1>3 DEF PutFull, PutRaises, Raise
<1>4. CASE OtherException \/ Close
  BY <1>4 DEF OtherException, Close, Raise
<1>5. CASE SendStop \/ StopFull
  BY <1>5 DEF SendStop, StopFull, CloseRaises
<1>6. CASE Join
  BY <1>6 DEF Join, CloseRaises
<1>7. CASE Record
  BY <1>7 DEF Record, Raise
<1>8. CASE Connect \/ TakeNothing \/ TakeItem \/ TakeStop
  BY <1>8 DEF Connect, TakeNothing, TakeItem, TakeStop
<1>9. CASE Wait \/ Commit \/ Die
  BY <1>9 DEF Wait, Commit, Die, NextRound, FlushDue
<1>10. CASE UNCHANGED vars
  BY <1>10 DEF vars
<1> QED BY <1>1, <1>2, <1>3, <1>4, <1>5, <1>6, <1>7, <1>8, <1>9, <1>10
        DEF Next, Put, EndRun, Writer, Ended

-----------------------------------------------------------------------------
(* Nothing is lost on the way. *)

Intact == ~error => given = (stored \o pending) \o queue

\* Every step leaves what is put in stored, pending and queue, in order.
LEMMA IntactStep == TypeOK /\ EndInOrder /\ Intact /\ [Next]_vars => Intact'
<1> SUFFICES ASSUME TypeOK, EndInOrder, Intact, [Next]_vars PROVE Intact'
  OBVIOUS
<1> USE DEF Intact, writerVars, mainVars
<1>1. CASE UNCHANGED <<given, stored, pending, queue, error>>
  BY <1>1
<1>2. ASSUME NEW i \in Items, Enqueue(i) PROVE Intact'
  <2>1. stored \o pending \in Seq(Items)
    BY ConcatProperties DEF TypeOK
  <2>2. queue \in Seq(Items)
    BY DEF TypeOK
  <2>3. Append((stored \o pending) \o queue, i) = (stored \o pending) \o Append(queue, i)
    BY <2>1, <2>2, PutBehind
  <2> QED BY <1>2, <2>3 DEF Enqueue
<1>3. CASE TakeItem
  <2>1. /\ stored \in Seq(Items) /\ pending \in Seq(Items)
        /\ queue \in Seq(Items) /\ queue # <<>>
    BY <1>3 DEF TypeOK, TakeItem
  <2>2. (stored \o Append(pending, Head(queue))) \o Tail(queue) = (stored \o pending) \o queue
    BY <2>1, Moved
  <2> QED BY <1>3, <2>2 DEF TakeItem
<1>4. CASE Commit
  <2>1. stored \o pending \in Seq(Items)
    BY ConcatProperties DEF TypeOK
  <2>2. (stored \o pending) \o <<>> = stored \o pending
    BY <2>1, ConcatEmptySeq
  <2> QED BY <1>4, <2>2 DEF Commit
<1>5. CASE Die
  BY <1>5 DEF Die
<1>6. CASE (\E k \in {"sample", "event"} : PutCheck(k)) \/ ReportCheck \/ PutFull
  BY <1>1, <1>6 DEF PutCheck, ReportCheck, PutFull
<1>7. CASE OtherException \/ Close \/ EndRun
  BY <1>1, <1>7 DEF OtherException, Close, EndRun, SendStop, StopFull, Join, Record
<1>8. CASE Connect \/ TakeStop \/ TakeNothing \/ Wait
  BY <1>1, <1>8 DEF Connect, TakeStop, TakeNothing, Wait
<1>9. CASE UNCHANGED vars
  BY <1>1, <1>9 DEF vars
<1> QED BY <1>2, <1>3, <1>4, <1>5, <1>6, <1>7, <1>8, <1>9 DEF Next, Put, Writer, Ended

-----------------------------------------------------------------------------
(* Every loss is reported. *)

Owed == IF main \in {"caught", "report"} THEN 1 ELSE 0

Accounted == ~failing => dropped = Reports(given) + Owed

\* A step that drops samples owes a report; only the report settles it.
LEMMA AccountStep == TypeOK /\ Accounted /\ [Next]_vars => Accounted'
<1> SUFFICES ASSUME TypeOK, Accounted, [Next]_vars PROVE Accounted'
  OBVIOUS
<1> USE DEF Accounted, Owed, writerVars, mainVars
<1>1. Reports(given) \in Nat
  BY WriterAssumption, ReportsAppend DEF TypeOK
<1>2. CASE \E k \in {"sample", "event"} : PutCheck(k)
  BY <1>1, <1>2 DEF PutCheck, PutRaises, Raise, TypeOK, Reports
<1>3. ASSUME NEW i \in Items, Enqueue(i) PROVE Accounted'
  <2>1. Reports(given') = Reports(given) + IF i = Report THEN 1 ELSE 0
    BY <1>3, ReportsAppend DEF TypeOK, Enqueue
  <2> QED BY <1>1, <1>3, <2>1 DEF Enqueue, TypeOK
<1>4. CASE ReportCheck \/ PutFull
  <2>1. Reports(given)' = Reports(given)
    BY <1>4 DEF ReportCheck, PutFull, Reports
  <2> QED BY <1>1, <1>4, <2>1 DEF ReportCheck, PutFull, PutRaises, Raise, TypeOK
<1>5. CASE OtherException \/ Close \/ SendStop \/ StopFull
  BY <1>5 DEF OtherException, Close, Raise, SendStop, StopFull, CloseRaises, Reports
<1>6. CASE Join \/ Record
  BY <1>6 DEF Join, Record, CloseRaises, Raise, Reports
<1>7. CASE Writer
  BY <1>7 DEF Writer, Connect, TakeItem, TakeStop, TakeNothing, Commit, Wait, Die, Reports
<1>8. CASE UNCHANGED vars
  BY <1>8 DEF vars, Reports
<1> QED BY <1>2, <1>3, <1>4, <1>5, <1>6, <1>7, <1>8 DEF Next, Put, EndRun, Ended

-----------------------------------------------------------------------------
(* The theorems. *)

WriterInv == TypeOK /\ EndInOrder /\ Intact /\ Accounted

\* The inductive invariant of the two threads.
THEOREM Invariant == Spec => []WriterInv
<1>1. Init => WriterInv
  <2> SUFFICES ASSUME Init PROVE WriterInv
    OBVIOUS
  <2>1. TypeOK /\ EndInOrder
    BY TypeInit DEF Init, EndInOrder
  <2>2. Intact
    BY ConcatEmptySeq, EmptySeq DEF Init, Intact
  <2>3. Accounted
    BY ReportsNone DEF Init, Accounted, Owed
  <2> QED BY <2>1, <2>2, <2>3 DEF WriterInv
<1>2. WriterInv /\ [Next]_vars => WriterInv'
  BY TypeStep, EndStep, IntactStep, AccountStep DEF WriterInv
<1> QED BY <1>1, <1>2, PTL DEF Spec

\* When the writer has ended without an error everything put is stored.
LEMMA Settled == WriterInv /\ writer = "done" /\ ~error => stored = given
<1> SUFFICES ASSUME WriterInv, writer = "done", ~error PROVE stored = given
  OBVIOUS
<1>1. pending = <<>> /\ queue = <<>> /\ stored \in Seq(Items)
  BY DEF WriterInv, EndInOrder, TypeOK
<1>2. given = (stored \o pending) \o queue
  BY DEF WriterInv, Intact
<1> QED BY <1>1, <1>2, ConcatEmptySeq

\* Until the writer dies every item put is stored, in the batch or in the
\* queue, once and in order, and a writer that ends leaves none behind.
THEOREM NothingLost == Spec => []Conserved
<1>1. WriterInv => Conserved
  BY DEF WriterInv, EndInOrder, Intact, Conserved
<1> QED BY <1>1, Invariant, PTL

\* A run recorded as completed or interrupted has all it put in the database,
\* and a report there for each loss.
THEOREM LossIsTold == Spec => []NoSilentLoss
<1>1. WriterInv => NoSilentLoss
  <2> SUFFICES ASSUME WriterInv, main = "over", ~failing
               PROVE  stored = given /\ Reports(stored) = dropped
    BY DEF NoSilentLoss
  <2>1. given = stored
    BY Settled DEF WriterInv, EndInOrder
  <2>2. given \in Seq(Items)
    BY DEF WriterInv, TypeOK
  <2>3. Reports(given) \in Nat /\ dropped = Reports(given) + Owed
    BY WriterAssumption, <2>2, ReportsAppend DEF WriterInv, Accounted
  <2> QED BY <2>1, <2>3 DEF Owed
<1> QED BY <1>1, Invariant, PTL

\* The two threads and their bounded queue implement the log of SampleLog:
\* what is stored grows only by what was given next, and a run is told that
\* it is closed only when everything is stored.
THEOREM Refinement == Spec => ImplementsLog
<1>1. Init => Log!LogInit
  BY DEF Init, Log!LogInit, Verdict
<1>2. WriterInv /\ [Next]_vars => [Log!LogNext]_(Log!logVars)
  <2> SUFFICES ASSUME WriterInv, [Next]_vars PROVE [Log!LogNext]_(Log!logVars)
    OBVIOUS
  <2> USE DEF Log!logVars, Verdict, writerVars, mainVars
  <2>1. CASE UNCHANGED <<given, stored, failing, main>>
    BY <2>1
  <2>2. CASE \E k \in {"sample", "event"} : PutCheck(k)
    BY <2>2 DEF PutCheck, PutRaises, Raise, Log!LogNext, Log!FailLog
  <2>3. CASE ReportCheck \/ OtherException
    BY <2>3 DEF ReportCheck, OtherException, Raise, Log!LogNext, Log!FailLog
  <2>4. ASSUME NEW i \in Items, Enqueue(i) PROVE [Log!LogNext]_(Log!logVars)
    <3>1. ~failing
      BY <2>4 DEF Enqueue, WriterInv, EndInOrder
    <3> QED BY <2>4, <3>1 DEF Enqueue, Log!LogNext, Log!Give
  <2>5. CASE PutFull
    BY <2>5 DEF PutFull, PutRaises, Raise, Log!LogNext, Log!FailLog
  <2>6. CASE Close \/ SendStop
    BY <2>6 DEF Close, SendStop
  <2>7. CASE StopFull
    BY <2>7 DEF StopFull, CloseRaises, Log!LogNext, Log!FailLog
  <2>8. CASE Join
    BY <2>8 DEF Join, CloseRaises, Log!LogNext, Log!FailLog
  <2>9. CASE Record
    <3>1. ~failing /\ stored = given
      BY <2>9, Settled DEF WriterInv, EndInOrder, Record
    <3> QED BY <2>9, <3>1 DEF Record, Raise, Log!LogNext, Log!FailLog, Log!CloseLog
  <2>10. CASE Commit
    <3>1. /\ stored \in Seq(Items) /\ pending \in Seq(Items)
          /\ queue \in Seq(Items) /\ pending # <<>>
      BY <2>10 DEF Commit, FlushDue, WriterInv, TypeOK
    <3>2. given = (stored \o pending) \o queue
      BY <2>10 DEF Commit, WriterInv, EndInOrder, Intact
    <3>3. \E n \in Len(stored) + 1 .. Len(given) : stored \o pending = SubSeq(given, 1, n)
      BY <3>1, <3>2, LongerPrefix
    <3> QED BY <2>10, <3>3 DEF Commit, Log!LogNext, Log!Store
  <2>11. CASE Connect \/ TakeItem \/ TakeStop \/ TakeNothing \/ Wait \/ Die
    BY <2>1, <2>11 DEF Connect, TakeItem, TakeStop, TakeNothing, Wait, Die
  <2>12. CASE UNCHANGED vars
    BY <2>1, <2>12 DEF vars
  <2> QED BY <2>2, <2>3, <2>4, <2>5, <2>6, <2>7, <2>8, <2>9, <2>10, <2>11, <2>12
          DEF Next, Put, EndRun, Writer, Ended
<1> QED BY <1>1, <1>2, Invariant, PTL DEF Spec, ImplementsLog, Log!LogSpec
=============================================================================
