---------------------------- MODULE SessionProofs ----------------------------
(***************************************************************************)
(* Proofs about what the user has in front: the page of a run, for any     *)
(* number of overlapping polls and any size of an answer; a live screen    *)
(* client, for any calls and faults; the launcher, on any machine; the     *)
(* reports of a campaign of any size, and its charts, of any samples.      *)
(***************************************************************************)
EXTENDS Launcher, ScreenClient, RunPage, Reports, FiniteSetTheorems, SequenceTheorems, WellFoundedInduction, TLAPS

(* Finite sets of ids *)

\* A set of natural numbers has a least element.
LEMMA LeastId ==
  ASSUME NEW S, S \subseteq Nat, S # {}
  PROVE  \E x \in S : \A y \in S : x <= y
<1> DEFINE Less == {ss \in Nat \X Nat : ss[1] < ss[2]}
<1>1. IsWellFoundedOn(Less, Nat)
  BY NatLessThanWellFounded DEF OpToRel
<1>2. PICK x \in S : \A y \in S : ~ (<<y, x>> \in Less)
  <2> HIDE DEF Less
  <2> QED
    BY <1>1, WFMin
<1>3. \A y \in S : ~ (y < x)
  BY <1>2
<1> QED
  BY <1>3

\* A bounded set of natural numbers has a greatest element, which is its Max.
LEMMA GreatestId ==
  ASSUME NEW n \in Nat, NEW S, S \subseteq 0..n, S # {}
  PROVE  Max(S) \in S /\ \A y \in S : y <= Max(S)
<1> DEFINE Bounds == {b \in Nat : \A y \in S : y <= b}
<1>1. n \in Bounds
  OBVIOUS
<1>2. PICK b \in Bounds : \A c \in Bounds : b <= c
  <2> HIDE DEF Bounds
  <2>1. Bounds \subseteq Nat
    BY DEF Bounds
  <2> QED
    BY <1>1, <2>1, LeastId
<1>3. b \in S
  <2> SUFFICES ASSUME b \notin S PROVE FALSE
    OBVIOUS
  <2>1. b - 1 \in Bounds
    <3>1. PICK y \in S : TRUE
      OBVIOUS
    <3>2. \A z \in S : z <= b - 1
      OBVIOUS
    <3> QED
      BY <3>1, <3>2
  <2> QED
    BY <1>2, <2>1
<1>4. \E x \in S : \A y \in S : x >= y
  BY <1>3
<1>5. Max(S) \in S /\ \A y \in S : Max(S) >= y
  BY <1>4 DEF Max
<1> QED
  BY <1>5
-------------------------------------------------------------------------------
(* The page of a run *)

Places == {"idle", "run", "gotRun", "samples", "gotSamples", "comparison"}

PollRecord == [at : Places, saw : {"none", "running", "over"}, since : Nat, page : SUBSET Nat]

PageTypeOK ==
  /\ lastId \in Nat /\ stored \subseteq 1..lastId /\ shown \subseteq stored /\ late \subseteq stored
  /\ poll \in [Polls -> PollRecord]
  /\ sinceId \in 0..lastId /\ mounting \subseteq Polls
  /\ {over, timer, left, failed, full} \subseteq BOOLEAN

\* The page has what is stored up to an id.
HasUpTo(n) == \A id \in stored : id <= n => id \in shown

\* What a poll has been answered begins where the page had everything, and leaves no gap.
AnswersHaveNoGap ==
  \A p \in Polls :
    /\ poll[p].at \in {"samples", "gotSamples"} => poll[p].since <= lastId /\ HasUpTo(poll[p].since)
    /\ poll[p].at = "gotSamples" =>
         /\ poll[p].page \subseteq stored
         /\ \A id \in stored, m \in poll[p].page :
              poll[p].since < id /\ id <= m => id \in poll[p].page

Complete == over /\ (stored \ late \subseteq shown \/ full)

\* A poll that saw the run over, and whose samples the page has yet to be given.
LastWord(p) == poll[p].saw = "over" /\ poll[p].at \in {"gotRun", "samples", "gotSamples"}

\* Such a poll is answered with the rest, or with as much as an answer may hold.
LastAnswers ==
  \A p \in Polls : poll[p].saw = "over" =>
    /\ over
    /\ poll[p].at = "gotSamples" =>
         \/ \A id \in stored \ late : poll[p].since < id => id \in poll[p].page
         \/ Cardinality(poll[p].page) = Limit

Awaited == Complete \/ failed \/ \E p \in Polls : LastWord(p)

\* The page takes the run for over, and stops, only with such an answer, or one under way.
StopsForAReason ==
  /\ runValue = "over" => Awaited
  /\ ~timer /\ mounting = {} /\ ~left => Awaited

PageInv ==
  PageTypeOK /\ HasUpTo(sinceId) /\ AnswersHaveNoGap /\ LastAnswers /\ StopsForAReason

\* The first ids of a set, as many as an answer holds: they leave no gap, and only a full answer
\* leaves any out.
LEMMA ListSamplesIsAPrefix ==
  ASSUME PageTypeOK, NEW since \in Nat
  PROVE  /\ ListSamples(since) \subseteq {id \in stored : since < id}
         /\ \A id \in stored, m \in ListSamples(since) :
              since < id /\ id <= m => id \in ListSamples(since)
         /\ \/ \A id \in stored : since < id => id \in ListSamples(since)
            \/ Cardinality(ListSamples(since)) = Limit
<1> DEFINE Later == {id \in stored : since < id}
           Below(id) == {j \in stored : since < j /\ j < id}
           Page == ListSamples(since)
<1>1. stored \subseteq 0..lastId /\ lastId \in Nat /\ stored \subseteq Nat
  BY DEF PageTypeOK
<1>2. ASSUME NEW S \in SUBSET stored
      PROVE  IsFiniteSet(S) /\ Cardinality(S) \in Nat
  <2>1. IsFiniteSet(0..lastId)
    BY <1>1, FS_Interval
  <2> QED
    BY <1>1, <2>1, FS_Subset, FS_CardinalityType
<1>3. Page = {id \in stored : since < id /\ Cardinality(Below(id)) < Limit}
  BY <1>1 DEF ListSamples
<1>4. Limit \in Nat /\ Limit > 0
  BY RunPageAssumption
<1>5. ASSUME NEW id \in stored, NEW m \in Page, since < id, id <= m
      PROVE  id \in Page
  <2>0. m \in stored /\ id \in Nat /\ m \in Nat
    BY <1>1, <1>3, <1>5
  <2>1. Below(id) \subseteq Below(m)
    <3>1. ASSUME NEW j \in Below(id) PROVE j \in Below(m)
      <4>1. j \in stored /\ j \in Nat /\ since < j /\ j < id
        BY <1>1, <3>1
      <4> QED
        BY <2>0, <4>1, <1>5
    <3> QED
      BY <3>1
  <2>2. Cardinality(Below(id)) <= Cardinality(Below(m))
    BY <2>1, <1>2, FS_Subset
  <2> QED
    BY <1>2, <1>3, <1>4, <1>5, <2>2
<1>6. ASSUME Later \ Page # {}
      PROVE  Cardinality(Page) = Limit
  <2>1. PICK id \in Later \ Page : \A y \in Later \ Page : id <= y
    <3>1. Later \ Page \subseteq Nat
      BY <1>1
    <3> HIDE DEF Later, Page
    <3> QED
      BY <1>6, <3>1, LeastId
  <2>2. Below(id) = Page
    <3>0. id \in stored /\ since < id /\ id \notin Page /\ id \in Nat
      BY <1>1, <2>1
    <3>1. ASSUME NEW j \in Below(id) PROVE j \in Page
      <4>1. j \in stored /\ j \in Nat /\ since < j /\ j < id
        BY <1>1, <3>1
      <4>2. ~ (id <= j)
        BY <3>0, <4>1
      <4> HIDE DEF Page
      <4> QED
        BY <2>1, <4>1, <4>2
    <3>2. ASSUME NEW j \in Page PROVE j \in Below(id)
      <4>1. j \in stored /\ j \in Nat /\ since < j
        BY <1>1, <1>3, <3>2
      <4>2. ~ (id <= j)
        <5> HIDE DEF Page
        <5> QED
          BY <1>5, <3>0, <3>2
      <4> QED
        BY <3>0, <4>1, <4>2
    <3> QED
      BY <3>1, <3>2
  <2>3. Cardinality(Page) >= Limit
    <3>1. Below(id) \subseteq stored
      OBVIOUS
    <3>2. Cardinality(Below(id)) \in Nat /\ ~ (Cardinality(Below(id)) < Limit)
      BY <1>2, <1>3, <2>1, <3>1
    <3> QED
      BY <1>4, <2>2, <3>2
  <2>4. Page # {}
    BY <2>3, <1>4, FS_EmptySet
  <2> DEFINE m == Max(Page)
  <2>5. m \in Page /\ \A y \in Page : y <= m
    <3>1. Page \subseteq 0..lastId
      BY <1>1, <1>3
    <3> HIDE DEF Page
    <3> QED
      BY <1>1, <2>4, <3>1, GreatestId
  <2>6. Page \ {m} = Below(m)
    <3> HIDE DEF m
    <3>0. m \in stored /\ since < m /\ m \in Nat
      BY <1>1, <1>3, <2>5
    <3>1. ASSUME NEW j \in Below(m) PROVE j \in Page \ {m}
      <4>1. j \in stored /\ j \in Nat /\ since < j /\ j < m
        BY <1>1, <3>1
      <4> HIDE DEF Page
      <4> QED
        BY <1>5, <2>5, <3>0, <4>1
    <3>2. ASSUME NEW j \in Page \ {m} PROVE j \in Below(m)
      <4>1. j \in stored /\ j \in Nat /\ since < j /\ j <= m /\ j # m
        BY <1>1, <1>3, <2>5, <3>2
      <4> QED
        BY <3>0, <4>1
    <3> QED
      BY <3>1, <3>2
  <2>7. Cardinality(Page \ {m}) = Cardinality(Page) - 1
    <3>1. IsFiniteSet(Page)
      BY <1>2, <1>3
    <3> HIDE DEF Page, m
    <3> QED
      BY <2>5, <3>1, FS_RemoveElement
  <2>8. Cardinality(Below(m)) < Limit
    BY <1>3, <2>5
  <2>9. Cardinality(Page) \in Nat
    BY <1>2, <1>3
  <2> HIDE DEF Page, m
  <2> QED
    BY <1>4, <2>3, <2>6, <2>7, <2>8, <2>9
<1> QED
  BY <1>1, <1>3, <1>5, <1>6

\* Every step of the page or its server keeps the invariant.
LEMMA PageInvKept == PageInv /\ [PageNext]_pageVars => PageInv'
<1> SUFFICES ASSUME PageInv, [PageNext]_pageVars PROVE PageInv'
  OBVIOUS
<1> USE RunPageAssumption DEF PageInv
<1>1. ASSUME Commit PROVE PageInv'
  <2>1. /\ lastId \in Nat /\ lastId' = lastId + 1 /\ stored \subseteq 1..lastId
        /\ stored \subseteq stored' /\ stored' \subseteq stored \cup {lastId'}
        /\ late \subseteq late' /\ late' \subseteq stored' /\ (over => stored' \ late' \subseteq stored \ late)
    BY <1>1 DEF Commit, PageTypeOK
  <2>2. stored' \subseteq 1..lastId'
    <3>1. ASSUME NEW id \in stored' PROVE id \in 1..lastId'
      <4>1. CASE id = lastId'
        BY <2>1, <4>1
      <4>2. CASE id \in stored
        BY <2>1, <4>2
      <4> QED
        BY <2>1, <4>1, <4>2
    <3> QED
      BY <3>1
  <2>t. PageTypeOK'
    <3>1. shown' \subseteq stored'
      BY <1>1, <2>1 DEF Commit, PageTypeOK
    <3>2. sinceId' \in 0..lastId'
      BY <1>1, <2>1 DEF Commit, PageTypeOK
    <3> QED
      BY <1>1, <2>1, <2>2, <3>1, <3>2 DEF Commit, PageTypeOK
  <2>3. ASSUME NEW n \in Nat, n <= lastId, HasUpTo(n) PROVE HasUpTo(n)'
    <3> SUFFICES ASSUME NEW id \in stored', id <= n PROVE id \in shown'
      BY DEF HasUpTo
    <3>1. id # lastId'
      BY <2>1, <2>3
    <3> QED
      BY <1>1, <2>1, <2>3, <3>1 DEF Commit, HasUpTo
  <2>h. HasUpTo(sinceId)'
    BY <1>1, <2>3 DEF Commit, PageTypeOK, HasUpTo
  <2>a. AnswersHaveNoGap'
    <3> SUFFICES ASSUME NEW p \in Polls
                 PROVE  /\ poll[p].at \in {"samples", "gotSamples"} =>
                             poll[p].since <= lastId' /\ HasUpTo(poll[p].since)'
                        /\ poll[p].at = "gotSamples" =>
                             /\ poll[p].page \subseteq stored'
                             /\ \A id \in stored', m \in poll[p].page :
                                  poll[p].since < id /\ id <= m => id \in poll[p].page
      BY <1>1 DEF Commit, AnswersHaveNoGap, HasUpTo
    <3>1. poll[p].since \in Nat
      BY DEF PageTypeOK, PollRecord
    <3>2. poll[p].at \in {"samples", "gotSamples"} =>
             poll[p].since <= lastId' /\ HasUpTo(poll[p].since)'
      BY <1>1, <2>1, <2>3, <3>1 DEF Commit, AnswersHaveNoGap, HasUpTo
    <3>3. ASSUME poll[p].at = "gotSamples", NEW id \in stored', NEW m \in poll[p].page,
                 poll[p].since < id, id <= m
          PROVE  id \in poll[p].page
      <4>0. m \in stored
        BY <3>3 DEF AnswersHaveNoGap
      <4>a. m \in 1..lastId
        BY <2>1, <4>0
      <4>1. m <= lastId /\ m \in Nat
        BY <2>1, <4>a
      <4>2. id # lastId'
        BY <2>1, <3>3, <4>1
      <4> QED
        BY <2>1, <3>3, <4>2 DEF AnswersHaveNoGap
    <3> QED
      BY <2>1, <3>2, <3>3 DEF AnswersHaveNoGap
  <2>l. LastAnswers'
    BY <1>1, <2>1 DEF Commit, LastAnswers
  <2>s. StopsForAReason'
    BY <1>1, <2>1 DEF Commit, StopsForAReason, Awaited, Complete, LastWord
  <2> QED
    BY <2>t, <2>h, <2>a, <2>l, <2>s
<1>2. ASSUME RunOver PROVE PageInv'
  <2>t. PageTypeOK'
    BY <1>2 DEF RunOver, PageTypeOK, Places, PollRecord, IdlePoll
  <2>h. HasUpTo(sinceId)'
    BY <1>2 DEF RunOver, HasUpTo, PageTypeOK
  <2>a. AnswersHaveNoGap'
    BY <1>2 DEF RunOver, AnswersHaveNoGap, HasUpTo, PageTypeOK, IdlePoll
  <2>l. LastAnswers'
    BY <1>2 DEF RunOver, LastAnswers, PageTypeOK, IdlePoll
  <2>s. StopsForAReason'
    BY <1>2 DEF RunOver, StopsForAReason, Awaited, Complete, LastWord, LastAnswers, PageTypeOK, IdlePoll
  <2> QED
    BY <2>t, <2>h, <2>a, <2>l, <2>s
<1>3. ASSUME Leave PROVE PageInv'
  <2>t. PageTypeOK'
    BY <1>3 DEF Leave, PageTypeOK, Places, PollRecord, IdlePoll
  <2>h. HasUpTo(sinceId)'
    BY <1>3 DEF Leave, HasUpTo, PageTypeOK
  <2>a. AnswersHaveNoGap'
    BY <1>3 DEF Leave, AnswersHaveNoGap, HasUpTo, PageTypeOK, IdlePoll
  <2>l. LastAnswers'
    BY <1>3 DEF Leave, LastAnswers, PageTypeOK, IdlePoll
  <2>s. StopsForAReason'
    BY <1>3 DEF Leave, StopsForAReason, Awaited, Complete, LastWord, LastAnswers, PageTypeOK, IdlePoll
  <2> QED
    BY <2>t, <2>h, <2>a, <2>l, <2>s
<1>4. ASSUME NEW p \in Polls, ServeRun(p) PROVE PageInv'
  <2>1. poll[p] \in PollRecord
    BY DEF PageTypeOK
  <2>2. poll' = [poll EXCEPT ![p] = [poll[p] EXCEPT !.at = "gotRun", !.saw = IF over THEN "over" ELSE "running"]]
    BY <1>4, <2>1 DEF ServeRun, PageTypeOK, PollRecord
  <2>t. PageTypeOK'
    <3>1. poll' \in [Polls -> PollRecord]
      BY <2>1, <2>2 DEF PageTypeOK, PollRecord, Places, ListSamples
    <3> QED
      BY <1>4, <3>1 DEF ServeRun, PageTypeOK
  <2>h. HasUpTo(sinceId)'
    BY <1>4 DEF ServeRun, HasUpTo, PageTypeOK
  <2>a. AnswersHaveNoGap'
    BY <1>4 DEF ServeRun, AnswersHaveNoGap, HasUpTo, PageTypeOK, IdlePoll
  <2>l. LastAnswers'
    BY <1>4 DEF ServeRun, LastAnswers, PageTypeOK, IdlePoll
  <2>s. StopsForAReason'
    BY <1>4 DEF ServeRun, StopsForAReason, Awaited, Complete, LastWord, LastAnswers, PageTypeOK, IdlePoll
  <2> QED
    BY <2>t, <2>h, <2>a, <2>l, <2>s
<1>5. ASSUME NEW p \in Polls, ServeSamples(p) PROVE PageInv'
  <2> DEFINE since == poll[p].since
             page == ListSamples(since)
  <2>1. poll[p] \in PollRecord /\ since \in Nat
    BY DEF PageTypeOK, PollRecord
  <2>2. poll' = [poll EXCEPT ![p] = [poll[p] EXCEPT !.at = "gotSamples", !.page = page]]
    BY <1>5, <2>1 DEF ServeSamples, PageTypeOK, PollRecord
  <2>3. /\ page \subseteq {id \in stored : since < id}
        /\ \A id \in stored, m \in page : since < id /\ id <= m => id \in page
        /\ (\A id \in stored : since < id => id \in page) \/ Cardinality(page) = Limit
    BY <2>1, ListSamplesIsAPrefix
  <2> HIDE DEF page
  <2>4. /\ poll'[p].at = "gotSamples" /\ poll'[p].page = page
        /\ poll'[p].since = since /\ poll'[p].saw = poll[p].saw
        /\ \A q \in Polls \ {p} : poll'[q] = poll[q]
    BY <2>1, <2>2 DEF PageTypeOK, PollRecord
  <2>t. PageTypeOK'
    <3>1. page \subseteq Nat
      BY <2>3 DEF PageTypeOK
    <3>2. poll' \in [Polls -> PollRecord]
      BY <2>1, <2>2, <3>1 DEF PageTypeOK, PollRecord, Places
    <3> QED
      BY <1>5, <3>2 DEF ServeSamples, PageTypeOK
  <2>h. HasUpTo(sinceId)'
    BY <1>5 DEF ServeSamples, HasUpTo, PageTypeOK
  <2>a. AnswersHaveNoGap'
    <3>1. since <= lastId /\ HasUpTo(since)
      BY <1>5 DEF ServeSamples, AnswersHaveNoGap
    <3> QED
      BY <1>5, <2>3, <2>4, <3>1 DEF ServeSamples, AnswersHaveNoGap, HasUpTo
  <2>l. LastAnswers'
    BY <1>5, <2>3, <2>4 DEF ServeSamples, LastAnswers
  <2>s. StopsForAReason'
    BY <1>5 DEF ServeSamples, StopsForAReason, Awaited, Complete, LastWord, LastAnswers, PageTypeOK, IdlePoll
  <2> QED
    BY <2>t, <2>h, <2>a, <2>l, <2>s
<1>6. ASSUME NEW p \in Polls, Poll(p) PROVE PageInv'
  <2>t. PageTypeOK'
    BY <1>6 DEF Poll, PageTypeOK, Places, PollRecord, IdlePoll, To, Free
  <2>h. HasUpTo(sinceId)'
    BY <1>6 DEF Poll, HasUpTo, PageTypeOK
  <2>a. AnswersHaveNoGap'
    BY <1>6 DEF Poll, AnswersHaveNoGap, HasUpTo, PageTypeOK, IdlePoll, To, Free
  <2>l. LastAnswers'
    BY <1>6 DEF Poll, LastAnswers, PageTypeOK, IdlePoll, To, Free
  <2>s. StopsForAReason'
    BY <1>6 DEF Poll, StopsForAReason, Awaited, Complete, LastWord, LastAnswers, PageTypeOK, IdlePoll, To, Free
  <2> QED
    BY <2>t, <2>h, <2>a, <2>l, <2>s
<1>7. ASSUME NEW p \in Polls, GotRun(p) PROVE PageInv'
  <2>1. poll[p] \in PollRecord
    BY DEF PageTypeOK
  <2>2. poll' = [poll EXCEPT ![p] = [poll[p] EXCEPT !.at = "samples", !.since = sinceId]]
    BY <1>7, <2>1 DEF GotRun, PageTypeOK, PollRecord
  <2>t. PageTypeOK'
    <3>1. sinceId \in Nat
      BY DEF PageTypeOK
    <3>2. poll' \in [Polls -> PollRecord]
      BY <2>1, <2>2, <3>1 DEF PageTypeOK, PollRecord, Places
    <3> QED
      BY <1>7, <3>2 DEF GotRun, PageTypeOK
  <2>h. HasUpTo(sinceId)'
    BY <1>7 DEF GotRun, HasUpTo, PageTypeOK
  <2>a. AnswersHaveNoGap'
    BY <1>7 DEF GotRun, AnswersHaveNoGap, HasUpTo, PageTypeOK, IdlePoll
  <2>l. LastAnswers'
    BY <1>7 DEF GotRun, LastAnswers, PageTypeOK, IdlePoll
  <2>s. StopsForAReason'
    BY <1>7 DEF GotRun, StopsForAReason, Awaited, Complete, LastWord, LastAnswers, PageTypeOK, IdlePoll
  <2> QED
    BY <2>t, <2>h, <2>a, <2>l, <2>s
<1>8. ASSUME NEW p \in Polls, GotSamples(p) PROVE PageInv'
  <2>1. /\ poll[p].page \subseteq stored /\ poll[p].since \in 0..lastId
        /\ HasUpTo(poll[p].since) /\ lastId \in Nat
    BY <1>8 DEF GotSamples, AnswersHaveNoGap, PageTypeOK, PollRecord
  <2>2. sinceId' \in 0..lastId /\ HasUpTo(sinceId)'
    <3>1. CASE poll[p].page = {}
      BY <1>8, <2>1, <3>1 DEF GotSamples, NextSinceId, HasUpTo
    <3>2. CASE poll[p].page # {}
      <4> DEFINE page == poll[p].page
      <4>0. stored \subseteq 0..lastId
        BY DEF PageTypeOK
      <4>1. page \subseteq 0..lastId
        BY <2>1, <4>0
      <4>2. Max(page) \in page
        <5>1. page # {}
          BY <3>2
        <5> HIDE DEF page
        <5> QED
          BY <2>1, <4>1, <5>1, GreatestId
      <4>3. sinceId' = Max(page) /\ shown' = shown \cup page
        BY <1>8, <3>2 DEF GotSamples, NextSinceId
      <4>4. ASSUME NEW id \in stored, id <= Max(page) PROVE id \in shown'
        <5>1. id \in Nat /\ Max(page) \in Nat /\ poll[p].since \in Nat
          BY <2>1, <4>1, <4>2 DEF PageTypeOK
        <5>2. CASE id <= poll[p].since
          BY <2>1, <4>3, <5>2 DEF HasUpTo
        <5>3. CASE poll[p].since < id
          BY <1>8, <4>2, <4>3, <4>4, <5>3 DEF GotSamples, AnswersHaveNoGap
        <5> QED
          BY <5>1, <5>2, <5>3
      <4> QED
        BY <1>8, <2>1, <4>1, <4>2, <4>3, <4>4 DEF GotSamples, HasUpTo
    <3> QED
      BY <3>1, <3>2
  <2>t. PageTypeOK'
    <3>1. poll' \in [Polls -> PollRecord]
      BY <1>8 DEF GotSamples, To, PageTypeOK, PollRecord, Places
    <3> QED
      BY <1>8, <2>1, <2>2, <3>1 DEF GotSamples, PageTypeOK
  <2>h. HasUpTo(sinceId)'
    BY <2>2
  <2>a. AnswersHaveNoGap'
    BY <1>8 DEF GotSamples, AnswersHaveNoGap, HasUpTo, PageTypeOK, IdlePoll, To
  <2>l. LastAnswers'
    BY <1>8 DEF GotSamples, LastAnswers, PageTypeOK, IdlePoll, To
  <2>3. poll'[p].at = "comparison" /\ \A q \in Polls \ {p} : poll'[q] = poll[q]
    BY <1>8 DEF GotSamples, To, PageTypeOK, PollRecord
  <2>4. Awaited => Awaited'
    <3>1. CASE Complete \/ failed
      BY <1>8, <3>1 DEF GotSamples, Awaited, Complete
    <3>2. CASE LastWord(p)
      <4>1. over /\ \A id \in stored : id <= poll[p].since => id \in shown
        BY <2>1, <3>2 DEF LastWord, LastAnswers, HasUpTo
      <4>2. CASE \A id \in stored \ late : poll[p].since < id => id \in poll[p].page
        <5>1. \A id \in stored : id <= poll[p].since \/ poll[p].since < id
          <6>1. stored \subseteq Nat /\ poll[p].since \in Nat
            BY <2>1 DEF PageTypeOK
          <6>2. ASSUME NEW id \in stored PROVE id \in Nat
            BY <6>1
          <6>3. \A i, j \in Nat : i <= j \/ j < i
            OBVIOUS
          <6> QED
            BY <6>1, <6>2, <6>3
        <5>2. stored \ late \subseteq shown'
          BY <1>8, <4>1, <4>2, <5>1 DEF GotSamples
        <5> QED
          BY <1>8, <4>1, <5>2 DEF GotSamples, Awaited, Complete
      <4>3. CASE Cardinality(poll[p].page) = Limit
        BY <1>8, <4>1, <4>3 DEF GotSamples, Awaited, Complete
      <4> QED
        BY <1>8, <3>2, <4>2, <4>3 DEF GotSamples, LastWord, LastAnswers
    <3>3. CASE \E q \in Polls \ {p} : LastWord(q)
      BY <2>3, <3>3 DEF Awaited, LastWord
    <3> QED
      BY <3>1, <3>2, <3>3 DEF Awaited
  <2>s. StopsForAReason'
    BY <1>8, <2>4 DEF GotSamples, StopsForAReason
  <2> QED
    BY <2>t, <2>h, <2>a, <2>l, <2>s
<1>9. ASSUME NEW p \in Polls, GotComparison(p) PROVE PageInv'
  <2>t. PageTypeOK'
    BY <1>9 DEF GotComparison, PageTypeOK, Places, PollRecord, IdlePoll, Settle
  <2>h. HasUpTo(sinceId)'
    BY <1>9 DEF GotComparison, HasUpTo, PageTypeOK
  <2>a. AnswersHaveNoGap'
    BY <1>9 DEF GotComparison, AnswersHaveNoGap, HasUpTo, PageTypeOK, IdlePoll, Settle
  <2>l. LastAnswers'
    BY <1>9 DEF GotComparison, LastAnswers, PageTypeOK, IdlePoll, Settle
  <2>s. StopsForAReason'
    BY <1>9 DEF GotComparison, StopsForAReason, Awaited, Complete, LastWord, LastAnswers, PageTypeOK, IdlePoll, Settle
  <2> QED
    BY <2>t, <2>h, <2>a, <2>l, <2>s
<1>10. ASSUME NEW p \in Polls, PollFails(p) PROVE PageInv'
  <2>t. PageTypeOK'
    BY <1>10 DEF PollFails, PageTypeOK, Places, PollRecord, IdlePoll, Settle, Free
  <2>h. HasUpTo(sinceId)'
    BY <1>10 DEF PollFails, HasUpTo, PageTypeOK
  <2>a. AnswersHaveNoGap'
    BY <1>10 DEF PollFails, AnswersHaveNoGap, HasUpTo, PageTypeOK, IdlePoll, Settle, Free
  <2>l. LastAnswers'
    BY <1>10 DEF PollFails, LastAnswers, PageTypeOK, IdlePoll, Settle, Free
  <2>s. StopsForAReason'
    BY <1>10 DEF PollFails, StopsForAReason, Awaited, Complete, LastWord, LastAnswers, PageTypeOK, IdlePoll, Settle, Free
  <2> QED
    BY <2>t, <2>h, <2>a, <2>l, <2>s
<1>11. ASSUME UNCHANGED pageVars PROVE PageInv'
  BY <1>11 DEF pageVars, PageTypeOK, HasUpTo, AnswersHaveNoGap, LastAnswers, StopsForAReason, Awaited,
              Complete, LastWord
<1> QED
  BY <1>1, <1>2, <1>3, <1>4, <1>5, <1>6, <1>7, <1>8, <1>9, <1>10, <1>11 DEF PageNext

\* Whatever order overlapping polls are answered in, for any number of them and any size of an
\* answer: the page has all samples up to the id it asks from, and stops by itself only with all that
\* were stored by the end of the run, or after an answer as long as one may be (views.py:370-378,
\* RunDetailView.vue:187-194).
THEOREM PageHasEverySample == PageSpec => []PageSkipsNothing
<1>1. PageInit => PageInv
  <2> SUFFICES ASSUME PageInit PROVE PageInv
    OBVIOUS
  <2>1. mounting \subseteq Polls /\ mounting # {}
    BY RunPageAssumption DEF PageInit
  <2>2. poll \in [Polls -> PollRecord] /\ \A p \in Polls : poll[p].saw = "none" /\ poll[p].at \in {"idle", "run"}
    BY DEF PageInit, IdlePoll, PollRecord, Places
  <2>3. PageTypeOK
    <3>1. stored \subseteq 1..lastId /\ shown \subseteq stored /\ late \subseteq stored /\ lastId \in Nat /\ sinceId \in 0..lastId
      BY DEF PageInit
    <3>2. {over, timer, left, failed, full} \subseteq BOOLEAN
      BY DEF PageInit
    <3> QED
      BY <2>1, <2>2, <3>1, <3>2 DEF PageTypeOK
  <2>4. HasUpTo(sinceId) /\ AnswersHaveNoGap /\ LastAnswers /\ StopsForAReason
    BY <2>1, <2>2 DEF PageInit, HasUpTo, AnswersHaveNoGap, LastAnswers, StopsForAReason
  <2> QED
    BY <2>3, <2>4 DEF PageInv
<1>2. PageInv => PageSkipsNothing
  BY DEF PageInv, PageSkipsNothing, HasUpTo, StopsForAReason, Awaited, Complete, LastWord, Quiet, Free
<1> QED
  BY <1>1, <1>2, PageInvKept, PTL DEF PageSpec

-------------------------------------------------------------------------------
(* A live screen client *)

Current(q) == q.gen = gen /\ desired # None

\* There is one question whose answer may open a socket, and while it waits nothing else may.
OneQuestion ==
  /\ \A q \in asking : q.gen <= gen
  /\ \A q, r \in asking : q.gen = r.gen => q = r
  /\ \A q \in asking : Current(q) => socket = None /\ reTimer # "armed" /\ ~firstTimer

\* What the timers mean.
Timers ==
  /\ reTimer = "armed" => socket = None /\ desired # None
  /\ firstTimer => socket # None /\ socket.mode = "h264"
  /\ desired = None => socket = None

\* How many NALs of the script have been assembled.
Assembled == IF buffer = None THEN written ELSE written - 1

\* The parameter sets that wait once n NALs have been assembled, and the units, which are all good.
WholeUpTo(n) ==
  /\ params = IF n = 1 THEN <<[nal |-> "SPS", whole |-> TRUE]>>
              ELSE IF n = 2 THEN <<[nal |-> "SPS", whole |-> TRUE], [nal |-> "PPS", whole |-> TRUE]>>
              ELSE <<>>
  /\ \A i \in DOMAIN units : units[i].good
  /\ n <= 2 => units = <<>>
  /\ n > 2 /\ ~gotFrame => units # <<>> /\ units[1].key

\* With no fault, the stream is whole wherever it is, and its first picture reaches the browser.
WholeStream ==
  /\ ~cut
  /\ buffer # None => written > 0 /\ buffer = [nal |-> Script[written], whole |-> TRUE]
  /\ WholeUpTo(Assembled)

Undisturbed ==
  faults = 0 =>
    /\ socket # None => socket.open
    /\ Streaming => WholeStream

ClientInv ==
  ScreenTypeOK /\ OneSocket /\ OneQuestion /\ Timers /\ Undisturbed /\ StillScreenStreams

\* An element appended to one other.
LEMMA TwoElements ==
  ASSUME NEW S, NEW a \in S, NEW b \in S
  PROVE  Append(<<a>>, b) = <<a, b>>
<1>1. <<a>> \in Seq(S) /\ <<a, b>> \in Seq(S) /\ Append(<<a>>, b) \in Seq(S)
  OBVIOUS
<1>2. Len(<<a, b>>) = 2 /\ Len(Append(<<a>>, b)) = 2
  OBVIOUS
<1>3. \A i \in 1..2 : <<a, b>>[i] = Append(<<a>>, b)[i]
  OBVIOUS
<1> QED
  BY <1>1, <1>2, <1>3, SeqEqual

\* Assembling a NAL keeps the shapes.
LEMMA AssembleShapes ==
  ASSUME ScreenTypeOK, buffer # None, Assemble(buffer)
  PROVE  params' \in Seq(Nals) /\ units' \in Seq(Units)
<1>1. buffer \in Nals /\ params \in Seq(Nals) /\ units \in Seq(Units)
  BY DEF ScreenTypeOK, StreamTypeOK
<1>2. CASE buffer.nal \in {"SPS", "PPS"}
  <2>1. params' = Append(params, buffer) /\ units' = units
    BY <1>2 DEF Assemble
  <2> QED
    BY <1>1, <2>1
<1>3. CASE buffer.nal = "IDR"
  <2>1. PICK u \in Units : units' = Append(units, u) /\ params' = <<>>
    BY <1>1, <1>3 DEF Assemble, Units, Nals
  <2> QED
    BY <1>1, <2>1
<1>4. CASE buffer.nal = "P"
  <2>1. PICK u \in Units : units' = Append(units, u) /\ params' = params
    BY <1>1, <1>4 DEF Assemble, Units, Nals
  <2> QED
    BY <1>1, <2>1
<1> QED
  BY <1>1, <1>2, <1>3, <1>4 DEF Nals

\* Assembling the last NAL written keeps a whole stream whole.
LEMMA AssembleWhole ==
  ASSUME ScreenTypeOK, WholeStream, buffer # None, Assemble(buffer), gotFrame' = gotFrame,
         NEW n, n = written
  PROVE  WholeUpTo(n)'
<1> DEFINE sps == [nal |-> "SPS", whole |-> TRUE]
           pps == [nal |-> "PPS", whole |-> TRUE]
<1>1. n \in 1..4 /\ buffer = [nal |-> Script[n], whole |-> TRUE] /\ Assembled = n - 1
  BY DEF ScreenTypeOK, StreamTypeOK, WholeStream, Assembled, Script
<1>2. WholeUpTo(n - 1)
  BY <1>1 DEF WholeStream
<1>3. params \in Seq(Nals) /\ units \in Seq(Units)
  BY DEF ScreenTypeOK, StreamTypeOK
<1>4. CASE n = 1
  <2>1. buffer = sps /\ params = <<>> /\ units = <<>>
    BY <1>1, <1>2, <1>4 DEF WholeUpTo, Script
  <2>2. params' = Append(params, buffer) /\ units' = units
    BY <2>1 DEF Assemble
  <2> QED
    BY <1>4, <2>1, <2>2 DEF WholeUpTo
<1>5. CASE n = 2
  <2>1. buffer = pps /\ params = <<sps>> /\ units = <<>>
    BY <1>1, <1>2, <1>5 DEF WholeUpTo, Script
  <2>2. params' = Append(params, buffer) /\ units' = units
    BY <2>1 DEF Assemble
  <2>3. params' = <<sps, pps>>
    <3>1. sps \in Nals /\ pps \in Nals
      BY DEF Nals
    <3> HIDE DEF sps, pps
    <3> QED
      BY <2>1, <2>2, <3>1, TwoElements
  <2>4. units' = <<>>
    BY <2>1, <2>2
  <2> QED
    BY <1>5, <2>3, <2>4 DEF WholeUpTo
<1>6. CASE n = 3
  <2>1. buffer.nal = "IDR" /\ buffer.whole /\ params = <<sps, pps>> /\ units = <<>>
    BY <1>1, <1>2, <1>6 DEF WholeUpTo, Script
  <2>2. params[1] = sps /\ params[2] = pps /\ {1, 2} \subseteq DOMAIN params
    BY <2>1
  <2>3. \A p \in {"SPS", "PPS"} : \E i \in DOMAIN params : params[i] = [nal |-> p, whole |-> TRUE]
    BY <2>2
  <2>4. params' = <<>> /\ units' = Append(units, [key |-> TRUE, good |-> TRUE])
    BY <2>1, <2>3 DEF Assemble
  <2>5. units' = <<[key |-> TRUE, good |-> TRUE]>>
    BY <2>1, <2>4
  <2>6. units' # <<>> /\ units'[1].key /\ \A i \in DOMAIN units' : units'[i].good
    BY <2>5
  <2> QED
    BY <1>6, <2>4, <2>6 DEF WholeUpTo
<1>7. CASE n = 4
  <2>1. buffer.nal = "P" /\ buffer.whole /\ params = <<>> /\ \A i \in DOMAIN units : units[i].good
    BY <1>1, <1>2, <1>7 DEF WholeUpTo, Script
  <2>2. units' = Append(units, [key |-> FALSE, good |-> TRUE]) /\ params' = params
    BY <2>1 DEF Assemble
  <2>3. /\ Len(units') = Len(units) + 1 /\ units' # <<>> /\ DOMAIN units' = 1..Len(units) + 1
        /\ \A i \in 1..Len(units) : units'[i] = units[i]
        /\ units'[Len(units) + 1] = [key |-> FALSE, good |-> TRUE]
    BY <1>3, <2>2 DEF Units
  <2>4. \A i \in DOMAIN units' : units'[i].good
    BY <1>3, <2>1, <2>3
  <2>5. ~gotFrame => units'[1].key
    <3>1. ~gotFrame => units # <<>> /\ units[1].key
      BY <1>2, <1>7 DEF WholeUpTo
    <3>2. units # <<>> => units'[1] = units[1]
      BY <1>3, <2>3
    <3> QED
      BY <3>1, <3>2
  <2> QED
    BY <1>7, <2>1, <2>2, <2>3, <2>4, <2>5 DEF WholeUpTo
<1> QED
  BY <1>1, <1>4, <1>5, <1>6, <1>7

\* A new stream, and one left alone, have their shapes.
LEMMA StreamShapes ==
  ASSUME StreamTypeOK, NewStream \/ UNCHANGED streamVars
  PROVE  StreamTypeOK'
<1>1. CASE NewStream
  <2>1. written' = 0 /\ cut' = FALSE /\ buffer' = None /\ params' = <<>> /\ units' = <<>>
    BY <1>1 DEF NewStream
  <2>2. written' \in 0 .. Len(Script)
    BY <2>1 DEF Script
  <2>3. <<>> \in Seq(Nals) /\ <<>> \in Seq(Units)
    OBVIOUS
  <2>4. cut' \in BOOLEAN /\ buffer' \in {None} \cup Nals /\ params' \in Seq(Nals) /\ units' \in Seq(Units)
    BY <2>1, <2>3
  <2> QED
    BY <2>2, <2>4 DEF StreamTypeOK
<1>2. CASE UNCHANGED streamVars
  BY <1>2 DEF streamVars, StreamTypeOK
<1> QED
  BY <1>1, <1>2

\* The old socket has made place for screenshots.
ToScreenshots ==
  /\ socket' = [mode |-> "screenshot", open |-> TRUE]
  /\ firstTimer' = FALSE /\ reTimer' \in {"null", "cleared", "fired"}
  /\ view' = "fallback" /\ configured' = FALSE /\ NewStream /\ UNCHANGED <<gotFrame, leaked>>

\* There was none to make place for a stream.
ToStream ==
  /\ StartH264 /\ reTimer' \in {"null", "cleared", "fired"}
  /\ socket = None \/ ~socket.open

\* The connection that a question led to, or that takes the place of one, is allowed.
Allowed ==
  /\ gen' = gen /\ asking' \subseteq asking /\ \A q \in asking' : q.gen # gen
  /\ desired' \in Wishes /\ faults' \in 0 .. MaxFaults

\* Giving up a stream for screenshots leaves no socket of it.
LEMMA FallbackStops == BrowserTypeOK /\ StartFallback => ToScreenshots
  BY DEF BrowserTypeOK, StartFallback, StopTimers, ToScreenshots

\* While there is a socket, or a reconnection is due, no question waits whose answer would open one.
LEMMA NobodyAsks ==
  ASSUME OneQuestion, desired # None, socket # None \/ reTimer = "armed" \/ firstTimer
  PROVE  \A q \in asking : q.gen # gen
  BY DEF OneQuestion, Current

\* Screenshots are shown for a reason.
LEMMA ScreenshotsKeep ==
  ASSUME ClientInv, UNCHANGED webCodecs, ToScreenshots, Allowed,
         faults' > 0 \/ desired'.screenshot \/ ~webCodecs
  PROVE  ClientInv'
<1> USE ClientAssumption DEF ClientInv, ScreenTypeOK, ToScreenshots, Allowed
<1>0. socket' \in Sockets
  BY DEF Sockets
<1>1. socket' \in Sockets /\ socket' # None /\ desired' # None
  BY <1>0
<1>2. StreamTypeOK'
  BY StreamShapes
<1>3. BrowserTypeOK'
  BY <1>1 DEF BrowserTypeOK
<1>4. OneSocket' /\ StillScreenStreams'
  BY DEF OneSocket, StillScreenStreams
<1>5. OneQuestion' /\ Timers'
  BY <1>1 DEF OneQuestion, Current, Timers
<1>6. Undisturbed'
  BY DEF Undisturbed, Streaming
<1> QED
  BY <1>2, <1>3, <1>4, <1>5, <1>6

\* A stream begins whole.
LEMMA StreamKeeps ==
  ASSUME ClientInv, UNCHANGED webCodecs, ToStream, Allowed
  PROVE  ClientInv'
<1> USE ClientAssumption DEF ClientInv, ScreenTypeOK, ToStream, StartH264, Allowed
<1>0. socket' \in Sockets
  BY DEF Sockets
<1>1. socket' \in Sockets /\ socket' # None /\ desired' # None
  BY <1>0
<1>2. StreamTypeOK'
  BY StreamShapes
<1>3. BrowserTypeOK'
  BY <1>1 DEF BrowserTypeOK, OneSocket
<1>4. OneSocket' /\ StillScreenStreams'
  BY DEF OneSocket, StillScreenStreams
<1>5. OneQuestion' /\ Timers'
  BY <1>1 DEF OneQuestion, Current, Timers
<1>6. WholeStream'
  BY DEF NewStream, WholeStream, WholeUpTo, Assembled
<1>7. Undisturbed'
  BY <1>6 DEF Undisturbed
<1> QED
  BY <1>2, <1>3, <1>4, <1>5, <1>7

\* What happens in the stream alone keeps the rest.
LEMMA StreamAlone ==
  ASSUME ClientInv, UNCHANGED webCodecs, Streaming, StreamTypeOK',
         faults' \in 0 .. MaxFaults, faults' >= faults,
         UNCHANGED <<desired, gen, asking, socket, leaked, reTimer>>,
         configured' \in BOOLEAN, gotFrame' \in BOOLEAN, firstTimer' \in {firstTimer, FALSE},
         view' \in {view, "streaming"},
         faults' = 0 => WholeStream'
  PROVE  ClientInv'
<1> USE DEF ClientInv, ScreenTypeOK
<1>1. BrowserTypeOK'
  BY DEF BrowserTypeOK
<1>2. OneSocket' /\ StillScreenStreams'
  BY DEF OneSocket, Streaming, StillScreenStreams
<1>3. OneQuestion'
  BY DEF OneQuestion, Current, Streaming
<1>4. Timers'
  <2>1. firstTimer' => firstTimer
    BY DEF BrowserTypeOK
  <2> QED
    BY <2>1 DEF Timers
<1>5. Undisturbed'
  BY DEF Undisturbed, BrowserTypeOK
<1> QED
  BY <1>1, <1>2, <1>3, <1>4, <1>5

\* Closing everything, and the start of a question.
LEMMA ConnectKeeps ==
  ASSUME ClientInv, UNCHANGED webCodecs, NEW s \in Phones \cup TVs, Connect(s)
  PROVE  ClientInv'
<1> USE ClientAssumption DEF ClientInv, ScreenTypeOK, Connect, StopEverything
<1>1. StreamTypeOK'
  BY StreamShapes
<1>t. firstTimer' = FALSE /\ reTimer' \in {"null", "armed", "cleared", "fired"}
  BY DEF BrowserTypeOK, StopTimers
<1>d. desired' \in Wishes /\ asking' \subseteq [gen : 1 .. MaxCalls, serial : Phones \cup TVs] /\ gen' \in 0 .. MaxCalls
  BY DEF BrowserTypeOK, Wishes
<1>2. BrowserTypeOK'
  BY <1>t, <1>d DEF BrowserTypeOK
<1>3. OneSocket' /\ StillScreenStreams'
  BY DEF OneSocket, StillScreenStreams
<1>4. OneQuestion'
  <2>1. \A q \in asking : q.gen \in Nat /\ q.gen <= gen /\ gen \in Nat
    BY DEF OneQuestion, BrowserTypeOK
  <2>2. reTimer' # "armed" /\ ~firstTimer'
    BY DEF StopTimers
  <2> QED
    BY <2>1, <2>2 DEF OneQuestion, Current
<1>5. Timers' /\ Undisturbed'
  BY DEF Timers, StopTimers, Undisturbed, Streaming
<1> QED
  BY <1>1, <1>2, <1>3, <1>4, <1>5

\* The page lets go of the screen.
LEMMA DisconnectKeeps == ClientInv /\ UNCHANGED webCodecs /\ Disconnect => ClientInv'
<1> SUFFICES ASSUME ClientInv, UNCHANGED webCodecs, Disconnect PROVE ClientInv'
  OBVIOUS
<1> USE ClientAssumption DEF ClientInv, ScreenTypeOK, Disconnect, StopEverything
<1>1. StreamTypeOK'
  BY StreamShapes
<1>t. firstTimer' = FALSE /\ reTimer' \in {"null", "armed", "cleared", "fired"}
  BY DEF BrowserTypeOK, StopTimers
<1>d. gen' \in 0 .. MaxCalls
  BY DEF BrowserTypeOK
<1>2. BrowserTypeOK'
  BY <1>t, <1>d DEF BrowserTypeOK
<1>3. OneSocket' /\ StillScreenStreams'
  BY DEF OneSocket, StillScreenStreams
<1>4. OneQuestion'
  <2>1. \A q \in asking : q.gen \in Nat /\ q.gen <= gen /\ gen \in Nat
    BY DEF OneQuestion, BrowserTypeOK
  <2> QED
    BY <2>1 DEF OneQuestion, Current
<1>5. Timers' /\ Undisturbed'
  BY DEF Timers, StopTimers, Undisturbed, Streaming
<1> QED
  BY <1>1, <1>2, <1>3, <1>4, <1>5

\* A question is answered: it is stale, or the only one whose answer counts.
LEMMA AnsweredKeeps ==
  ASSUME ClientInv, UNCHANGED webCodecs, NEW q \in asking, NEW tv \in BOOLEAN, Answered(q, tv)
  PROVE  ClientInv'
<1> USE ClientAssumption DEF ClientInv, ScreenTypeOK, Answered
<1>1. CASE Stale(q)
  <2> USE <1>1
  <2>1. StreamTypeOK'
    BY StreamShapes
  <2>2. BrowserTypeOK'
    BY DEF BrowserTypeOK
  <2>3. OneSocket' /\ StillScreenStreams' /\ OneQuestion' /\ Timers'
    BY DEF OneSocket, StillScreenStreams, OneQuestion, Current, Timers
  <2>4. Undisturbed'
    BY DEF Undisturbed, Streaming, WholeStream, WholeUpTo, Assembled, streamVars
  <2> QED
    BY <2>1, <2>2, <2>3, <2>4
<1>2. CASE ~Stale(q)
  <2>1. Current(q) /\ desired \in Wishes
    BY <1>2 DEF Stale, Current, BrowserTypeOK
  <2>2. socket = None /\ reTimer \in {"null", "cleared", "fired"}
    BY <2>1 DEF OneQuestion, BrowserTypeOK
  <2>3. desired' \in Wishes /\ desired'.screenshot = tv
    BY <1>2, <2>1 DEF Wishes
  <2>4. Allowed
    BY <2>1, <2>3 DEF Allowed, Current, OneQuestion
  <2>5. CASE tv \/ ~webCodecs
    BY <1>2, <2>3, <2>4, <2>5, FallbackStops, ScreenshotsKeep
  <2>6. CASE ~tv /\ webCodecs
    BY <1>2, <2>2, <2>4, <2>6, StreamKeeps DEF ToStream
  <2> QED
    BY <2>5, <2>6
<1> QED
  BY <1>1, <1>2

\* A reconnect that is due, or was cleared.
LEMMA ReconnectKeeps == ClientInv /\ UNCHANGED webCodecs /\ Reconnect => ClientInv'
<1> SUFFICES ASSUME ClientInv, UNCHANGED webCodecs, Reconnect PROVE ClientInv'
  OBVIOUS
<1> USE DEF ClientInv, ScreenTypeOK, Reconnect, AfterFiring
<1>1. socket = None /\ desired # None
  BY DEF Timers
<1>2. Allowed
  BY <1>1, NobodyAsks DEF Allowed, BrowserTypeOK
<1>3. CASE desired.screenshot
  BY <1>2, <1>3, ScreenshotsKeep DEF ToScreenshots
<1>4. CASE ~desired.screenshot /\ webCodecs
  BY <1>1, <1>2, <1>4, StreamKeeps DEF ToStream
<1>5. CASE ~desired.screenshot /\ ~webCodecs
  <2>1. NoDecoder /\ reTimer' = "null" /\ UNCHANGED <<desired, gen, asking, faults>>
    BY <1>5
  <2>2. BrowserTypeOK' /\ StreamTypeOK'
    BY <2>1 DEF BrowserTypeOK, StreamTypeOK, NoDecoder, streamVars
  <2>3. OneSocket' /\ OneQuestion' /\ Timers' /\ StillScreenStreams' /\ Undisturbed'
    BY <1>1, <2>1 DEF OneSocket, OneQuestion, Current, Timers, StillScreenStreams, Undisturbed,
         Streaming, NoDecoder, streamVars
  <2> QED
    BY <2>1, <2>2, <2>3
<1> QED
  BY <1>3, <1>4, <1>5

\* While nothing was lost, every unit is good; only a fault leads to screenshots.
LEMMA ReceiveKeeps == ClientInv /\ UNCHANGED webCodecs /\ Receive => ClientInv'
<1> SUFFICES ASSUME ClientInv, UNCHANGED webCodecs, Receive PROVE ClientInv'
  OBVIOUS
<1> DEFINE u == Head(units)
<1> USE DEF ClientInv, ScreenTypeOK
<1>1. /\ units \in Seq(Units) /\ units # <<>> /\ u = units[1] /\ u \in Units /\ Tail(units) \in Seq(Units)
      /\ \A i \in DOMAIN Tail(units) : i + 1 \in DOMAIN units /\ Tail(units)[i] = units[i + 1]
  BY DEF Receive, StreamTypeOK
<1>2. Streaming /\ desired # None /\ UNCHANGED <<desired, gen, asking, faults>>
  BY DEF Receive, Streaming, Timers
<1>3. faults = 0 => WholeStream /\ u.good /\ (~gotFrame => u.key)
  <2> SUFFICES ASSUME faults = 0 PROVE WholeStream /\ u.good /\ (~gotFrame => u.key)
    OBVIOUS
  <2>1. WholeStream /\ WholeUpTo(Assembled)
    BY <1>2 DEF Undisturbed, WholeStream
  <2>2. u.good
    <3>1. 1 \in DOMAIN units
      BY <1>1
    <3> QED
      BY <1>1, <2>1, <3>1 DEF WholeUpTo
  <2>3. Assembled > 2
    BY <1>1, <2>1 DEF WholeUpTo, Assembled, StreamTypeOK, Script
  <2> QED
    BY <1>1, <2>1, <2>2, <2>3 DEF WholeUpTo
<1>4. CASE (~configured /\ ~u.key) \/ u.good
  <2> HIDE DEF u
  <2>1. /\ units' = Tail(units) /\ UNCHANGED <<socket, leaked, reTimer, written, cut, buffer, params>>
        /\ \/ UNCHANGED <<configured, gotFrame, firstTimer, view>> /\ ~u.key
           \/ configured' = TRUE /\ gotFrame' = TRUE /\ firstTimer' = FALSE /\ view' = "streaming"
    BY <1>4 DEF Receive, u
  <2>2. StreamTypeOK'
    BY <1>1, <2>1 DEF StreamTypeOK
  <2>3. faults' = 0 => WholeStream'
    <3> SUFFICES ASSUME faults = 0 PROVE WholeStream'
      BY <1>2
    <3>1. gotFrame'
      BY <1>3, <2>1 DEF BrowserTypeOK
    <3>2. \A i \in DOMAIN units' : units'[i].good
      BY <1>1, <1>3, <2>1 DEF WholeStream, WholeUpTo
    <3>3. Assembled' = Assembled /\ Assembled > 2
      BY <1>1, <1>3, <2>1 DEF Assembled, WholeStream, WholeUpTo, StreamTypeOK, Script
    <3> QED
      BY <1>3, <2>1, <3>1, <3>2, <3>3 DEF WholeStream, WholeUpTo
  <2>4. /\ configured' \in BOOLEAN /\ gotFrame' \in BOOLEAN /\ firstTimer' \in {firstTimer, FALSE}
        /\ view' \in {view, "streaming"} /\ faults' \in 0 .. MaxFaults /\ faults' >= faults
    <3>1. faults' \in 0 .. MaxFaults /\ faults' >= faults
      BY <1>2, ClientAssumption
    <3> QED
      BY <2>1, <3>1 DEF BrowserTypeOK
  <2> QED
    BY <1>2, <2>1, <2>2, <2>3, <2>4, StreamAlone
<1>5. CASE ~((~configured /\ ~u.key) \/ u.good)
  <2>1. StartFallback
    BY <1>5 DEF Receive
  <2>2. Allowed
    BY <1>2, NobodyAsks DEF Allowed, BrowserTypeOK, Streaming
  <2>3. faults > 0
    BY <1>3, <1>5
  <2> QED
    BY <1>2, <2>1, <2>2, <2>3, FallbackStops, ScreenshotsKeep
<1> QED
  BY <1>4, <1>5

\* The first frame is late only when something was lost, or the encoder was late.
LEMMA NoFirstFrameKeeps == ClientInv /\ UNCHANGED webCodecs /\ NoFirstFrame => ClientInv'
<1> SUFFICES ASSUME ClientInv, UNCHANGED webCodecs, NoFirstFrame PROVE ClientInv'
  OBVIOUS
<1> USE DEF ClientInv, ScreenTypeOK
<1>1. socket # None /\ socket.mode = "h264" /\ desired # None /\ ~gotFrame /\ firstTimer
  BY DEF NoFirstFrame, Timers
<1>2. faults' > 0 /\ faults' \in 0 .. MaxFaults
  <2>1. CASE ~Exhausted
    BY <2>1, ClientAssumption DEF NoFirstFrame, Fault
  <2>2. CASE Exhausted
    <3>1. faults' = faults
      BY <2>2 DEF NoFirstFrame
    <3>2. ASSUME faults = 0 PROVE FALSE
      <4>1. Streaming /\ WholeStream
        BY <1>1, <3>2 DEF Undisturbed, Streaming
      <4>2. buffer = None /\ units = <<>> /\ written >= 3
        BY <2>2, <4>1 DEF Exhausted, FlushReady
      <4>3. WholeUpTo(written) /\ written > 2
        BY <4>1, <4>2 DEF WholeStream, Assembled, StreamTypeOK
      <4> QED
        BY <1>1, <4>2, <4>3 DEF WholeUpTo
    <3> QED
      BY <3>1, <3>2
  <2> QED
    BY <2>1, <2>2
<1>3. Allowed
  BY <1>1, <1>2, NobodyAsks DEF Allowed, NoFirstFrame, BrowserTypeOK
<1> QED
  BY <1>2, <1>3, FallbackStops, ScreenshotsKeep DEF NoFirstFrame

\* A connection that is lost makes place for screenshots, or is made again later.
LEMMA LossKeeps == ClientInv /\ UNCHANGED webCodecs /\ (Lost \/ LostWithError) => ClientInv'
<1> SUFFICES ASSUME ClientInv, UNCHANGED webCodecs, Lost \/ LostWithError PROVE ClientInv'
  OBVIOUS
<1> USE DEF ClientInv, ScreenTypeOK
<1>1. /\ socket # None /\ socket.open /\ desired # None /\ UNCHANGED <<desired, gen, asking>>
      /\ faults' > 0 /\ faults' \in 0 .. MaxFaults
      /\ StartFallback \/ ScheduleReconnect
  BY ClientAssumption DEF Lost, LostWithError, Streaming, Fault, Timers
<1>2. Allowed
  BY <1>1, NobodyAsks DEF Allowed, BrowserTypeOK
<1>3. CASE StartFallback
  BY <1>1, <1>2, <1>3, FallbackStops, ScreenshotsKeep
<1>4. CASE ScheduleReconnect
  <2>1. socket \in Sockets
    BY <1>1 DEF BrowserTypeOK
  <2>2. CASE reTimer = "null"
    <3>1. /\ socket' = None /\ configured' = FALSE /\ firstTimer' = FALSE /\ NewStream
          /\ reTimer' = "armed" /\ view' = "retrying" /\ UNCHANGED <<gotFrame, leaked>>
      BY <1>1, <1>4, <2>2 DEF ScheduleReconnect
    <3>2. StreamTypeOK'
      BY <3>1, StreamShapes
    <3>3. BrowserTypeOK'
      BY <1>1, <3>1 DEF BrowserTypeOK
    <3>4. OneSocket' /\ StillScreenStreams' /\ OneQuestion' /\ Timers' /\ Undisturbed'
      BY <1>1, <1>2, <3>1 DEF OneSocket, StillScreenStreams, OneQuestion, Current, Timers, Undisturbed, Allowed
    <3> QED
      BY <1>1, <3>2, <3>3, <3>4
  <2>3. CASE reTimer # "null"
    <3>1. /\ socket' = [socket EXCEPT !.open = FALSE]
          /\ UNCHANGED <<configured, firstTimer, reTimer, view, gotFrame, leaked, streamVars>>
      BY <1>1, <1>4, <2>3 DEF ScheduleReconnect
    <3>2. socket' \in Sockets /\ socket'.mode = socket.mode /\ socket' # None
      BY <2>1, <3>1, ClientAssumption DEF Sockets
    <3>3. StreamTypeOK'
      BY <3>1, StreamShapes
    <3>4. BrowserTypeOK'
      BY <1>1, <3>1, <3>2 DEF BrowserTypeOK
    <3>5. OneSocket' /\ StillScreenStreams' /\ OneQuestion' /\ Timers' /\ Undisturbed'
      BY <1>1, <1>2, <3>1, <3>2 DEF OneSocket, StillScreenStreams, OneQuestion, Current, Timers, Undisturbed, Allowed
    <3> QED
      BY <1>1, <3>3, <3>4, <3>5
  <2> QED
    BY <2>2, <2>3
<1> QED
  BY <1>1, <1>3, <1>4

\* What the encoder writes, whole or cut, and the flush.
LEMMA EncoderKeeps ==
  ASSUME ClientInv, UNCHANGED webCodecs, Write(TRUE) \/ Write(FALSE) \/ WriteRest \/ Flush
  PROVE  ClientInv'
<1> USE ClientAssumption DEF ClientInv, ScreenTypeOK
<1>1. ASSUME NEW whole \in BOOLEAN, Write(whole) PROVE ClientInv'
  <2> DEFINE n == written + 1
  <2>1. n \in 1..4 /\ written \in 0..3 /\ Len(Script) = 4 /\ Script[n] \in {"SPS", "PPS", "IDR", "P"}
    BY <1>1 DEF Write, StreamTypeOK, Script
  <2>2. /\ Streaming /\ written' = n /\ cut' = ~whole /\ buffer' = [nal |-> Script[n], whole |-> whole]
        /\ UNCHANGED <<desired, gen, asking, socket, leaked, configured, gotFrame, firstTimer, reTimer, view>>
        /\ IF buffer = None THEN UNCHANGED <<params, units>> ELSE Assemble(buffer)
    BY <1>1 DEF Write
  <2>3. buffer' \in Nals /\ buffer' # None
    BY <2>1, <2>2 DEF Nals
  <2>4. params' \in Seq(Nals) /\ units' \in Seq(Units)
    BY <2>2, AssembleShapes DEF StreamTypeOK
  <2>5. StreamTypeOK'
    BY <2>1, <2>2, <2>3, <2>4 DEF StreamTypeOK
  <2>6. faults' \in 0 .. MaxFaults /\ faults' >= faults /\ (faults' = 0 => whole)
    BY <1>1 DEF Write, Fault
  <2>7. ASSUME faults' = 0 PROVE WholeStream'
    <3>1. faults = 0 /\ whole = TRUE /\ WholeStream
      BY <2>2, <2>6, <2>7 DEF Undisturbed
    <3>2. ASSUME NEW k, k = written PROVE WholeUpTo(k)'
      <4>1. CASE buffer = None
        BY <2>2, <3>1, <3>2, <4>1 DEF WholeStream, Assembled, WholeUpTo
      <4>2. CASE buffer # None
        BY <2>2, <3>1, <3>2, <4>2, AssembleWhole
      <4> QED
        BY <4>1, <4>2
    <3>3. Assembled' = written
      BY <2>1, <2>2, <2>3 DEF Assembled
    <3>4. WholeUpTo(Assembled)'
      BY <3>2, <3>3 DEF WholeUpTo
    <3>5. written' > 0 /\ buffer' = [nal |-> Script[written'], whole |-> TRUE]
      BY <2>1, <2>2, <3>1
    <3>6. ~cut'
      BY <2>2, <3>1, Zenon
    <3> QED
      BY <3>4, <3>5, <3>6 DEF WholeStream
  <2> QED
    BY <2>2, <2>5, <2>6, <2>7, StreamAlone DEF BrowserTypeOK
<1>2. ASSUME WriteRest PROVE ClientInv'
  <2>1. /\ Streaming /\ cut /\ cut' = FALSE /\ buffer' = (IF buffer = None THEN None ELSE [buffer EXCEPT !.whole = TRUE])
        /\ UNCHANGED <<desired, gen, asking, socket, leaked, configured, gotFrame, firstTimer, reTimer, view,
                       written, params, units, faults>>
    BY <1>2 DEF WriteRest
  <2>2. buffer' \in {None} \cup Nals
    BY <2>1 DEF StreamTypeOK, Nals
  <2>4. StreamTypeOK'
    <3>1. written' \in 0 .. Len(Script) /\ cut' \in BOOLEAN /\ params' \in Seq(Nals) /\ units' \in Seq(Units)
      BY <2>1 DEF StreamTypeOK
    <3> QED
      BY <2>2, <3>1 DEF StreamTypeOK
  <2>3. faults' # 0
    BY <2>1 DEF Undisturbed, WholeStream
  <2> QED
    BY <2>1, <2>3, <2>4, StreamAlone DEF BrowserTypeOK
<1>3. ASSUME Flush PROVE ClientInv'
  <2>1. /\ Streaming /\ buffer # None /\ Assemble(buffer) /\ buffer' = None
        /\ UNCHANGED <<desired, gen, asking, socket, leaked, configured, gotFrame, firstTimer, reTimer, view,
                       written, cut, faults>>
    BY <1>3 DEF Flush, FlushReady
  <2>2. StreamTypeOK'
    BY <2>1, AssembleShapes DEF StreamTypeOK
  <2>3. ASSUME faults' = 0 PROVE WholeStream'
    <3>1. WholeStream
      BY <2>1, <2>3 DEF Undisturbed
    <3>2. ASSUME NEW k, k = written PROVE WholeUpTo(k)'
      BY <2>1, <3>1, <3>2, AssembleWhole
    <3> QED
      BY <2>1, <3>1, <3>2 DEF WholeStream, Assembled
  <2> QED
    BY <2>1, <2>2, <2>3, StreamAlone DEF BrowserTypeOK
<1> QED
  BY <1>1, <1>2, <1>3

\* Every step of the browser, the server or the encoder keeps the invariant.
LEMMA ClientInvKept == ClientInv /\ [ScreenNext]_clientVars => ClientInv'
<1> SUFFICES ASSUME ClientInv, [ScreenNext]_clientVars PROVE ClientInv'
  OBVIOUS
<1>1. CASE ScreenNext
  BY <1>1, EncoderKeeps, ConnectKeeps, DisconnectKeeps, AnsweredKeeps, ReconnectKeeps, ReceiveKeeps,
     NoFirstFrameKeeps, LossKeeps DEF ScreenNext, ScreenStep
<1>2. CASE UNCHANGED clientVars
  <2> USE <1>2 DEF clientVars, ClientInv
  <2>1. ScreenTypeOK'
    BY DEF ScreenTypeOK, BrowserTypeOK, StreamTypeOK
  <2>2. OneSocket' /\ OneQuestion' /\ Timers' /\ StillScreenStreams'
    BY DEF OneSocket, OneQuestion, Current, Timers, StillScreenStreams
  <2>3. Undisturbed'
    BY DEF Undisturbed, Streaming, WholeStream, WholeUpTo, Assembled
  <2> QED
    BY <2>1, <2>2, <2>3
<1> QED
  BY <1>1, <1>2

\* The invariant holds initially.
LEMMA ClientInvInit == ScreenInit => ClientInv
<1> SUFFICES ASSUME ScreenInit PROVE ClientInv
  OBVIOUS
<1> USE ClientAssumption DEF ScreenInit
<1>1. BrowserTypeOK
  <2>1. gen \in 0 .. MaxCalls /\ desired \in {None} \cup Wishes /\ socket \in {None} \cup Sockets
    OBVIOUS
  <2>2. {webCodecs, leaked, configured, gotFrame, firstTimer} \subseteq BOOLEAN
    OBVIOUS
  <2> QED
    BY <2>1, <2>2 DEF BrowserTypeOK
<1>2. ScreenTypeOK
  <2>1. written \in 0 .. Len(Script)
    BY DEF Script
  <2>2. cut \in BOOLEAN /\ buffer \in {None} \cup Nals
    OBVIOUS
  <2>4. faults \in 0 .. MaxFaults
    OBVIOUS
  <2>3. params \in Seq(Nals) /\ units \in Seq(Units)
    OBVIOUS
  <2> QED
    BY <1>1, <2>1, <2>2, <2>3, <2>4 DEF ScreenTypeOK, StreamTypeOK
<1>3. OneSocket /\ OneQuestion /\ Timers /\ Undisturbed /\ StillScreenStreams
  BY DEF OneSocket, OneQuestion, Timers, Undisturbed, Streaming, StillScreenStreams
<1> QED
  BY <1>2, <1>3 DEF ClientInv

\* The client's variables keep their types, for any number of calls, faults, phones and TVs.
THEOREM ScreenTypeCorrect == ScreenSpec => []ScreenTypeOK
<1>1. ClientInv => ScreenTypeOK
  BY DEF ClientInv
<1> QED
  BY <1>1, ClientInvInit, ClientInvKept, PTL DEF ScreenSpec

\* However connects, disconnects, losses and late answers overtake each other, the browser never has
\* a socket open that it no longer refers to (useDeviceScreen.js:285-301).
THEOREM ClientHasOneSocket == ScreenSpec => []OneSocket
<1>1. ClientInv => OneSocket
  BY DEF ClientInv
<1> QED
  BY <1>1, ClientInvInit, ClientInvKept, PTL DEF ScreenSpec

\* In a browser that can decode, a stream in which nothing was lost, cut or late is never given up
\* for screenshots (screen_stream.py:35-59, useDeviceScreen.js:272-284).
THEOREM StillScreenIsStreamed == ScreenSpec => []StillScreenStreams
<1>1. ClientInv => StillScreenStreams
  BY DEF ClientInv
<1> QED
  BY <1>1, ClientInvInit, ClientInvKept, PTL DEF ScreenSpec

-------------------------------------------------------------------------------
(* The launcher *)

LaunchTypeOK ==
  /\ services \in Seq(Names) /\ started \in Seq(Names)
  /\ child \in [Names -> {"none", "starting", "serving", "exited"}]
  /\ main \in {"broker", "start", "append", "wait", "watch", "stop", "returned", "traceback"}
  /\ handled \in BOOLEAN

Remembered(s) == \E i \in DOMAIN started : started[i] = s

\* There is one to start when its turn comes, and nothing has been handled before the shutdown.
Stages ==
  /\ main \in {"start", "append"} => services # <<>>
  /\ handled => main \in {"stop", "returned", "traceback"}

\* A process is remembered, or is the one between its start and its place in the list.
ProcessesAreKnown ==
  \A s \in Names : child[s] # "none" =>
    \/ Remembered(s)
    \/ services # <<>> /\ s = Head(services) /\ (main = "append" \/ handled)

\* Nothing that is remembered outlives main().
NoneRemembered == main = "returned" => \A s \in Names : Remembered(s) => ~Alive(s)

LaunchInv == LaunchTypeOK /\ Stages /\ ProcessesAreKnown /\ NoneRemembered

\* There is always something to start: the API is never skipped.
LEMMA SomethingToStart == BuildServices \in Seq(Names) /\ BuildServices # <<>>
<1>1. ASSUME NEW s \in Names PROVE Unless(s) \in Seq(Names)
  BY DEF Unless
<1>2. "api" \in Names /\ "worker" \in Names /\ "livescreen" \in Names /\ "frontend" \in Names
  BY DEF Names
<1>3. \A p, q \in Seq(Names) : p # <<>> => p \o q \in Seq(Names) /\ p \o q # <<>>
  BY ConcatProperties, EmptySeq
<1>4. <<"api">> \in Seq(Names) /\ <<"api">> # <<>>
  BY <1>2
<1> HIDE DEF Names
<1> QED
  BY <1>1, <1>2, <1>3, <1>4 DEF BuildServices

\* Every step of the launcher, a child or the user keeps the invariant.
LEMMA LaunchInvKept == LaunchInv /\ [LaunchNext]_launchVars => LaunchInv'
<1> SUFFICES ASSUME LaunchInv, [LaunchNext]_launchVars PROVE LaunchInv'
  OBVIOUS
<1> USE DEF LaunchInv
<1>1. ASSUME Prepare PROVE LaunchInv'
  <2>1. LaunchTypeOK' /\ Stages'
    BY <1>1, SomethingToStart DEF Prepare, LaunchTypeOK, Stages
  <2>2. ProcessesAreKnown' /\ NoneRemembered'
    BY <1>1 DEF Prepare, Stages, ProcessesAreKnown, NoneRemembered, Remembered
  <2> QED
    BY <2>1, <2>2
<1>2. ASSUME Start PROVE LaunchInv'
  <2>1. services # <<>> /\ Head(services) \in Names
    BY <1>2 DEF Start, Stages, LaunchTypeOK
  <2> QED
    BY <1>2, <2>1 DEF Start, LaunchTypeOK, Stages, ProcessesAreKnown, NoneRemembered, Remembered
<1>3. ASSUME Remember PROVE LaunchInv'
  <2> DEFINE h == Head(services)
  <2>1. services # <<>> /\ h \in Names /\ Tail(services) \in Seq(Names)
    BY <1>3 DEF Remember, Stages, LaunchTypeOK
  <2> HIDE DEF h
  <2>2. started' = Append(started, h) /\ services' = Tail(services) /\ main' = "wait" /\ main = "append"
        /\ UNCHANGED <<child, handled>> /\ ~handled
    BY <1>3 DEF Remember, h, Stages
  <2>3. started' \in Seq(Names) /\ \A s : Remembered(s) \/ s = h => Remembered(s)'
    <3>1. /\ started' \in Seq(Names) /\ started'[Len(started) + 1] = h
          /\ Len(started') = Len(started) + 1 /\ \A i \in 1..Len(started) : started'[i] = started[i]
      BY <2>1, <2>2, AppendProperties DEF LaunchTypeOK
    <3>2. DOMAIN started = 1..Len(started) /\ DOMAIN started' = 1..(Len(started) + 1) /\ Len(started) \in Nat
      BY <3>1 DEF LaunchTypeOK
    <3>3. ASSUME NEW s, s = h PROVE Remembered(s)'
      <4>1. Len(started) + 1 \in DOMAIN started'
        BY <3>2
      <4> QED
        BY <3>1, <3>3, <4>1 DEF Remembered
    <3>4. ASSUME NEW s, Remembered(s) PROVE Remembered(s)'
      <4>1. PICK i \in DOMAIN started : started[i] = s
        BY <3>4 DEF Remembered
      <4>2. i \in DOMAIN started' /\ started'[i] = s
        BY <3>1, <3>2, <4>1
      <4> QED
        BY <4>2 DEF Remembered
    <3> QED
      BY <3>1, <3>3, <3>4
  <2>4. ProcessesAreKnown'
    BY <2>2, <2>3 DEF ProcessesAreKnown, h
  <2> QED
    BY <2>1, <2>2, <2>3, <2>4 DEF LaunchTypeOK, Stages, NoneRemembered
<1>4. ASSUME Waited PROVE LaunchInv'
  <2>1. /\ main = "wait" /\ main' \in {"start", "watch", "stop"} /\ (main' = "start" => services # <<>>)
        /\ UNCHANGED <<services, started, child, handled>>
    BY <1>4 DEF Waited, Proceed, Shutdown
  <2> QED
    BY <2>1 DEF LaunchTypeOK, Stages, ProcessesAreKnown, NoneRemembered, Remembered
<1>5. ASSUME NEW s \in Names, Watch(s) PROVE LaunchInv'
  <2>1. main = "watch" /\ main' \in {"watch", "stop"} /\ UNCHANGED <<services, started, child, handled>>
    BY <1>5 DEF Watch, Shutdown
  <2> QED
    BY <2>1 DEF LaunchTypeOK, Stages, ProcessesAreKnown, NoneRemembered, Remembered
<1>6. ASSUME Stop PROVE LaunchInv'
  <2> DEFINE rest == {i \in DOMAIN started : MustStop(started[i])}
  <2>1. main = "stop" /\ UNCHANGED <<services, started, handled>>
    BY <1>6 DEF Stop
  <2>2. CASE rest = {}
    <3>1. main' = "returned" /\ UNCHANGED child
      BY <1>6, <2>2 DEF Stop
    <3>2. NoneRemembered'
      BY <2>1, <2>2, <3>1 DEF NoneRemembered, Remembered, MustStop, Alive
    <3> QED
      BY <2>1, <3>1, <3>2 DEF LaunchTypeOK, Stages, ProcessesAreKnown, Remembered
  <2>3. CASE rest # {}
    <3>1. PICK x : child' = [child EXCEPT ![x] = "exited"] /\ UNCHANGED main
      BY <1>6, <2>3 DEF Stop
    <3>2. Max(rest) \in DOMAIN started /\ MustStop(started[Max(rest)])
      <4>1. Len(started) \in Nat /\ DOMAIN started = 1..Len(started)
        BY DEF LaunchTypeOK
      <4>2. rest \subseteq 0..Len(started)
        BY <4>1
      <4>3. Max(rest) \in rest
        <5> HIDE DEF rest
        <5> QED
          BY <2>3, <4>1, <4>2, GreatestId
      <4> QED
        BY <4>3
    <3>3. child' = [child EXCEPT ![started[Max(rest)]] = "exited"]
      BY <1>6, <2>3 DEF Stop
    <3>4. child[started[Max(rest)]] # "none"
      BY <3>2 DEF MustStop, Alive
    <3>5. \A s \in Names : child'[s] # "none" => child[s] # "none"
      BY <3>3, <3>4 DEF LaunchTypeOK
    <3> QED
      BY <2>1, <3>1, <3>3, <3>5 DEF LaunchTypeOK, Stages, ProcessesAreKnown, NoneRemembered, Remembered
  <2> QED
    BY <2>2, <2>3
<1>7. ASSUME CtrlC PROVE LaunchInv'
  <2>1. /\ main' \in {"traceback", "stop"} /\ handled' \in BOOLEAN /\ (handled => handled')
        /\ (main = "append" => handled') /\ UNCHANGED <<services, started, child>>
    BY <1>7 DEF CtrlC, Shutdown, LaunchTypeOK, Stages
  <2>2. LaunchTypeOK' /\ Stages' /\ NoneRemembered'
    BY <2>1 DEF LaunchTypeOK, Stages, NoneRemembered
  <2>3. \A t : Remembered(t)' <=> Remembered(t)
    BY <2>1 DEF Remembered
  <2>4. ProcessesAreKnown'
    BY <2>1, <2>3 DEF ProcessesAreKnown
  <2> QED
    BY <2>2, <2>4
<1>8. ASSUME NEW s \in Names, ComesUp(s) \/ Ends(s) PROVE LaunchInv'
  <2>1. /\ main # "returned" /\ child[s] # "none" /\ UNCHANGED <<services, started, main, handled>>
        /\ child' = [child EXCEPT ![s] = "serving"] \/ child' = [child EXCEPT ![s] = "exited"]
    BY <1>8 DEF ComesUp, Ends, Alive
  <2>2. /\ child' \in [Names -> {"none", "starting", "serving", "exited"}]
        /\ \A t \in Names : child'[t] # "none" => child[t] # "none"
    BY <2>1 DEF LaunchTypeOK
  <2>3. LaunchTypeOK' /\ Stages' /\ NoneRemembered'
    BY <2>1, <2>2 DEF LaunchTypeOK, Stages, NoneRemembered
  <2>4. \A t : Remembered(t)' <=> Remembered(t)
    BY <2>1 DEF Remembered
  <2>5. ProcessesAreKnown'
    BY <2>1, <2>2, <2>4 DEF ProcessesAreKnown
  <2> QED
    BY <2>3, <2>5
<1>9. ASSUME UNCHANGED launchVars PROVE LaunchInv'
  BY <1>9 DEF launchVars, LaunchTypeOK, Stages, ProcessesAreKnown, NoneRemembered, Remembered, Alive
<1> QED
  BY <1>1, <1>2, <1>3, <1>4, <1>5, <1>6, <1>7, <1>8, <1>9 DEF LaunchNext, Main

\* On every machine, with every choice of services, however many children end by themselves and
\* however often Ctrl+C is pressed: when main() returns, no child it started runs, but one that
\* Ctrl+C hit between its start and its place in `started' (StartServices.py:437-438).
THEOREM LauncherLeavesNone == LaunchSpec => []NoneLeftBehind
<1>1. LaunchInit => LaunchInv
  <2> SUFFICES ASSUME LaunchInit PROVE LaunchInv
    OBVIOUS
  <2>1. services \in Seq(Names) /\ started \in Seq(Names)
    BY DEF LaunchInit
  <2> QED
    BY <2>1 DEF LaunchInit, LaunchInv, LaunchTypeOK, Stages, ProcessesAreKnown, NoneRemembered, Remembered
<1>2. LaunchInv => NoneLeftBehind
  BY DEF LaunchInv, LaunchTypeOK, ProcessesAreKnown, NoneRemembered, NoneLeftBehind, Alive
<1> QED
  BY <1>1, <1>2, LaunchInvKept, PTL DEF LaunchSpec

-------------------------------------------------------------------------------
(* The reports of a campaign *)

States == Finals \cup {"pending", "running", "gone"}
Kinds == {"verification_failed", "selector_fallback", "selector_stale"}

ReportsTypeOK ==
  /\ spec \in Validated
  /\ status \in [Children -> States] /\ events \in [Children -> SUBSET Kinds]
  /\ series \in [Children -> Seq(Values)] /\ standard \in [Tested -> {NoRun} \cup Children]

\* The children are finitely many, each with a scenario of the tier.
LEMMA ChildrenAreFinite ==
  ASSUME spec \in Validated
  PROVE  /\ Children \subseteq Nat /\ IsFiniteSet(Children)
         /\ \A k \in Children : PlannedScenarios[k] \in Tested
<1>1. /\ spec.tier \in Tiers /\ spec.iterations \in Nat /\ spec.tier \in Seq(Tested) /\ spec.tier # <<>>
  BY ReportsAssumption DEF Validated, Tested
<1> DEFINE n == Len(spec.tier)
<1>2. n \in Nat \ {0} /\ DOMAIN spec.tier = 1..n
  BY <1>1, EmptySeq
<1>3. spec.iterations * n \in Nat
  BY <1>1, <1>2
<1>4. Children = 1..(spec.iterations * n)
  BY DEF Children, PlannedScenarios
<1>5. ASSUME NEW k \in Children PROVE PlannedScenarios[k] \in Tested
  <2>1. ((k - 1) % n) + 1 \in 1..n
    <3>1. k - 1 \in Int
      BY <1>3, <1>4
    <3> HIDE DEF n
    <3>2. ASSUME NEW i \in Int, NEW m \in Nat \ {0} PROVE i % m \in 0..(m - 1)
      OBVIOUS
    <3>3. (k - 1) % n \in 0..(n - 1)
      BY <1>2, <3>1, <3>2
    <3> QED
      BY <1>2, <3>3
  <2> QED
    BY <1>1, <1>2, <1>4, <1>5, <2>1 DEF PlannedScenarios
<1> HIDE DEF n
<1> QED
  BY <1>3, <1>4, <1>5, FS_Interval

\* The rows of a campaign have their types initially.
LEMMA ReportsTypeInit == ReportsInit => ReportsTypeOK
<1> SUFFICES ASSUME ReportsInit PROVE ReportsTypeOK
  OBVIOUS
<1>1. spec \in Validated
  BY DEF ReportsInit
<1>2. status \in [Children -> States] /\ events \in [Children -> SUBSET Kinds]
  BY DEF ReportsInit, States
<1>3. series \in [Children -> Seq(Values)] /\ standard \in [Tested -> {NoRun} \cup Children]
  BY DEF ReportsInit
<1> QED
  BY <1>1, <1>2, <1>3 DEF ReportsTypeOK

\* Every change of a row keeps them.
LEMMA ReportsTypeKept == ReportsTypeOK /\ [ReportsNext]_reportVars => ReportsTypeOK'
<1> SUFFICES ASSUME ReportsTypeOK, [ReportsNext]_reportVars PROVE ReportsTypeOK'
  OBVIOUS
<1>1. spec' = spec /\ Children' = Children /\ Tested' = Tested
  BY DEF ReportsNext, reportVars, Begin, Measure, Note, End, CancelAll, DeleteOne, ResumeOne, ChooseStandard,
         Children, Tested, PlannedScenarios
<1>2. \A k \in Children : PlannedScenarios[k] \in Tested
  BY ChildrenAreFinite DEF ReportsTypeOK
<1> USE DEF ReportsTypeOK, States, Finals, Kinds
<1>3. CASE CancelAll
  BY <1>1, <1>3 DEF CancelAll
<1>4. ASSUME NEW k \in Children, Begin(k) \/ ResumeOne(k) PROVE ReportsTypeOK'
  BY <1>1, <1>4 DEF Begin, ResumeOne
<1>5. ASSUME NEW k \in Children, Measure(k) PROVE ReportsTypeOK'
  BY <1>1, <1>5 DEF Measure
<1>6. ASSUME NEW k \in Children, Note(k) PROVE ReportsTypeOK'
  BY <1>1, <1>6 DEF Note, Outcomes
<1>7. ASSUME NEW k \in Children, End(k) PROVE ReportsTypeOK'
  BY <1>1, <1>2, <1>7 DEF End
<1>8. ASSUME NEW k \in Children, DeleteOne(k) PROVE ReportsTypeOK'
  BY <1>1, <1>8 DEF DeleteOne
<1>9. ASSUME NEW k \in Children, ChooseStandard(k) PROVE ReportsTypeOK'
  BY <1>1, <1>2, <1>9 DEF ChooseStandard
<1>10. CASE UNCHANGED reportVars
  BY <1>1, <1>10 DEF reportVars
<1> QED
  BY <1>3, <1>4, <1>5, <1>6, <1>7, <1>8, <1>9, <1>10 DEF ReportsNext

\* What a finished run recorded is left alone, unless the run is deleted.
LEMMA RecordsStay ==
  ASSUME ReportsTypeOK, [ReportsNext]_reportVars, NEW k \in Finished(Children), status'[k] # "gone"
  PROVE  events'[k] = events[k] /\ series'[k] = series[k]
<1> USE DEF ReportsTypeOK, Finished, Finals
<1>1. CASE CancelAll
  BY <1>1 DEF CancelAll
<1>2. ASSUME NEW j \in Children, Begin(j) \/ ResumeOne(j) \/ End(j) \/ ChooseStandard(j)
      PROVE  events'[k] = events[k] /\ series'[k] = series[k]
  BY <1>2 DEF Begin, ResumeOne, End, ChooseStandard
<1>3. ASSUME NEW j \in Children, Measure(j) \/ Note(j)
      PROVE  events'[k] = events[k] /\ series'[k] = series[k]
  <2>1. j # k
    BY <1>3 DEF Measure, Note
  <2> QED
    BY <1>3, <2>1 DEF Measure, Note
<1>4. ASSUME NEW j \in Children, DeleteOne(j)
      PROVE  events'[k] = events[k] /\ series'[k] = series[k]
  <2>1. j # k
    BY <1>4 DEF DeleteOne
  <2> QED
    BY <1>4, <2>1 DEF DeleteOne
<1>5. CASE UNCHANGED reportVars
  BY <1>5 DEF reportVars
<1> QED
  BY <1>1, <1>2, <1>3, <1>4, <1>5 DEF ReportsNext

\* The baseline of a scenario is not taken away while it stays the baseline.
LEMMA BaselineStays ==
  ASSUME ReportsTypeOK, [ReportsNext]_reportVars, NEW s \in Tested,
         standard[s] \in Finished(Children), standard'[s] = standard[s]
  PROVE  status'[standard[s]] # "gone"
<1> DEFINE b == standard[s]
<1>1. b \in Children /\ status[b] \in Finals /\ b # NoRun
  BY ChildrenAreFinite, ReportsAssumption DEF Finished, ReportsTypeOK
<1> USE DEF ReportsTypeOK, Finals
<1>2. CASE CancelAll
  BY <1>1, <1>2 DEF CancelAll
<1>3. ASSUME NEW j \in Children, Begin(j) \/ ResumeOne(j) \/ End(j) \/ ChooseStandard(j) \/ Measure(j) \/ Note(j)
      PROVE  status'[b] # "gone"
  BY <1>1, <1>3 DEF Begin, ResumeOne, End, ChooseStandard, Measure, Note
<1>4. ASSUME NEW j \in Children, DeleteOne(j)
      PROVE  status'[b] # "gone"
  <2>1. j # b
    BY <1>1, <1>4 DEF DeleteOne
  <2> QED
    BY <1>1, <1>4, <2>1 DEF DeleteOne
<1>5. CASE UNCHANGED reportVars
  BY <1>1, <1>5 DEF reportVars
<1> QED
  BY <1>2, <1>3, <1>4, <1>5 DEF ReportsNext

\* The runs the stability report judges: those that passed, and all that count.
Passed(s) == {k \in Of(s) : status[k] = "completed" /\ Verified(k)
                            /\ ~(standard[s] # NoRun /\ Moved(k))}
Counted(s) == {k \in Of(s) : \/ status[k] = "completed" /\ Verified(k)
                             \/ status[k] \in {"failed", "interrupted"}}

\* Flaky is a scenario with a run that passed and one that did not.
LEMMA FlakyMeans ==
  ASSUME ReportsTypeOK, NEW s
  PROVE  RepeatAnalysis(s).flaky <=> Passed(s) # {} /\ Counted(s) \ Passed(s) # {}
<1> DEFINE Completed == {k \in {j \in Of(s) : status[j] = "completed"} : Verified(k)}
           Errored == {k \in Of(s) : status[k] \in {"failed", "interrupted"}}
           finished == Cardinality(Completed) + Cardinality(Errored)
<1>1. RepeatAnalysis(s).flaky <=>
        finished > 1 /\ Passed(s) # {} /\ Cardinality(Passed(s)) < finished
  <2> DEFINE ok == {j \in Of(s) : status[j] = "completed"}
             bad == {k \in ok : ~Verified(k)}
             moved == {k \in ok \ bad : standard[s] # NoRun /\ Moved(k)}
  <2>1. RepeatAnalysis(s).flaky <=>
          /\ Cardinality(ok \ bad) + Cardinality(Errored) > 1
          /\ (ok \ bad) \ moved # {}
          /\ Cardinality((ok \ bad) \ moved) < Cardinality(ok \ bad) + Cardinality(Errored)
    BY DEF RepeatAnalysis
  <2>2. ok \ bad = Completed
    OBVIOUS
  <2>3. (ok \ bad) \ moved = Passed(s)
    BY DEF Passed
  <2> HIDE DEF ok, bad, moved, Completed, Errored
  <2> QED
    BY <2>1, <2>2, <2>3
<1>2. Completed \cup Errored = Counted(s) /\ Completed \cap Errored = {} /\ Passed(s) \subseteq Counted(s)
  BY DEF Counted, Passed
<1>3. IsFiniteSet(Counted(s)) /\ IsFiniteSet(Completed) /\ IsFiniteSet(Errored) /\ IsFiniteSet(Passed(s))
  <2>1. IsFiniteSet(Of(s))
    BY ChildrenAreFinite, FS_Subset DEF ReportsTypeOK, Of, Listed
  <2> QED
    BY <2>1, FS_Subset DEF Counted, Passed
<1> HIDE DEF Completed, Errored
<1>4. finished = Cardinality(Counted(s)) /\ finished \in Nat
  <2>1. Cardinality(Completed) \in Nat /\ Cardinality(Errored) \in Nat /\ Cardinality({}) = 0
    BY <1>3, FS_CardinalityType, FS_EmptySet
  <2>2. Cardinality(Completed \cup Errored)
          = Cardinality(Completed) + Cardinality(Errored) - Cardinality(Completed \cap Errored)
    BY <1>3, FS_Union
  <2>3. Cardinality(Completed \cup Errored) = Cardinality(Counted(s)) /\ Cardinality(Completed \cap Errored) = 0
    BY <1>2, <2>1, Zenon
  <2> QED
    BY <2>1, <2>2, <2>3
<1>5. Cardinality(Passed(s)) \in Nat /\ Cardinality(Passed(s)) <= Cardinality(Counted(s))
      /\ (Cardinality(Passed(s)) = Cardinality(Counted(s)) => Passed(s) = Counted(s))
  BY <1>2, <1>3, FS_Subset, FS_CardinalityType
<1>6. Cardinality(Passed(s)) < finished <=> Counted(s) \ Passed(s) # {}
  <2>1. Counted(s) \ Passed(s) # {} <=> Passed(s) # Counted(s)
    BY <1>2
  <2>2. Passed(s) = Counted(s) => Cardinality(Passed(s)) = Cardinality(Counted(s))
    OBVIOUS
  <2> QED
    BY <1>4, <1>5, <2>1, <2>2
<1>7. Passed(s) # {} => Cardinality(Passed(s)) > 0
  BY <1>3, <1>5, FS_EmptySet
<1> HIDE DEF finished
<1> QED
  BY <1>1, <1>4, <1>5, <1>6, <1>7

\* Whatever happens to the other runs, a run that is done is judged as before.
LEMMA JudgementStays ==
  ASSUME ReportsTypeOK, [ReportsNext]_reportVars, NEW s \in Tested, Settled(s), standard'[s] = standard[s],
         NEW k \in Finished(Of(s)), status'[k] = status[k]
  PROVE  /\ k \in Of(s)' /\ Verified(k)' = Verified(k) /\ Moved(k)' = Moved(k)
<1>1. k \in Children /\ k \in Finished(Children) /\ PlannedScenarios[k] = s /\ status[k] # "gone"
  BY DEF Finished, Of, Listed, Finals
<1>2. Children' = Children /\ PlannedScenarios' = PlannedScenarios
  BY DEF ReportsNext, reportVars, Begin, Measure, Note, End, CancelAll, DeleteOne, ResumeOne, ChooseStandard,
         Children, PlannedScenarios
<1>3. events'[k] = events[k] /\ series'[k] = series[k]
  BY <1>1, RecordsStay
<1>4. k \in Of(s)' /\ Verified(k)' = Verified(k)
  BY <1>1, <1>2, <1>3 DEF Of, Listed, Verified
<1>5. AggregateSamples(k)' = AggregateSamples(k)
  BY <1>3 DEF AggregateSamples
<1>6. AggregateSamples(standard[s])' = AggregateSamples(standard[s])
  <2>1. CASE standard[s] = NoRun
    BY <2>1 DEF AggregateSamples
  <2>2. CASE standard[s] \in Finished(Children)
    <3>1. series'[standard[s]] = series[standard[s]]
      BY <2>2, BaselineStays, RecordsStay
    <3> QED
      BY <3>1 DEF AggregateSamples
  <2> QED
    BY <2>1, <2>2 DEF Settled
<1>7. Moved(k)' = Moved(k)
  BY <1>1, <1>2, <1>5, <1>6 DEF Moved
<1> QED
  BY <1>4, <1>7

\* For every campaign: once a scenario is called flaky it stays flaky, whatever its other runs do
\* (campaigns.py:256-259).
THEOREM FlakyIsStable == ReportsSpec => FlakyStays
<1> DEFINE A == \A s \in Tested :
                  /\ RepeatAnalysis(s).flaky /\ Settled(s) /\ standard'[s] = standard[s]
                  /\ \A k \in Finished(Of(s)) : status'[k] = status[k]
                  => RepeatAnalysis(s).flaky'
<1>1. ReportsTypeOK /\ ReportsTypeOK' /\ [ReportsNext]_reportVars => A
  <2> SUFFICES ASSUME ReportsTypeOK, ReportsTypeOK', [ReportsNext]_reportVars, NEW s \in Tested,
                      RepeatAnalysis(s).flaky, Settled(s), standard'[s] = standard[s],
                      \A k \in Finished(Of(s)) : status'[k] = status[k]
               PROVE  RepeatAnalysis(s).flaky'
    OBVIOUS
  <2>1. PICK p, f \in Counted(s) : p \in Passed(s) /\ f \notin Passed(s)
    BY FlakyMeans DEF Passed, Counted
  <2>2. p \in Finished(Of(s)) /\ f \in Finished(Of(s))
    BY <2>1 DEF Counted, Finished, Finals
  <2>3. p \in Passed(s)' /\ f \in Counted(s)' /\ f \notin Passed(s)'
    <3>1. /\ p \in Of(s)' /\ Verified(p)' = Verified(p) /\ Moved(p)' = Moved(p) /\ status'[p] = status[p]
          /\ f \in Of(s)' /\ Verified(f)' = Verified(f) /\ Moved(f)' = Moved(f) /\ status'[f] = status[f]
      BY <2>2, JudgementStays
    <3> QED
      BY <2>1, <3>1 DEF Passed, Counted
  <2>4. (RepeatAnalysis(s).flaky <=> Passed(s) # {} /\ Counted(s) \ Passed(s) # {})'
    BY FlakyMeans, PTL
  <2> QED
    BY <2>3, <2>4
<1> QED
  BY <1>1, ReportsTypeInit, ReportsTypeKept, PTL DEF ReportsSpec, FlakyStays

-------------------------------------------------------------------------------
(* The chart of a run: sums *)

\* What holds of a, and of each next number up to b, holds from a to b.
LEMMA FromTo ==
  ASSUME NEW a \in Nat, NEW b \in Nat, NEW S, a \in S,
         \A m \in a..(b - 1) : m \in S => m + 1 \in S
  PROVE  a..b \subseteq S
<1> DEFINE Missing == {m \in a..b : m \notin S}
<1> SUFFICES ASSUME Missing # {} PROVE FALSE
  OBVIOUS
<1>1. PICK m \in Missing : \A l \in Missing : m <= l
  <2>1. Missing \subseteq Nat
    OBVIOUS
  <2> HIDE DEF Missing
  <2> QED
    BY <2>1, LeastId
<1>2. m \in a..b /\ m \notin S /\ m # a
  BY <1>1
<1>3. m - 1 \in a..(b - 1)
  BY <1>2
<1>4. m - 1 \notin Missing
  BY <1>1, <1>3
<1>5. m - 1 \in S
  BY <1>3, <1>4
<1> QED
  BY <1>2, <1>3, <1>5

\* P holds the sums, over I, of the prefixes of f.
PrefixSums(f, I, P) ==
  /\ P \in [0..Len(f) -> Int] /\ P[0] = 0
  /\ \A i \in 1..Len(f) : P[i] = P[i - 1] + (IF i \in I THEN f[i] ELSE 0)

\* A sum over positions of a sequence is the last of the sums of its prefixes.
LEMMA SumIsLast ==
  ASSUME NEW f \in Seq(Int), NEW I
  PROVE  \E P : PrefixSums(f, I, P) /\ SumOver(f, I) = P[Len(f)]
<1> DEFINE n == Len(f)
           part == [i \in 1..n |-> IF i \in I THEN f[i] ELSE 0]
           Next(g, i) == IF i = 0 THEN 0 ELSE g[i - 1] + (IF i \in I THEN f[i] ELSE 0)
           IsSum(m, g) == g = [i \in 0..m |-> Next(g, i)]
           Summed == {m \in 0..n : \E g : IsSum(m, g)}
           P == CHOOSE g : IsSum(n, g)
<1>1. n \in Nat /\ \A i \in 1..n : f[i] \in Int
  OBVIOUS
<1>2. 0 \in Summed
  <2> DEFINE g == [i \in 0..0 |-> 0]
  <2>1. IsSum(0, g)
    OBVIOUS
  <2> HIDE DEF g
  <2> QED
    BY <1>1, <2>1
<1>3. ASSUME NEW m \in 0..(n - 1), m \in Summed PROVE m + 1 \in Summed
  <2>1. PICK g : IsSum(m, g)
    BY <1>3
  <2> DEFINE h == [i \in 0..(m + 1) |-> IF i = m + 1 THEN Next(g, m + 1) ELSE g[i]]
  <2>2. ASSUME NEW i \in 0..(m + 1) PROVE h[i] = Next(h, i)
    <3>1. i # 0 => h[i - 1] = g[i - 1]
      BY <1>1
    <3>2. CASE i = m + 1
      BY <1>1, <3>1, <3>2
    <3>3. CASE i # m + 1
      <4>1. i \in 0..m /\ h[i] = g[i]
        BY <3>3
      <4>2. g[i] = Next(g, i)
        BY <2>1, <4>1
      <4> QED
        BY <3>1, <4>1, <4>2
    <3> QED
      BY <3>2, <3>3
  <2>3. IsSum(m + 1, h)
    <3>1. h = [i \in 0..(m + 1) |-> h[i]]
      OBVIOUS
    <3> HIDE DEF h, Next
    <3> QED
      BY <2>2, <3>1
  <2> HIDE DEF h, IsSum
  <2> QED
    BY <1>1, <2>3
<1>4. \E g : IsSum(n, g)
  <2>1. 0..n \subseteq Summed
    <3> HIDE DEF Summed, n
    <3> QED
      BY <1>1, <1>2, <1>3, FromTo
  <2> HIDE DEF IsSum
  <2> QED
    BY <1>1, <2>1
<1>5. IsSum(n, P)
  <2> HIDE DEF IsSum
  <2> QED
    BY <1>4
<1>6. SumOver(f, I) = P[n]
  BY DEF SumOver
<1>7. DOMAIN P = 0..n /\ \A i \in 0..n : P[i] = Next(P, i)
  <2> HIDE DEF P, n
  <2> QED
    BY <1>5
<1> HIDE DEF P
<1> DEFINE Whole == {i \in 0..n : P[i] \in Int}
<1>8. 0 \in Whole
  BY <1>1, <1>7
<1>9. ASSUME NEW m \in 0..(n - 1), m \in Whole PROVE m + 1 \in Whole
  <2>1. m + 1 \in 1..n /\ (m + 1) - 1 = m
    BY <1>1
  <2>2. P[m + 1] = P[m] + (IF m + 1 \in I THEN f[m + 1] ELSE 0)
    BY <1>7, <2>1
  <2> QED
    BY <1>1, <1>9, <2>1, <2>2
<1>10. 0..n \subseteq Whole
  <2> HIDE DEF Whole, n
  <2> QED
    BY <1>1, <1>8, <1>9, FromTo
<1>11. P \in [0..n -> Int]
  <2>1. P = [i \in 0..n |-> P[i]]
    <3> HIDE DEF n
    <3> QED
      BY <1>5, <1>7
  <2> QED
    BY <1>10, <2>1
<1>12. PrefixSums(f, I, P)
  BY <1>1, <1>7, <1>11 DEF PrefixSums
<1> QED
  BY <1>6, <1>12

\* Adjacent elements in order are in order pairwise.
LEMMA RisingPairs ==
  ASSUME NEW f \in Seq(Int), \A i \in 2..Len(f) : f[i - 1] <= f[i],
         NEW i \in 1..Len(f), NEW j \in i..Len(f)
  PROVE  f[i] <= f[j]
<1> DEFINE n == Len(f)
           Above == {m \in i..n : f[i] <= f[m]}
<1>1. n \in Nat /\ \A m \in 1..n : f[m] \in Int
  OBVIOUS
<1>2. i \in Above
  BY <1>1
<1>3. ASSUME NEW m \in i..(n - 1), m \in Above PROVE m + 1 \in Above
  <2>1. m + 1 \in 2..n /\ (m + 1) - 1 = m /\ m \in 1..n
    BY <1>1
  <2>2. f[m] <= f[m + 1]
    BY <2>1
  <2> QED
    BY <1>1, <1>3, <2>1, <2>2
<1>4. i..n \subseteq Above
  <2>1. i \in Nat
    OBVIOUS
  <2> HIDE DEF Above, n
  <2> QED
    BY <1>1, <1>2, <1>3, <2>1, FromTo
<1> QED
  BY <1>4

\* The sum of a stretch of a sequence that does not fall lies between what its ends allow.
LEMMA RisingSum ==
  ASSUME NEW f \in Seq(Int), NEW a \in 1..Len(f), NEW b \in a..Len(f),
         \A i \in 1..Len(f), j \in 1..Len(f) : i <= j => f[i] <= f[j]
  PROVE  /\ SumOver(f, a..b) \in Int
         /\ (b - a) * f[a] + f[b] <= SumOver(f, a..b)
         /\ SumOver(f, a..b) <= (b - a) * f[b] + f[a]
<1> DEFINE n == Len(f)
<1>1. n \in Nat /\ a \in Nat /\ b \in Nat /\ a >= 1 /\ b >= a /\ b <= n /\ \A m \in 1..n : f[m] \in Int
  OBVIOUS
<1>2. PICK P : PrefixSums(f, a..b, P) /\ SumOver(f, a..b) = P[n]
  BY SumIsLast
<1>3. /\ \A m \in 0..n : P[m] \in Int
      /\ P[0] = 0
      /\ \A m \in 1..n : P[m] = P[m - 1] + (IF m \in a..b THEN f[m] ELSE 0)
  BY <1>2 DEF PrefixSums
<1> HIDE DEF n
<1>4. P[a - 1] = 0
  <2> DEFINE Nought == {m \in 0..(a - 1) : P[m] = 0}
  <2>1. 0 \in Nought
    BY <1>1, <1>3
  <2>2. ASSUME NEW m \in 0..((a - 1) - 1), m \in Nought PROVE m + 1 \in Nought
    <3>1. m + 1 \in 1..n /\ (m + 1) - 1 = m /\ m + 1 \notin a..b /\ m + 1 \in 0..(a - 1)
      BY <1>1
    <3>2. P[m + 1] = P[m] + 0
      BY <1>3, <3>1
    <3> QED
      BY <2>2, <3>1, <3>2
  <2>3. 0..(a - 1) \subseteq Nought
    <3>1. a - 1 \in Nat
      BY <1>1
    <3> HIDE DEF Nought
    <3> QED
      BY <2>1, <2>2, <3>1, FromTo
  <2> QED
    BY <1>1, <2>3
<1> DEFINE Between == {m \in a..b : /\ (m - a) * f[a] + f[m] <= P[m]
                                    /\ P[m] <= (m - a) * f[m] + f[a]}
<1>5. a \in Between
  <2>1. P[a] = f[a] /\ f[a] \in Int
    BY <1>1, <1>3, <1>4
  <2>2. (a - a) * f[a] = 0 /\ a \in a..b
    BY <1>1, <2>1
  <2> QED
    BY <2>1, <2>2
<1>6. ASSUME NEW m \in a..(b - 1), m \in Between PROVE m + 1 \in Between
  <2>1. m + 1 \in 1..n /\ m \in 1..n /\ (m + 1) - 1 = m /\ m + 1 \in a..b
    BY <1>1
  <2>2. P[m + 1] = P[m] + f[m + 1] /\ P[m] \in Int
    BY <1>1, <1>3, <2>1
  <2>3. f[a] <= f[m] /\ f[m] <= f[m + 1]
    BY <1>1, <2>1 DEF n
  <2> DEFINE k == m - a
             lo == f[a]
             mid == f[m]
             hi == f[m + 1]
             p == P[m]
  <2>4. k \in Nat /\ lo \in Int /\ mid \in Int /\ hi \in Int /\ p \in Int
    BY <1>1, <2>1, <2>2
  <2>5. k * lo + mid <= p /\ p <= k * mid + lo /\ (m + 1) - a = k + 1
    BY <1>1, <1>6
  <2>6. lo <= mid /\ mid <= hi /\ P[m + 1] = p + hi
    BY <2>2, <2>3
  <2> HIDE DEF k, lo, mid, hi, p
  <2>7. k * mid <= k * hi
    BY <2>4, <2>6
  <2>8. (k + 1) * lo = k * lo + lo /\ (k + 1) * hi = k * hi + hi
    BY <2>4
  <2>9. (k + 1) * lo + hi <= p + hi /\ p + hi <= (k + 1) * hi + lo
    <3> DEFINE kl == k * lo
               km == k * mid
               kh == k * hi
    <3>1. kl \in Int /\ km \in Int /\ kh \in Int
      BY <2>4
    <3>2. /\ kl + mid <= p /\ p <= km + lo /\ km <= kh
          /\ (k + 1) * lo = kl + lo /\ (k + 1) * hi = kh + hi
      BY <2>5, <2>7, <2>8
    <3> HIDE DEF kl, km, kh
    <3> QED
      BY <2>4, <2>6, <3>1, <3>2
  <2> QED
    BY <2>1, <2>5, <2>6, <2>9 DEF lo, hi
<1>7. b \in Between
  <2>1. a..b \subseteq Between
    <3> HIDE DEF Between
    <3> QED
      BY <1>1, <1>5, <1>6, FromTo
  <2> QED
    BY <1>1, <2>1
<1>8. P[n] = P[b]
  <2> DEFINE Same == {m \in b..n : P[m] = P[b]}
  <2>1. b \in Same
    BY <1>1
  <2>2. ASSUME NEW m \in b..(n - 1), m \in Same PROVE m + 1 \in Same
    <3>1. m + 1 \in 1..n /\ (m + 1) - 1 = m /\ m + 1 \notin a..b /\ m + 1 \in b..n /\ m \in 0..n
      BY <1>1
    <3>2. P[m + 1] = P[m] + 0 /\ P[m] \in Int
      BY <1>3, <3>1
    <3> QED
      BY <2>2, <3>1, <3>2
  <2>3. b..n \subseteq Same
    <3> HIDE DEF Same
    <3> QED
      BY <1>1, <2>1, <2>2, FromTo
  <2> QED
    BY <1>1, <2>3
<1> QED
  BY <1>1, <1>2, <1>3, <1>7, <1>8

\* What rises over rising times has a positive slope: n times the sum of the products exceeds the
\* product of the sums.
LEMMA RisingSlope ==
  ASSUME NEW x \in Seq(Int), NEW y \in Seq(Int), NEW xy \in Seq(Int), NEW n \in Nat, n >= 2,
         Len(x) = n, Len(y) = n, Len(xy) = n,
         \A i \in 1..n : xy[i] = x[i] * y[i],
         \A i \in 1..n, j \in 1..n : i < j => x[i] < x[j] /\ y[i] <= y[j],
         y[1] < y[n]
  PROVE  n * SumOver(xy, 1..n) - SumOver(x, 1..n) * SumOver(y, 1..n) > 0
<1>1. PICK X : PrefixSums(x, 1..n, X) /\ SumOver(x, 1..n) = X[Len(x)]
  BY SumIsLast
<1>2. PICK Y : PrefixSums(y, 1..n, Y) /\ SumOver(y, 1..n) = Y[Len(y)]
  BY SumIsLast
<1>3. PICK A : PrefixSums(xy, 1..n, A) /\ SumOver(xy, 1..n) = A[Len(xy)]
  BY SumIsLast
<1>4. \A i \in 1..n : x[i] \in Int /\ y[i] \in Int
  OBVIOUS
<1>5. /\ X[0] = 0 /\ Y[0] = 0 /\ A[0] = 0
      /\ \A i \in 0..n : X[i] \in Int /\ Y[i] \in Int /\ A[i] \in Int
      /\ \A i \in 1..n : X[i] = X[i - 1] + x[i] /\ Y[i] = Y[i - 1] + y[i] /\ A[i] = A[i - 1] + xy[i]
  BY <1>1, <1>2, <1>3 DEF PrefixSums
<1>6. ASSUME NEW j \in 0..(n - 1)
      PROVE  /\ X[j + 1] = X[j] + x[j + 1] /\ Y[j + 1] = Y[j] + y[j + 1]
             /\ A[j + 1] = A[j] + x[j + 1] * y[j + 1]
  <2>1. j + 1 \in 1..n /\ (j + 1) - 1 = j
    OBVIOUS
  <2>2. X[j + 1] = X[j] + x[j + 1] /\ Y[j + 1] = Y[j] + y[j + 1] /\ A[j + 1] = A[j] + xy[j + 1]
    BY <1>5, <2>1
  <2>3. xy[j + 1] = x[j + 1] * y[j + 1]
    BY <2>1
  <2> QED
    BY <2>2, <2>3
<1>7. A[1] = x[1] * y[1] /\ X[1] = x[1] /\ Y[1] = y[1]
  <2>1. 1 \in 1..n /\ 1 - 1 = 0
    OBVIOUS
  <2>2. X[1] = X[0] + x[1] /\ Y[1] = Y[0] + y[1] /\ A[1] = A[0] + xy[1]
    BY <1>5, <2>1
  <2>3. xy[1] \in Int /\ xy[1] = x[1] * y[1] /\ x[1] \in Int /\ y[1] \in Int
    BY <1>4, <2>1
  <2> QED
    BY <1>5, <2>2, <2>3
\* What the next point adds: the products of its distances to those before it.
<1> DEFINE Added(m) == A[m] - y[m + 1] * X[m] - x[m + 1] * Y[m] + m * (x[m + 1] * y[m + 1])
           D(m) == m * A[m] - X[m] * Y[m]
<1>8. ASSUME NEW m \in 1..(n - 1)
      PROVE  Added(m) >= (x[m + 1] - x[1]) * (y[m + 1] - y[1])
  <2> DEFINE u == x[m + 1]
             v == y[m + 1]
             E(j) == A[j] - v * X[j] - u * Y[j] + j * (u * v)
             low == (u - x[1]) * (v - y[1])
             Enough == {j \in 1..m : E(j) >= low}
  <2>1. u \in Int /\ v \in Int /\ m \in Nat /\ m >= 1 /\ x[1] \in Int /\ y[1] \in Int
    BY <1>4
  <2>2. 1 \in Enough
    <3>1. A[1] = x[1] * y[1] /\ X[1] = x[1] /\ Y[1] = y[1]
      BY <1>7
    <3>2. ASSUME NEW p \in Int, NEW q \in Int, NEW r \in Int, NEW s \in Int
          PROVE  r * s - q * r - p * s + 1 * (p * q) = (p - r) * (q - s)
      BY SMTT(30)
    <3>3. E(1) = low
      <4>1. E(1) = x[1] * y[1] - v * x[1] - u * y[1] + 1 * (u * v)
        BY <3>1
      <4> HIDE DEF u, v
      <4> QED
        BY <2>1, <3>2, <4>1
    <3>4. low \in Int
      <4> HIDE DEF u, v
      <4> QED
        BY <2>1
    <3> HIDE DEF low, E
    <3> QED
      BY <2>1, <3>3, <3>4
  <2>3. ASSUME NEW j \in 1..(m - 1), j \in Enough PROVE j + 1 \in Enough
    <3> DEFINE p == x[j + 1]
               q == y[j + 1]
    <3>1. j + 1 \in 1..n /\ m + 1 \in 1..n /\ j + 1 < m + 1 /\ (j + 1) - 1 = j /\ j \in 0..n /\ j + 1 \in 1..m
      BY <2>1
    <3>2. p \in Int /\ q \in Int /\ p < u /\ q <= v
      BY <1>4, <3>1
    <3>3. X[j + 1] = X[j] + p /\ Y[j + 1] = Y[j] + q /\ A[j + 1] = A[j] + p * q
      <4>1. j \in 0..(n - 1)
        BY <3>1
      <4>2. X[j + 1] = X[j] + x[j + 1] /\ Y[j + 1] = Y[j] + y[j + 1] /\ A[j + 1] = A[j] + x[j + 1] * y[j + 1]
        BY <1>6, <4>1, Zenon
      <4> QED
        BY <4>2
    <3>4. X[j] \in Int /\ Y[j] \in Int /\ A[j] \in Int /\ j \in Nat
      <4>1. \A l \in 0..n : X[l] \in Int /\ Y[l] \in Int /\ A[l] \in Int
        BY <1>5
      <4> QED
        BY <3>1, <4>1
    <3>5. E(j) >= low /\ low \in Int /\ E(j) \in Int
      <4>1. E(j) >= low
        BY <2>3
      <4>2. low \in Int
        <5>1. u - x[1] \in Int /\ v - y[1] \in Int
          BY <2>1
        <5> QED
          BY <5>1
      <4> DEFINE vX == v * X[j]
                 uY == u * Y[j]
                 uv == u * v
                 juv == j * uv
      <4>3. vX \in Int /\ uY \in Int /\ uv \in Int
        <5>1. \A g \in Int, h \in Int : g * h \in Int
          OBVIOUS
        <5> HIDE DEF u, v
        <5> QED
          BY <2>1, <3>4, <5>1, Zenon
      <4>4. juv \in Int
        <5> HIDE DEF uv
        <5> QED
          BY <3>4, <4>3
      <4>5. E(j) = A[j] - vX - uY + juv
        OBVIOUS
      <4> HIDE DEF vX, uY, uv, juv
      <4>6. A[j] - vX - uY + juv \in Int
        <5>1. \A g \in Int, h \in Int, r \in Int, s \in Int : g - h - r + s \in Int
          OBVIOUS
        <5> QED
          BY <3>4, <4>3, <4>4, <5>1, Zenon
      <4> HIDE DEF E, low
      <4> QED
        BY <4>1, <4>2, <4>5, <4>6
    <3>6. E(j + 1) = E(j) + (u - p) * (v - q)
      <4> DEFINE d == A[j]
                 e == X[j]
                 i == Y[j]
      <4>1. E(j + 1) = (d + p * q) - v * (e + p) - u * (i + q) + (j + 1) * (u * v)
        BY <3>3
      <4>2. E(j) = d - v * e - u * i + j * (u * v)
        OBVIOUS
      <4>3. d \in Int /\ e \in Int /\ i \in Int
        BY <3>4
      <4> HIDE DEF u, v, p, q, d, e, i
      <4>4. (d + p * q) - v * (e + p) - u * (i + q) + (j + 1) * (u * v)
              = (d - v * e - u * i + j * (u * v)) + (u - p) * (v - q)
        BY <2>1, <3>2, <3>4, <4>3, SMTT(30)
      <4> HIDE DEF E
      <4> QED
        BY <4>1, <4>2, <4>4
    <3>7. (u - p) * (v - q) >= 0 /\ (u - p) * (v - q) \in Int
      <4> HIDE DEF u, v, p, q
      <4>1. u - p \in Nat /\ v - q \in Nat
        BY <2>1, <3>2
      <4> QED
        BY <4>1
    <3>8. E(j + 1) >= low
      <4> DEFINE add == (u - p) * (v - q)
      <4>1. E(j + 1) = E(j) + add /\ add \in Int /\ add >= 0
        BY <3>6, <3>7
      <4> HIDE DEF E, low, add
      <4> QED
        BY <3>5, <4>1
    <3> HIDE DEF E, low
    <3> QED
      BY <3>1, <3>8
  <2>4. m \in Enough
    <3>1. 1..m \subseteq Enough
      <4> HIDE DEF Enough
      <4> QED
        BY <2>1, <2>2, <2>3, FromTo
    <3> QED
      BY <2>1, <3>1
  <2> QED
    BY <2>4
<1>9. ASSUME NEW m \in 1..(n - 1)
      PROVE  D(m + 1) = D(m) + Added(m) /\ D(m) \in Int /\ Added(m) \in Int
  <2> DEFINE u == x[m + 1]
             v == y[m + 1]
  <2>1. m + 1 \in 1..n /\ (m + 1) - 1 = m /\ m \in 0..n /\ m \in Nat
    OBVIOUS
  <2>2. X[m + 1] = X[m] + u /\ Y[m + 1] = Y[m] + v /\ A[m + 1] = A[m] + u * v
    BY <1>6
  <2>3. u \in Int /\ v \in Int /\ X[m] \in Int /\ Y[m] \in Int /\ A[m] \in Int
    BY <1>4, <1>5, <2>1
  <2> DEFINE d == A[m]
             e == X[m]
             i == Y[m]
  <2>4. D(m + 1) = (m + 1) * (d + u * v) - (e + u) * (i + v)
    BY <2>2
  <2>5. Added(m) = d - v * e - u * i + m * (u * v) /\ D(m) = m * d - e * i
    OBVIOUS
  <2>6. d \in Int /\ e \in Int /\ i \in Int
    BY <2>3
  <2> HIDE DEF u, v, d, e, i
  <2>7. (m + 1) * (d + u * v) - (e + u) * (i + v) = (m * d - e * i) + (d - v * e - u * i + m * (u * v))
    BY <2>1, <2>3, <2>6, SMTT(30)
  <2>8. m * d \in Int /\ e * i \in Int /\ v * e \in Int /\ u * i \in Int
    BY <2>1, <2>3, <2>6
  <2>9. m * (u * v) \in Int
    <3>1. u * v \in Int
      BY <2>3
    <3> QED
      BY <2>1, <3>1
  <2>10. m * d - e * i \in Int /\ d - v * e - u * i + m * (u * v) \in Int
    BY <2>6, <2>8, <2>9
  <2> HIDE DEF D, Added
  <2> QED
    BY <2>4, <2>5, <2>7, <2>10
<1>10. ASSUME NEW m \in 1..(n - 1)
      PROVE  Added(m) >= 0 /\ (m = n - 1 => Added(m) > 0)
  <2> DEFINE r == x[m + 1] - x[1]
             s == y[m + 1] - y[1]
  <2>1. m + 1 \in 1..n /\ 1 \in 1..n /\ 1 < m + 1 /\ (m = n - 1 => m + 1 = n)
    OBVIOUS
  <2>2. r \in Nat /\ r > 0 /\ s \in Nat /\ (m = n - 1 => s > 0)
    BY <1>4, <2>1
  <2>3. Added(m) >= r * s /\ Added(m) \in Int
    BY <1>8, <1>9
  <2> HIDE DEF r, s, Added
  <2>4. r * s \in Int /\ r * s >= 0 /\ (s > 0 => r * s > 0)
    BY <2>2
  <2> DEFINE rs == r * s
  <2>5. rs \in Int /\ rs >= 0 /\ (m = n - 1 => rs > 0) /\ Added(m) >= rs
    BY <2>2, <2>3, <2>4
  <2> HIDE DEF rs
  <2> QED
    BY <2>3, <2>5
<1>11. D(n - 1) >= 0
  <2> DEFINE NotNeg == {m \in 1..(n - 1) : D(m) >= 0}
  <2>1. 1 \in NotNeg
    <3>1. A[1] = x[1] * y[1] /\ X[1] = x[1] /\ Y[1] = y[1] /\ x[1] \in Int /\ y[1] \in Int
      BY <1>4, <1>7
    <3>2. x[1] * y[1] \in Int
      BY <3>1
    <3>3. 1 * (x[1] * y[1]) - x[1] * y[1] = 0
      BY <3>2
    <3>4. D(1) = 0
      BY <3>1, <3>3
    <3> HIDE DEF D
    <3> QED
      BY <3>4
  <2>2. ASSUME NEW m \in 1..((n - 1) - 1), m \in NotNeg PROVE m + 1 \in NotNeg
    <3> HIDE DEF D, Added
    <3>1. m \in 1..(n - 1) /\ m + 1 \in 1..(n - 1)
      OBVIOUS
    <3> QED
      BY <1>9, <1>10, <2>2, <3>1
  <2>3. 1..(n - 1) \subseteq NotNeg
    <3>1. n - 1 \in Nat /\ 1 \in Nat
      OBVIOUS
    <3> HIDE DEF NotNeg
    <3> QED
      BY <2>1, <2>2, <3>1, FromTo
  <2>4. n - 1 \in 1..(n - 1)
    OBVIOUS
  <2> HIDE DEF D
  <2> QED
    BY <2>3, <2>4
<1>12. D(n) > 0
  <2>1. n - 1 \in 1..(n - 1) /\ (n - 1) + 1 = n
    OBVIOUS
  <2> HIDE DEF D, Added
  <2> QED
    BY <1>9, <1>10, <1>11, <2>1
<1> QED
  BY <1>1, <1>2, <1>3, <1>12

-------------------------------------------------------------------------------
(* The chart of a run: buckets *)

\* The least of a set of natural numbers is its Min.
LEMMA LeastIsMin ==
  ASSUME NEW S, S \subseteq Nat, S # {}
  PROVE  Min(S) \in S /\ \A y \in S : Min(S) <= y
<1>1. \E x \in S : \A y \in S : x <= y
  BY LeastId
<1> QED
  BY <1>1 DEF Min

\* A product grows with either factor.
LEMMA ProductGrows ==
  ASSUME NEW k \in Nat, NEW a \in Int, NEW b \in Int, a <= b
  PROVE  k * a <= k * b /\ a * k <= b * k
OBVIOUS

\* Division by rounding down, without division.
LEMMA Quotient ==
  ASSUME NEW a \in Nat, NEW n \in Nat \ {0}
  PROVE  /\ a \div n \in Nat
         /\ (a \div n) * n <= a /\ a < (a \div n) * n + n
OBVIOUS

\* There is only one number like that.
LEMMA QuotientIs ==
  ASSUME NEW a \in Nat, NEW n \in Nat \ {0}, NEW b \in Nat, b * n <= a, a < b * n + n
  PROVE  a \div n = b
<1> DEFINE q == a \div n
<1>1. q \in Nat /\ q * n <= a /\ a < q * n + n
  BY Quotient
<1> HIDE DEF q
<1>2. CASE q < b
  <2>1. (q + 1) * n <= b * n
    BY <1>1, <1>2, ProductGrows
  <2>2. (q + 1) * n = q * n + n
    BY <1>1
  <2> DEFINE qn == q * n
             bn == b * n
  <2>3. qn \in Int /\ bn \in Int /\ qn + n <= bn /\ a < qn + n /\ bn <= a
    BY <1>1, <2>1, <2>2
  <2> HIDE DEF qn, bn
  <2> QED
    BY <2>3
<1>3. CASE b < q
  <2>1. (b + 1) * n <= q * n
    BY <1>1, <1>3, ProductGrows
  <2>2. (b + 1) * n = b * n + n
    OBVIOUS
  <2> DEFINE qn == q * n
             bn == b * n
  <2>3. qn \in Int /\ bn \in Int /\ bn + n <= qn /\ a < bn + n /\ qn <= a
    BY <1>1, <2>1, <2>2
  <2> HIDE DEF qn, bn
  <2> QED
    BY <2>3
<1> QED
  BY <1>1, <1>2, <1>3 DEF q

\* The bucket of a rank, without division.
LEMMA BucketIs ==
  ASSUME NEW n \in Nat \ {0}, NEW B \in Nat \ {0}, NEW i \in 1..n
  PROVE  /\ Bucket(i, B, n) \in Nat
         /\ Bucket(i, B, n) * n <= (i - 1) * B /\ (i - 1) * B < Bucket(i, B, n) * n + n
         /\ Bucket(i, B, n) < B
<1> DEFINE a == (i - 1) * B
           q == a \div n
<1>1. a \in Nat
  BY ProductGrows
<1>2. q \in Nat /\ q * n <= a /\ a < q * n + n
  <2> HIDE DEF a
  <2> QED
    BY <1>1, Quotient
<1>3. a + B <= n * B
  <2>1. i * B <= n * B
    BY ProductGrows
  <2>2. i * B = (i - 1) * B + B
    OBVIOUS
  <2> QED
    BY <2>1, <2>2
<1>4. q < B
  <2> SUFFICES ASSUME B <= q PROVE FALSE
    <3> HIDE DEF q
    <3> QED
      BY <1>2
  <2> HIDE DEF q, a
  <2>1. n * B <= n * q
    BY <1>2, ProductGrows
  <2>2. n * q = q * n
    BY <1>2
  <2> DEFINE nB == n * B
             qn == q * n
  <2>3. nB \in Int /\ qn \in Int /\ nB <= qn /\ a + B <= nB /\ qn <= a
    BY <1>2, <1>3, <2>1, <2>2
  <2> HIDE DEF nB, qn
  <2> QED
    BY <1>1, <2>3
<1>5. Bucket(i, B, n) = q
  BY DEF Bucket
<1> HIDE DEF q
<1> QED
  BY <1>2, <1>4, <1>5

\* The bucket never falls with the rank.
LEMMA BucketRises ==
  ASSUME NEW n \in Nat \ {0}, NEW B \in Nat \ {0}, NEW i \in 1..n, NEW j \in 1..n, i <= j
  PROVE  Bucket(i, B, n) <= Bucket(j, B, n)
<1> DEFINE p == Bucket(i, B, n)
           q == Bucket(j, B, n)
<1>1. p \in Nat /\ q \in Nat /\ p * n <= (i - 1) * B /\ (j - 1) * B < q * n + n
  BY BucketIs
<1>2. (i - 1) * B <= (j - 1) * B
  BY ProductGrows
<1> SUFFICES ASSUME q < p PROVE FALSE
  BY <1>1
<1>3. (q + 1) * n <= p * n
  <2> HIDE DEF p, q
  <2> QED
    BY <1>1, ProductGrows
<1> HIDE DEF p, q
<1>4. (q + 1) * n = q * n + n
  BY <1>1
<1> DEFINE pn == p * n
           qn == q * n
           iB == (i - 1) * B
           jB == (j - 1) * B
<1>5. pn \in Int /\ qn \in Int /\ iB \in Int /\ jB \in Int
  BY <1>1
<1>6. pn <= iB /\ iB <= jB /\ jB < qn + n /\ qn + n <= pn
  BY <1>1, <1>2, <1>3, <1>4
<1> HIDE DEF pn, qn, iB, jB
<1> QED
  BY <1>5, <1>6

\* The p-th element of a set of numbers, in order.
NthOf(S, p) == CHOOSE b \in S : Cardinality({c \in S : c < b}) = p - 1

\* A set that a rising sequence enumerates has as many elements, and its n-th is the one with n - 1
\* below it.
LEMMA Enumerated ==
  ASSUME NEW N \in Nat, NEW h \in [1..N -> Nat],
         \A p \in 1..N, q \in 1..N : p < q => h[p] < h[q]
  PROVE  /\ Cardinality(Range(h)) = N
         /\ \A p \in 1..N : NthOf(Range(h), p) = h[p]
<1> DEFINE S == {h[p] : p \in 1..N}
<1>0. Range(h) = S
  BY DEF Range
<1>1. ASSUME NEW m \in 0..N PROVE Cardinality({h[p] : p \in 1..m}) = m
  <2> DEFINE T == {h[p] : p \in 1..m}
             g == [p \in 1..m |-> h[p]]
  <2>1. IsFiniteSet(1..m) /\ Cardinality(1..m) = m
    BY FS_Interval
  <2>2. g \in Surjection(1..m, T) /\ g \in Injection(1..m, T)
    <3>1. g \in [1..m -> T] /\ \A t \in T : \E p \in 1..m : g[p] = t
      OBVIOUS
    <3>2. ASSUME NEW p \in 1..m, NEW q \in 1..m, g[p] = g[q] PROVE p = q
      <4>1. p \in 1..N /\ q \in 1..N /\ h[p] = h[q] /\ h[p] \in Nat
        BY <3>2
      <4> QED
        BY <4>1
    <3> HIDE DEF g, T
    <3> QED
      BY <3>1, <3>2 DEF Surjection, Injection, IsInjective
  <2> HIDE DEF g, T
  <2>3. Cardinality(T) = Cardinality(1..m)
    BY <2>1, <2>2, FS_Surjection
  <2> QED
    BY <2>1, <2>3 DEF T
<1>2. Cardinality(S) = N
  <2>1. N \in 0..N
    OBVIOUS
  <2> QED
    BY <1>1, <2>1
<1> DEFINE Below(b) == Cardinality({c \in S : c < b})
<1>3. ASSUME NEW p \in 1..N PROVE Below(h[p]) = p - 1
  <2>1. {c \in S : c < h[p]} = {h[q] : q \in 1..(p - 1)}
    <3>1. ASSUME NEW c \in S, c < h[p] PROVE c \in {h[q] : q \in 1..(p - 1)}
      <4>1. PICK q \in 1..N : c = h[q]
        OBVIOUS
      <4>2. ~ (p <= q)
        BY <3>1, <4>1
      <4>3. q \in 1..(p - 1)
        BY <4>2
      <4> QED
        BY <4>1, <4>3
    <3>2. ASSUME NEW q \in 1..(p - 1) PROVE h[q] \in S /\ h[q] < h[p]
      OBVIOUS
    <3> QED
      BY <3>1, <3>2
  <2>2. p - 1 \in 0..N
    OBVIOUS
  <2> QED
    BY <1>1, <2>1, <2>2
<1>4. ASSUME NEW p \in 1..N PROVE NthOf(S, p) = h[p]
  <2>1. h[p] \in S /\ Below(h[p]) = p - 1
    BY <1>3
  <2>2. ASSUME NEW b \in S, Below(b) = p - 1 PROVE b = h[p]
    <3>1. PICK q \in 1..N : b = h[q]
      OBVIOUS
    <3>2. q - 1 = p - 1
      BY <1>3, <2>2, <3>1
    <3> QED
      BY <3>1, <3>2
  <2>3. NthOf(S, p) = CHOOSE b \in S : Below(b) = p - 1
    BY DEF NthOf
  <2> HIDE DEF Below
  <2> QED
    BY <2>1, <2>2, <2>3
<1> QED
  BY <1>0, <1>2, <1>4

\* Of two products with the same factor, the less has the lesser other one.
LEMMA FactorIsLess ==
  ASSUME NEW k \in Nat, NEW a \in Int, NEW b \in Int, a * k < b * k
  PROVE  a < b
<1> SUFFICES ASSUME b <= a PROVE FALSE
  OBVIOUS
<1>1. b * k <= a * k
  BY ProductGrows
<1> DEFINE ak == a * k
           bk == b * k
<1>2. ak \in Int /\ bk \in Int /\ ak < bk /\ bk <= ak
  BY <1>1
<1> HIDE DEF ak, bk
<1> QED
  BY <1>2

\* With no fewer ranks than buckets, every bucket is used.
LEMMA EveryBucket ==
  ASSUME NEW n \in Nat \ {0}, NEW B \in Nat \ {0}, B <= n, NEW b \in 0..(B - 1)
  PROVE  \E i \in 1..n : Bucket(i, B, n) = b
<1> DEFINE bn == b * n
           R == {r \in Nat : bn <= r * B}
<1>1. bn \in Nat
  BY ProductGrows
<1>2. n - 1 \in R
  <2>1. b * n <= (B - 1) * n
    BY ProductGrows
  <2>2. (B - 1) * n = B * n - n /\ (n - 1) * B = B * n - B
    OBVIOUS
  <2> DEFINE Bn == B * n
  <2>3. Bn \in Int /\ bn <= Bn - n /\ (n - 1) * B = Bn - B
    BY <2>1, <2>2
  <2> HIDE DEF Bn, bn
  <2> QED
    BY <1>1, <2>3
<1>3. PICK r \in R : \A l \in R : r <= l
  <2>1. R \subseteq Nat
    OBVIOUS
  <2> HIDE DEF R
  <2> QED
    BY <1>2, <2>1, LeastId
<1> DEFINE rB == r * B
<1>4. r \in 0..(n - 1) /\ bn <= rB
  BY <1>2, <1>3
<1>5. rB < bn + n /\ rB \in Nat
  <2>1. CASE r = 0
    <3>1. rB = 0
      BY <2>1
    <3> HIDE DEF rB, bn
    <3> QED
      BY <1>1, <3>1
  <2>2. CASE r # 0
    <3>1. r - 1 \in Nat /\ r - 1 \notin R
      BY <1>3, <1>4, <2>2
    <3>2. ~ (bn <= (r - 1) * B)
      <4> HIDE DEF bn
      <4> QED
        BY <3>1
    <3>3. (r - 1) * B = rB - B /\ rB \in Nat
      <4>1. r \in Nat
        BY <1>4
      <4> HIDE DEF R
      <4> QED
        BY <4>1
    <3> HIDE DEF rB, bn
    <3> QED
      BY <1>1, <3>2, <3>3
  <2> QED
    BY <2>1, <2>2
<1>6. rB \div n = b
  <2> HIDE DEF rB
  <2> QED
    BY <1>4, <1>5, QuotientIs
<1>7. r + 1 \in 1..n /\ (r + 1) - 1 = r
  BY <1>4
<1> HIDE DEF R
<1>8. Bucket(r + 1, B, n) = b
  BY <1>6, <1>7 DEF Bucket
<1> QED
  BY <1>7, <1>8

\* With fewer ranks than buckets, every rank has a bucket of its own.
LEMMA OwnBucket ==
  ASSUME NEW n \in Nat \ {0}, NEW B \in Nat \ {0}, n < B, NEW i \in 1..n, NEW j \in 1..n, i < j
  PROVE  Bucket(i, B, n) < Bucket(j, B, n)
<1> DEFINE p == Bucket(i, B, n)
           q == Bucket(j, B, n)
<1>1. p \in Nat /\ q \in Nat /\ p * n <= (i - 1) * B /\ (j - 1) * B < q * n + n
  BY BucketIs
<1>2. i * B <= (j - 1) * B
  BY ProductGrows
<1>3. (i - 1) * B = i * B - B
  OBVIOUS
<1> SUFFICES ASSUME q <= p PROVE FALSE
  BY <1>1
<1>4. q * n <= p * n
  <2> HIDE DEF p, q
  <2> QED
    BY <1>1, ProductGrows
<1> DEFINE pn == p * n
           qn == q * n
           iB == i * B
           jB == (j - 1) * B
<1> HIDE DEF p, q
<1>5. pn \in Int /\ qn \in Int /\ iB \in Int /\ jB \in Int
  BY <1>1
<1>6. pn <= iB - B /\ iB <= jB /\ jB < qn + n /\ qn <= pn
  BY <1>1, <1>2, <1>3, <1>4
<1> HIDE DEF pn, qn, iB, jB
<1> QED
  BY <1>5, <1>6

\* The ranks of a bucket are as many as an even cut gives, or one more.
LEMMA EvenCut ==
  ASSUME NEW n \in Nat \ {0}, NEW B \in Nat \ {0}, B <= n, NEW b \in Nat,
         NEW a \in 1..n, NEW c \in a..n, {i \in 1..n : Bucket(i, B, n) = b} = a..c
  PROVE  (c - a + 1) - n \div B \in {0, 1}
<1> DEFINE bn == b * n
           d == n \div B
           m == c - a + 1
<1>1. Bucket(a, B, n) = b /\ Bucket(c, B, n) = b
  <2>1. a \in a..c /\ c \in a..c
    OBVIOUS
  <2> QED
    BY <2>1
<1>2. bn \in Nat /\ bn <= (a - 1) * B /\ (c - 1) * B < bn + n /\ b < B
  BY <1>1, BucketIs, ProductGrows
<1>3. (a - 2) * B < bn
  <2>1. CASE a = 1
    <3>1. (a - 2) * B = -B
      BY <2>1
    <3> HIDE DEF bn
    <3> QED
      BY <1>2, <3>1
  <2>2. CASE a # 1
    <3> DEFINE q == Bucket(a - 1, B, n)
    <3>1. a - 1 \in 1..n /\ a - 1 <= a /\ a - 1 \notin a..c /\ (a - 1) - 1 = a - 2
      BY <2>2
    <3>2. q # b /\ q <= b
      BY <1>1, <3>1, BucketRises
    <3>3. q \in Nat /\ (a - 2) * B < q * n + n
      BY <3>1, BucketIs
    <3> HIDE DEF q
    <3>4. (q + 1) * n <= b * n
      BY <3>2, <3>3, ProductGrows
    <3>5. (q + 1) * n = q * n + n
      BY <3>3
    <3> DEFINE qn == q * n
               aB == (a - 2) * B
    <3>6. qn \in Int /\ aB \in Int /\ qn + n <= bn /\ aB < qn + n
      BY <3>3, <3>4, <3>5
    <3> HIDE DEF qn, aB, bn
    <3>7. aB < bn
      BY <1>2, <3>6
    <3> QED
      BY <3>7 DEF aB
  <2> QED
    BY <2>1, <2>2
<1>4. bn + n <= c * B
  <2>1. (b + 1) * n = bn + n
    OBVIOUS
  <2>2. CASE c = n
    <3>1. (b + 1) * n <= B * n
      BY <1>2, ProductGrows
    <3>2. B * n = c * B
      BY <2>2
    <3> QED
      BY <2>1, <3>1, <3>2
  <2>3. CASE c # n
    <3> DEFINE q == Bucket(c + 1, B, n)
    <3>1. c + 1 \in 1..n /\ c \in 1..n /\ c <= c + 1 /\ c + 1 \notin a..c /\ (c + 1) - 1 = c
      BY <2>3
    <3>2. q # b /\ b <= q
      BY <1>1, <3>1, BucketRises
    <3>3. q \in Nat /\ q * n <= c * B
      BY <3>1, BucketIs
    <3> HIDE DEF q
    <3>4. (b + 1) * n <= q * n
      BY <3>2, <3>3, ProductGrows
    <3> DEFINE qn == q * n
               cB == c * B
    <3>5. qn \in Int /\ cB \in Int /\ bn + n <= qn /\ qn <= cB
      BY <2>1, <3>3, <3>4
    <3> HIDE DEF qn, cB, bn
    <3>6. bn + n <= cB
      BY <1>2, <3>5
    <3> QED
      BY <3>6 DEF cB
  <2> QED
    BY <2>2, <2>3
<1>5. d \in Nat /\ d * B <= n /\ n < d * B + B
  BY Quotient
<1> DEFINE aB == a * B
           cB == c * B
           dB == d * B
           mB == m * B
<1>6. /\ (a - 1) * B = aB - B /\ (a - 2) * B = aB - 2 * B /\ (c - 1) * B = cB - B
      /\ mB = cB - aB + B /\ aB \in Int /\ cB \in Int
  OBVIOUS
<1>7. (d + 1) * B = dB + B /\ dB \in Int /\ (m - 1) * B = mB - B /\ (m + 1) * B = mB + B /\ mB \in Int /\ m \in Int
  <2>1. m \in Int
    OBVIOUS
  <2> HIDE DEF d, m
  <2> QED
    BY <1>5, <2>1
<1>8. mB - B < dB + B /\ dB < mB + B
  <2>1. /\ bn <= aB - B /\ cB - B < bn + n /\ aB - 2 * B < bn /\ bn + n <= cB
        /\ dB <= n /\ n < dB + B
    BY <1>2, <1>3, <1>4, <1>5, <1>6
  <2> HIDE DEF aB, cB, dB, mB, bn, m, d
  <2> QED
    BY <1>2, <1>6, <1>7, <2>1
<1> HIDE DEF d, m, aB, cB, dB, bn
<1>9. m - 1 < d + 1
  <2>1. (m - 1) * B < (d + 1) * B
    BY <1>7, <1>8
  <2>2. m - 1 \in Int /\ d + 1 \in Int
    BY <1>5, <1>7
  <2> QED
    BY <2>1, <2>2, FactorIsLess
<1>10. d < m + 1
  <2>1. d * B < (m + 1) * B
    BY <1>7, <1>8 DEF dB
  <2>2. m + 1 \in Int /\ d \in Int
    BY <1>5, <1>7
  <2> QED
    BY <2>1, <2>2, FactorIsLess
<1> HIDE DEF mB
<1>11. m - d \in {0, 1}
  BY <1>5, <1>7, <1>9, <1>10
<1> QED
  BY <1>11 DEF m, d

\* As many points as were asked for, or as there are samples.
PointsOf(n, B) == IF B <= n THEN B ELSE n

\* The buckets that are used, in order.
LEMMA UsedInOrder ==
  ASSUME NEW n \in Nat \ {0}, NEW B \in Nat \ {0}
  PROVE  \E h \in [1..PointsOf(n, B) -> Nat] :
           /\ \A p \in 1..PointsOf(n, B), q \in 1..PointsOf(n, B) : p < q => h[p] < h[q]
           /\ {Bucket(i, B, n) : i \in 1..n} = {h[p] : p \in 1..PointsOf(n, B)}
<1> DEFINE N == PointsOf(n, B)
<1>1. CASE B <= n
  <2> DEFINE h == [p \in 1..N |-> p - 1]
  <2>1. N = B
    BY <1>1 DEF PointsOf
  <2>2. h \in [1..N -> Nat] /\ \A p \in 1..N, q \in 1..N : p < q => h[p] < h[q]
    BY <2>1
  <2>3. ASSUME NEW i \in 1..n PROVE Bucket(i, B, n) \in {h[p] : p \in 1..N}
    <3> DEFINE b == Bucket(i, B, n)
    <3>1. b \in Nat /\ b < B
      BY BucketIs
    <3> HIDE DEF b
    <3>2. b + 1 \in 1..N /\ h[b + 1] = b
      BY <2>1, <3>1
    <3> QED
      BY <3>2 DEF b
  <2>4. ASSUME NEW p \in 1..N PROVE h[p] \in {Bucket(i, B, n) : i \in 1..n}
    <3>1. p - 1 \in 0..(B - 1) /\ h[p] = p - 1
      BY <2>1
    <3> QED
      BY <1>1, <3>1, EveryBucket
  <2> HIDE DEF h, N
  <2>5. {Bucket(i, B, n) : i \in 1..n} = {h[p] : p \in 1..N}
    BY <2>3, <2>4
  <2> QED
    BY <2>2, <2>5 DEF N
<1>2. CASE ~ (B <= n)
  <2> DEFINE h == [p \in 1..N |-> Bucket(p, B, n)]
  <2>1. N = n /\ n < B
    BY <1>2 DEF PointsOf
  <2>2. h \in [1..N -> Nat]
    BY <2>1, BucketIs
  <2>3. \A p \in 1..N, q \in 1..N : p < q => h[p] < h[q]
    BY <2>1, OwnBucket
  <2>4. {Bucket(i, B, n) : i \in 1..n} = {h[p] : p \in 1..N}
    BY <2>1
  <2> HIDE DEF h, N
  <2> QED
    BY <2>2, <2>3, <2>4 DEF N
<1> QED
  BY <1>1, <1>2

\* The n-th bucket that is used holds the ranks from F[n] to the one before F[n + 1].
CutAt(n, B, h, F) ==
  /\ F \in [1..(PointsOf(n, B) + 1) -> 1..(n + 1)]
  /\ F[1] = 1 /\ F[PointsOf(n, B) + 1] = n + 1
  /\ \A p \in 1..PointsOf(n, B) :
       /\ F[p] < F[p + 1]
       /\ {i \in 1..n : Bucket(i, B, n) = h[p]} = F[p]..(F[p + 1] - 1)
       /\ (F[p + 1] - F[p]) - n \div PointsOf(n, B) \in {0, 1}

\* Every used bucket holds the ranks between two cuts, as many as an even cut gives or one more.
LEMMA RanksAreCut ==
  ASSUME NEW n \in Nat \ {0}, NEW B \in Nat \ {0}, NEW h \in [1..PointsOf(n, B) -> Nat],
         \A p \in 1..PointsOf(n, B), q \in 1..PointsOf(n, B) : p < q => h[p] < h[q],
         {Bucket(i, B, n) : i \in 1..n} = {h[p] : p \in 1..PointsOf(n, B)}
  PROVE  \E F : CutAt(n, B, h, F)
<1> DEFINE N == PointsOf(n, B)
           G(i) == Bucket(i, B, n)
           At(p) == {i \in 1..n : G(i) = h[p]}
           F == [p \in 1..(N + 1) |-> IF p = N + 1 THEN n + 1 ELSE Min(At(p))]
<1>1. N \in Nat /\ N >= 1 /\ N <= n
  BY DEF PointsOf
<1>2. \A i \in 1..n : G(i) \in Nat /\ \E p \in 1..N : G(i) = h[p]
  BY BucketIs
<1>3. \A i \in 1..n, j \in 1..n : i <= j => G(i) <= G(j)
  BY BucketRises
<1>4. ASSUME NEW p \in 1..N PROVE F[p] \in At(p) /\ \A i \in At(p) : F[p] <= i
  <2>1. At(p) # {}
    <3>1. h[p] \in {Bucket(i, B, n) : i \in 1..n}
      OBVIOUS
    <3> QED
      BY <3>1
  <2>2. At(p) \subseteq Nat
    OBVIOUS
  <2>3. p # N + 1 /\ p \in 1..(N + 1)
    BY <1>1
  <2>4. F[p] = Min(At(p))
    BY <2>3
  <2> HIDE DEF At, F
  <2> QED
    BY <2>1, <2>2, <2>4, LeastIsMin
<1>5. F[N + 1] = n + 1
  BY <1>1
<1> HIDE DEF F, G, N
<1>6. ASSUME NEW p \in 1..N PROVE F[p] \in 1..n /\ G(F[p]) = h[p]
  BY <1>4
<1>7. F \in [1..(N + 1) -> 1..(n + 1)]
  <2>1. ASSUME NEW p \in 1..(N + 1) PROVE F[p] \in 1..(n + 1)
    <3>1. p \in 1..N \/ p = N + 1
      BY <1>1
    <3> QED
      BY <1>5, <1>6, <3>1
  <2>2. F = [p \in 1..(N + 1) |-> F[p]]
    BY DEF F
  <2> QED
    BY <2>1, <2>2
<1>8. F[1] = 1
  <2>1. 1 \in 1..N /\ 1 \in 1..n
    BY <1>1
  <2>2. PICK p \in 1..N : G(1) = h[p]
    BY <1>2, <2>1
  <2>3. h[p] <= h[1]
    BY <1>3, <1>6, <2>1, <2>2
  <2>4. p = 1
    <3>1. ~ (1 < p)
      <4>1. h[p] \in Nat /\ h[1] \in Nat /\ (1 < p => h[1] < h[p])
        BY <2>1 DEF N
      <4> QED
        BY <2>3, <4>1
    <3> QED
      BY <3>1
  <2>5. 1 \in At(1)
    BY <2>1, <2>2, <2>4
  <2> QED
    BY <1>4, <1>6, <2>1, <2>5
<1>9. ASSUME NEW p \in 1..N
      PROVE  F[p] < F[p + 1] /\ At(p) = F[p]..(F[p + 1] - 1)
  <2>1. F[p] \in 1..n /\ G(F[p]) = h[p] /\ p + 1 \in 1..(N + 1)
    BY <1>1, <1>6
  <2>2. CASE p = N
    <3>1. F[p + 1] = n + 1
      BY <1>5, <2>2
    <3>2. ASSUME NEW i \in F[p]..n PROVE i \in At(p)
      <4>1. i \in 1..n
        BY <2>1
      <4>2. PICK q \in 1..N : G(i) = h[q]
        BY <1>2, <4>1
      <4>3. h[p] <= h[q]
        BY <1>3, <2>1, <4>1, <4>2
      <4>4. ~ (q < p)
        <5>1. h[p] \in Nat /\ h[q] \in Nat /\ (q < p => h[q] < h[p])
          BY DEF N
        <5> QED
          BY <4>3, <5>1
      <4>5. q = p
        BY <1>1, <2>2, <4>4
      <4> QED
        BY <4>1, <4>2, <4>5
    <3>3. \A i \in At(p) : i \in F[p]..n
      BY <1>4, <2>1
    <3>4. At(p) = F[p]..n
      <4> HIDE DEF At
      <4> QED
        BY <3>2, <3>3
    <3> QED
      BY <2>1, <3>1, <3>4
  <2>3. CASE p # N
    <3>1. p + 1 \in 1..N
      BY <1>1, <2>3
    <3>2. F[p + 1] \in 1..n /\ G(F[p + 1]) = h[p + 1] /\ h[p] < h[p + 1]
          /\ h[p] \in Nat /\ h[p + 1] \in Nat
      BY <1>6, <3>1 DEF N
    <3>3. F[p] < F[p + 1]
      <4>1. ~ (F[p + 1] <= F[p])
        BY <1>3, <2>1, <3>2
      <4> QED
        BY <2>1, <3>2, <4>1
    <3>4. ASSUME NEW i \in F[p]..(F[p + 1] - 1) PROVE i \in At(p)
      <4>1. i \in 1..n /\ F[p] <= i /\ i <= F[p + 1] /\ ~ (F[p + 1] <= i)
        BY <2>1, <3>2
      <4>2. PICK q \in 1..N : G(i) = h[q]
        BY <1>2, <4>1
      <4>3. h[p] <= h[q] /\ h[q] <= h[p + 1]
        BY <1>3, <2>1, <3>2, <4>1, <4>2
      <4>4. i \notin At(p + 1)
        BY <1>4, <3>1, <4>1
      <4>5. q # p + 1
        BY <4>1, <4>2, <4>4
      <4>6. ~ (q < p) /\ ~ (p + 1 < q)
        <5>1. h[q] \in Nat /\ (q < p => h[q] < h[p]) /\ (p + 1 < q => h[p + 1] < h[q])
          BY <3>1 DEF N
        <5> QED
          BY <3>2, <4>3, <5>1
      <4>7. q = p
        BY <4>5, <4>6
      <4> QED
        BY <4>1, <4>2, <4>7
    <3>5. ASSUME NEW i \in At(p) PROVE i \in F[p]..(F[p + 1] - 1)
      <4>1. i \in 1..n /\ G(i) = h[p] /\ F[p] <= i
        BY <1>4
      <4>2. ~ (F[p + 1] <= i)
        BY <1>3, <3>2, <4>1
      <4> QED
        BY <2>1, <3>2, <4>1, <4>2
    <3>6. At(p) = F[p]..(F[p + 1] - 1)
      <4> HIDE DEF At
      <4> QED
        BY <3>4, <3>5
    <3> QED
      BY <3>3, <3>6
  <2> QED
    BY <2>2, <2>3
<1>10. ASSUME NEW p \in 1..N PROVE (F[p + 1] - F[p]) - n \div N \in {0, 1}
  <2> DEFINE a == F[p]
             c == F[p + 1] - 1
  <2>1. p \in 1..(N + 1) /\ p + 1 \in 1..(N + 1)
    BY <1>1
  <2>2. a \in 1..n /\ F[p + 1] \in 1..(n + 1) /\ a < F[p + 1]
    BY <1>6, <1>7, <1>9, <2>1
  <2>3. c \in a..n /\ F[p + 1] - F[p] = c - a + 1
    BY <2>2
  <2>4. {i \in 1..n : Bucket(i, B, n) = h[p]} = a..c /\ h[p] \in Nat
    BY <1>9 DEF G, N
  <2>5. CASE B <= n
    <3>1. N = B
      BY <2>5 DEF N, PointsOf
    <3> HIDE DEF a, c
    <3> QED
      BY <2>2, <2>3, <2>4, <2>5, <3>1, EvenCut
  <2>6. CASE ~ (B <= n)
    <3>1. N = n /\ n < B
      BY <2>6 DEF N, PointsOf
    <3> HIDE DEF a, c
    <3>2. a \in 1..n /\ c \in 1..n /\ a \in a..c /\ c \in a..c
      BY <2>2, <2>3
    <3>3. Bucket(a, B, n) = h[p] /\ Bucket(c, B, n) = h[p]
      BY <2>4, <3>2
    <3>4. ~ (a < c)
      <4>1. a < c => Bucket(a, B, n) < Bucket(c, B, n)
        BY <3>1, <3>2, OwnBucket
      <4> QED
        BY <2>4, <3>3, <4>1
    <3>5. c = a
      BY <2>2, <2>3, <3>4
    <3>6. n \div n = 1
      <4>1. 1 * n <= n /\ n < 1 * n + n
        OBVIOUS
      <4> QED
        BY <4>1, QuotientIs
    <3> QED
      BY <2>2, <2>3, <3>1, <3>5, <3>6
  <2> QED
    BY <2>5, <2>6
<1>11. \A p \in 1..N : {i \in 1..n : Bucket(i, B, n) = h[p]} = F[p]..(F[p + 1] - 1)
  BY <1>9 DEF G
<1>12. CutAt(n, B, h, F)
  BY <1>5, <1>7, <1>8, <1>9, <1>10, <1>11 DEF CutAt, N
<1> QED
  BY <1>12

\* A chart whose p-th point stands for the samples from F[p] to the one before F[p + 1].
ChartOf(s, B, points, F) ==
  LET n == Len(s)
      N == PointsOf(n, B)
  IN /\ DOMAIN points = 1..N /\ Len(points) = N
     /\ F \in [1..(N + 1) -> 1..(n + 1)] /\ F[1] = 1 /\ F[N + 1] = n + 1
     /\ \A p \in 1..N :
          /\ F[p] < F[p + 1]
          /\ (F[p + 1] - F[p]) - n \div N \in {0, 1}
          /\ points[p].first = F[p] /\ points[p].count = F[p + 1] - F[p]
          /\ points[p].sum = SumOver(s, F[p]..(F[p + 1] - 1))
          /\ points[p].minimum = Min({s[i] : i \in F[p]..(F[p + 1] - 1)})
          /\ points[p].maximum = Max({s[i] : i \in F[p]..(F[p + 1] - 1)})

\* Downsampling makes such a chart.
LEMMA SamplesAreCharted ==
  ASSUME NEW s \in Seq(Values), s # <<>>, NEW B \in Nat \ {0}
  PROVE  \E F : ChartOf(s, B, DownsampleSamples(s, B), F)
<1> DEFINE n == Len(s)
           N == PointsOf(n, B)
           points == DownsampleSamples(s, B)
           used == {Bucket(i, B, n) : i \in DOMAIN s}
           nth(p) == CHOOSE b \in used : Cardinality({c \in used : c < b}) = p - 1
           At(b) == {i \in DOMAIN s : Bucket(i, B, n) = b}
           point(I) == [count |-> Cardinality(I), sum |-> SumOver(s, I), first |-> Min(I),
                        minimum |-> Min({s[i] : i \in I}), maximum |-> Max({s[i] : i \in I})]
<1>1. n \in Nat \ {0} /\ DOMAIN s = 1..n
  BY EmptySeq
<1>2. N \in Nat /\ N >= 1
  BY <1>1 DEF PointsOf
<1>3. points = [p \in 1..Cardinality(used) |-> point(At(nth(p)))]
  BY DEF DownsampleSamples
<1>4. PICK h \in [1..N -> Nat] :
        /\ \A p \in 1..N, q \in 1..N : p < q => h[p] < h[q]
        /\ {Bucket(i, B, n) : i \in 1..n} = {h[p] : p \in 1..N}
  <2> HIDE DEF n
  <2> QED
    BY <1>1, UsedInOrder
<1>5. PICK F : CutAt(n, B, h, F)
  <2> HIDE DEF n
  <2> QED
    BY <1>1, <1>4, RanksAreCut
<1>6. Cardinality(used) = N /\ \A p \in 1..N : nth(p) = h[p]
  <2>1. used = Range(h)
    BY <1>1, <1>4 DEF Range
  <2>3. \A p \in 1..N, q \in 1..N : p < q => h[p] < h[q]
    BY <1>4
  <2> HIDE DEF used, N
  <2>2. Cardinality(Range(h)) = N /\ \A p \in 1..N : NthOf(Range(h), p) = h[p]
    BY <1>2, <2>3, Enumerated
  <2> QED
    BY <2>1, <2>2 DEF NthOf
<1>7. /\ F \in [1..(N + 1) -> 1..(n + 1)] /\ F[1] = 1 /\ F[N + 1] = n + 1
      /\ \A p \in 1..N : F[p] < F[p + 1] /\ (F[p + 1] - F[p]) - n \div N \in {0, 1}
  BY <1>5 DEF CutAt
<1>8. ASSUME NEW p \in 1..N
      PROVE  points[p] = point(F[p]..(F[p + 1] - 1))
  <2>1. points[p] = point(At(nth(p)))
    <3> HIDE DEF points, used, nth, At, point, N
    <3> QED
      BY <1>3, <1>6
  <2>2. nth(p) = h[p]
    BY <1>6
  <2>3. At(h[p]) = F[p]..(F[p + 1] - 1)
    BY <1>1, <1>5 DEF CutAt
  <2> HIDE DEF point, At, nth
  <2> QED
    BY <2>1, <2>2, <2>3
<1>9. DOMAIN points = 1..N /\ Len(points) = N
  <2>1. points = [p \in 1..N |-> point(At(nth(p)))]
    <3> HIDE DEF points, used, nth, At, point, N
    <3> QED
      BY <1>3, <1>6
  <2>2. DOMAIN points = 1..N
    <3> HIDE DEF points, used, nth, At, point, N
    <3> QED
      BY <2>1
  <2> HIDE DEF points, N
  <2> QED
    BY <1>2, <2>2
<1>10. ASSUME NEW p \in 1..N
       PROVE  /\ points[p].first = F[p] /\ points[p].count = F[p + 1] - F[p]
              /\ points[p].sum = SumOver(s, F[p]..(F[p + 1] - 1))
              /\ points[p].minimum = Min({s[i] : i \in F[p]..(F[p + 1] - 1)})
              /\ points[p].maximum = Max({s[i] : i \in F[p]..(F[p + 1] - 1)})
  <2> DEFINE a == F[p]
             c == F[p + 1] - 1
             I == a..c
  <2>1. p \in 1..(N + 1) /\ p + 1 \in 1..(N + 1)
    BY <1>2
  <2>2. a \in Nat /\ F[p + 1] \in Nat /\ a < F[p + 1]
    BY <1>7, <2>1
  <2>3. c \in Nat /\ a <= c /\ (c - a) + 1 = F[p + 1] - F[p]
    BY <2>2
  <2>4. Cardinality(I) = F[p + 1] - F[p]
    <3> HIDE DEF a, c
    <3> QED
      BY <2>2, <2>3, FS_Interval
  <2>5. Min(I) = a
    <3> HIDE DEF a, c
    <3>1. I \subseteq Nat /\ a \in I /\ \A i \in I : a <= i
      BY <2>2, <2>3
    <3> HIDE DEF I
    <3>2. Min(I) \in I /\ Min(I) <= a /\ a <= Min(I)
      BY <3>1, LeastIsMin
    <3>3. Min(I) \in Nat
      BY <3>1, <3>2
    <3> QED
      BY <2>2, <3>2, <3>3
  <2>6. points[p] = point(I)
    BY <1>8
  <2>7. /\ point(I).first = Min(I) /\ point(I).count = Cardinality(I) /\ point(I).sum = SumOver(s, I)
        /\ point(I).minimum = Min({s[i] : i \in I}) /\ point(I).maximum = Max({s[i] : i \in I})
    <3> HIDE DEF I
    <3> QED
      OBVIOUS
  <2>8. /\ points[p].first = Min(I) /\ points[p].count = Cardinality(I) /\ points[p].sum = SumOver(s, I)
        /\ points[p].minimum = Min({s[i] : i \in I}) /\ points[p].maximum = Max({s[i] : i \in I})
    <3> HIDE DEF points, point, I
    <3> QED
      BY <2>6, <2>7
  <2> HIDE DEF points
  <2> QED
    BY <2>4, <2>5, <2>8
<1> HIDE DEF points
<1>11. ChartOf(s, B, points, F)
  BY <1>7, <1>9, <1>10 DEF ChartOf
<1> QED
  BY <1>11 DEF points

\* Such a chart has all the points it may, evenly cut, each with its own samples and extremes.
LEMMA ChartIsComplete ==
  ASSUME NEW s \in Seq(Values), s # <<>>, NEW B \in Nat \ {0}
  PROVE  LET points == DownsampleSamples(s, B)
             last(n) == IF n = Len(points) THEN Len(s) ELSE points[n + 1].first - 1
         IN /\ Len(points) = Min({B, Len(s)})
            /\ \A n \in DOMAIN points :
                 LET seen == {s[i] : i \in points[n].first..last(n)}
                 IN /\ points[n].count = last(n) - points[n].first + 1
                    /\ points[n].count - Len(s) \div Len(points) \in {0, 1}
                    /\ points[n].minimum = Min(seen) /\ points[n].maximum = Max(seen)
<1> DEFINE points == DownsampleSamples(s, B)
           n == Len(s)
           N == PointsOf(n, B)
           last(p) == IF p = Len(points) THEN Len(s) ELSE points[p + 1].first - 1
           seen(p) == {s[i] : i \in points[p].first..last(p)}
<1>1. n \in Nat \ {0}
  BY EmptySeq
<1>2. N \in Nat /\ N >= 1
  BY <1>1 DEF PointsOf
<1>3. PICK F : ChartOf(s, B, points, F)
  BY SamplesAreCharted
<1> HIDE DEF points
<1>4. /\ DOMAIN points = 1..N /\ Len(points) = N
      /\ F \in [1..(N + 1) -> 1..(n + 1)] /\ F[1] = 1 /\ F[N + 1] = n + 1
  BY <1>3 DEF ChartOf
<1>5. ASSUME NEW p \in 1..N
      PROVE  /\ F[p] < F[p + 1] /\ (F[p + 1] - F[p]) - n \div N \in {0, 1}
             /\ points[p].first = F[p] /\ points[p].count = F[p + 1] - F[p]
             /\ points[p].minimum = Min({s[i] : i \in F[p]..(F[p + 1] - 1)})
             /\ points[p].maximum = Max({s[i] : i \in F[p]..(F[p + 1] - 1)})
  BY <1>3 DEF ChartOf
<1>6. Len(points) = Min({B, n})
  <2>1. {B, n} \subseteq Nat /\ {B, n} # {}
    BY <1>1
  <2>2. Min({B, n}) \in {B, n} /\ Min({B, n}) <= B /\ Min({B, n}) <= n
    BY <2>1, LeastIsMin
  <2> HIDE DEF n
  <2>3. Min({B, n}) = N
    BY <1>1, <2>2 DEF PointsOf
  <2> QED
    BY <1>4, <2>3
<1>7. ASSUME NEW p \in 1..N PROVE last(p) = F[p + 1] - 1
  <2>1. CASE p = N
    <3>1. last(p) = n /\ F[p + 1] = n + 1
      BY <1>4, <2>1
    <3> QED
      BY <1>1, <3>1
  <2>2. CASE p # N
    <3>1. p + 1 \in 1..N
      BY <1>2, <2>2
    <3>2. points[p + 1].first = F[p + 1]
      BY <1>5, <3>1
    <3> QED
      BY <1>4, <2>2, <3>2
  <2> QED
    BY <2>1, <2>2
<1>8. ASSUME NEW p \in 1..N
      PROVE  /\ points[p].count = last(p) - points[p].first + 1
             /\ points[p].count - Len(s) \div Len(points) \in {0, 1}
             /\ points[p].minimum = Min(seen(p)) /\ points[p].maximum = Max(seen(p))
  <2>1. p \in 1..(N + 1) /\ p + 1 \in 1..(N + 1)
    BY <1>2
  <2>2. F[p] \in Nat /\ F[p + 1] \in Nat
    BY <1>4, <2>1
  <2>3. seen(p) = {s[i] : i \in F[p]..(F[p + 1] - 1)}
    BY <1>5, <1>7
  <2>4. last(p) = F[p + 1] - 1
    BY <1>7
  <2> HIDE DEF seen, last, n
  <2>5. points[p].minimum = Min(seen(p)) /\ points[p].maximum = Max(seen(p))
    BY <1>5, <2>3
  <2>6. points[p].count = last(p) - points[p].first + 1
    <3>1. points[p].count = F[p + 1] - F[p] /\ points[p].first = F[p]
      BY <1>5
    <3>2. F[p + 1] - F[p] = (F[p + 1] - 1) - F[p] + 1
      BY <2>2
    <3> QED
      BY <2>4, <3>1, <3>2
  <2>7. points[p].count - n \div Len(points) \in {0, 1}
    BY <1>4, <1>5
  <2> QED
    BY <2>5, <2>6, <2>7 DEF n
<1>9. \A p \in DOMAIN points :
         /\ points[p].count = last(p) - points[p].first + 1
         /\ points[p].count - Len(s) \div Len(points) \in {0, 1}
         /\ points[p].minimum = Min(seen(p)) /\ points[p].maximum = Max(seen(p))
  <2> HIDE DEF seen, last
  <2> QED
    BY <1>4, <1>8
<1> QED
  BY <1>6, <1>9 DEF points

-------------------------------------------------------------------------------
(* The chart of a run: its trend *)

\* A mean lies between the ends of what it is the mean of, strictly where they differ.
LEMMA MeanBetween ==
  ASSUME NEW k \in Nat \ {0}, NEW m \in Nat, NEW a \in Int, NEW z \in Int, NEW sum \in Int,
         a <= z, m * a + z <= sum, sum <= m * z + a,
         NEW W \in Nat, (m + 1) * k = W
  PROVE  /\ W * a <= sum * k /\ sum * k <= W * z
         /\ a < z => W * a < sum * k /\ sum * k < W * z
<1> DEFINE low == m * a + z
           high == m * z + a
           gap == k * (z - a)
<1>1. low \in Int /\ high \in Int /\ low <= sum /\ sum <= high
  OBVIOUS
<1>2. low * k = W * a + gap /\ high * k = W * z - gap
  <2>1. (m * a + z) * k = ((m + 1) * k) * a + k * (z - a)
    BY SMTT(30)
  <2>2. (m * z + a) * k = ((m + 1) * k) * z - k * (z - a)
    BY SMTT(30)
  <2> QED
    BY <2>1, <2>2
<1>3. low * k <= sum * k /\ sum * k <= high * k
  <2> HIDE DEF low, high
  <2> QED
    BY <1>1, ProductGrows
<1>4. gap \in Int /\ gap >= 0 /\ (a < z => gap > 0)
  <2> DEFINE d == z - a
  <2>1. d \in Nat /\ (a < z => d > 0)
    OBVIOUS
  <2>2. gap = k * d
    OBVIOUS
  <2> HIDE DEF d, gap
  <2>3. k * d \in Int /\ k * d >= 0 /\ (d > 0 => k * d > 0)
    BY <2>1
  <2> QED
    BY <2>1, <2>2, <2>3
<1> DEFINE sk == sum * k
           Wa == W * a
           Wz == W * z
<1>5. sk \in Int /\ Wa \in Int /\ Wz \in Int
  OBVIOUS
<1>6. Wa + gap <= sk /\ sk <= Wz - gap
  BY <1>2, <1>3
<1> HIDE DEF sk, Wa, Wz, gap
<1>7. Wa <= sk /\ sk <= Wz /\ (a < z => Wa < sk /\ sk < Wz)
  BY <1>4, <1>5, <1>6
<1> QED
  BY <1>7 DEF sk, Wa, Wz

\* The parts in which compute_trend counts, and its means, times and width of an edge.
PartsOf(points) ==
  LET least == Min({points[i].count : i \in 1..Len(points)}) IN least * (least + 1)
MeansOf(points) == [i \in 1..Len(points) |-> points[i].sum * (PartsOf(points) \div points[i].count)]
TimesOf(points) == [i \in 1..Len(points) |-> points[i].first]
EdgeOf(points) == Max({1, Len(points) \div 4})

\* Every point's count divides the parts.
LEMMA PartsDivide ==
  ASSUME NEW s \in Seq(Values), s # <<>>, NEW B \in Nat \ {0}, NEW points, NEW F, ChartOf(s, B, points, F)
  PROVE  /\ PartsOf(points) \in Nat \ {0}
         /\ \A p \in 1..Len(points) :
              /\ points[p].count \in Nat \ {0}
              /\ PartsOf(points) \div points[p].count \in Nat \ {0}
              /\ points[p].count * (PartsOf(points) \div points[p].count) = PartsOf(points)
<1> DEFINE n == Len(s)
           N == PointsOf(n, B)
           q == n \div N
           counts == {points[i].count : i \in 1..Len(points)}
           least == Min(counts)
           W == PartsOf(points)
<1>1. n \in Nat \ {0}
  BY EmptySeq
<1>2. N \in Nat /\ N >= 1 /\ Len(points) = N
  BY <1>1 DEF PointsOf, ChartOf
<1>3. q \in Nat
  <2> HIDE DEF n, N
  <2> QED
    BY <1>1, <1>2, Quotient
<1>4. ASSUME NEW p \in 1..N
      PROVE  points[p].count \in Nat \ {0} /\ points[p].count - q \in {0, 1}
  <2>1. F \in [1..(N + 1) -> 1..(n + 1)] /\ p \in 1..(N + 1) /\ p + 1 \in 1..(N + 1)
    BY <1>2 DEF ChartOf
  <2>2. F[p] \in Nat /\ F[p + 1] \in Nat
    BY <2>1
  <2>3. F[p] < F[p + 1] /\ (F[p + 1] - F[p]) - q \in {0, 1} /\ points[p].count = F[p + 1] - F[p]
    BY DEF ChartOf
  <2> HIDE DEF q
  <2> QED
    BY <2>2, <2>3
<1>5. counts \subseteq Nat /\ counts # {}
  <2>1. counts \subseteq Nat
    BY <1>2, <1>4
  <2>2. points[1].count \in counts
    BY <1>2
  <2> QED
    BY <2>1, <2>2
<1>6. least \in counts /\ \A c \in counts : least <= c
  <2> HIDE DEF counts
  <2> QED
    BY <1>5, LeastIsMin
<1>7. least \in Nat \ {0} /\ least - q \in {0, 1}
  <2>1. PICK p \in 1..N : least = points[p].count
    BY <1>2, <1>6
  <2> HIDE DEF q, least
  <2> QED
    BY <1>4, <2>1
<1>8. ASSUME NEW p \in 1..N
      PROVE  points[p].count = least \/ points[p].count = least + 1
  <2>1. points[p].count \in counts
    BY <1>2
  <2>2. least <= points[p].count
    BY <1>6, <2>1
  <2> HIDE DEF q, least
  <2> QED
    BY <1>3, <1>4, <1>7, <2>2
<1>9. W = least * (least + 1)
  BY DEF PartsOf
<1> HIDE DEF W, least
<1>10. W \in Nat \ {0}
  BY <1>7, <1>9
<1>11. W \div least = least + 1 /\ W \div (least + 1) = least
  <2>1. (least + 1) * least = W /\ least * (least + 1) = W
    BY <1>7, <1>9
  <2>2. W \div least = least + 1
    <3> DEFINE more == least + 1
    <3>1. more \in Nat /\ more * least <= W /\ W < more * least + least
      BY <1>7, <1>10, <2>1
    <3> HIDE DEF more
    <3>2. W \div least = more
      BY <1>7, <1>10, <3>1, QuotientIs
    <3> QED
      BY <3>2 DEF more
  <2>3. W \div (least + 1) = least
    <3> DEFINE more == least + 1
    <3>1. more \in Nat \ {0} /\ least \in Nat /\ least * more <= W /\ W < least * more + more
      BY <1>7, <1>10, <2>1
    <3> HIDE DEF more
    <3>2. W \div more = least
      BY <1>10, <3>1, QuotientIs
    <3> QED
      BY <3>2 DEF more
  <2> QED
    BY <2>2, <2>3
<1>12. ASSUME NEW p \in 1..N
       PROVE  /\ W \div points[p].count \in Nat \ {0}
              /\ points[p].count * (W \div points[p].count) = W
  <2>1. CASE points[p].count = least
    BY <1>7, <1>9, <1>11, <2>1
  <2>2. CASE points[p].count = least + 1
    <3>1. (least + 1) * least = W
      BY <1>7, <1>9
    <3> QED
      BY <1>7, <1>11, <2>2, <3>1
  <2> QED
    BY <1>8, <2>1, <2>2
<1> QED
  BY <1>2, <1>4, <1>10, <1>12 DEF W

\* The means of the points of a series that only rises do not fall, over rising times; the first is
\* below the last.
LEMMA MeansRise ==
  ASSUME NEW s \in Seq(Values), s # <<>>, NEW B \in Nat \ {0}, NEW points, NEW F, ChartOf(s, B, points, F),
         Rising(s), Len(points) > 1
  PROVE  /\ MeansOf(points) \in Seq(Int) /\ TimesOf(points) \in Seq(Int)
         /\ \A p \in 1..Len(points), q \in 1..Len(points) :
              p < q => /\ TimesOf(points)[p] < TimesOf(points)[q]
                       /\ MeansOf(points)[p] <= MeansOf(points)[q]
         /\ MeansOf(points)[1] < MeansOf(points)[Len(points)]
<1> DEFINE n == Len(s)
           N == PointsOf(n, B)
           W == PartsOf(points)
           mean == MeansOf(points)
           a(p) == s[F[p]]
           z(p) == s[F[p + 1] - 1]
<1>1. n \in Nat \ {0} /\ s \in Seq(Int) /\ \A i \in 1..n : s[i] \in Int
  <2>1. n \in Nat \ {0}
    BY EmptySeq
  <2>2. \A i \in 1..n : s[i] \in Int
    <3>1. \A v \in Values : v \in Int
      BY ReportsAssumption
    <3>2. \A i \in 1..n : s[i] \in Values
      OBVIOUS
    <3> QED
      BY <3>1, <3>2
  <2>3. s \in Seq(Int)
    <3>1. DOMAIN s = 1..n /\ s = [i \in 1..n |-> s[i]]
      OBVIOUS
    <3>2. s \in [1..n -> Int]
      <4> HIDE DEF n
      <4> QED
        BY <2>2, <3>1
    <3> HIDE DEF n
    <3> QED
      BY <2>1, <3>2
  <2> QED
    BY <2>1, <2>2, <2>3
<1>2. N \in Nat /\ N > 1 /\ Len(points) = N
  BY <1>1 DEF PointsOf, ChartOf
<1>3. /\ F \in [1..(N + 1) -> 1..(n + 1)] /\ F[1] = 1 /\ F[N + 1] = n + 1
      /\ \A p \in 1..N : F[p] < F[p + 1]
  BY DEF ChartOf
<1>4. \A i \in 1..n, j \in 1..n : i <= j => s[i] <= s[j]
  <2>1. \A i \in 2..Len(s) : s[i - 1] <= s[i]
    BY DEF Rising
  <2>2. ASSUME NEW i \in 1..n, NEW j \in 1..n, i <= j PROVE s[i] <= s[j]
    <3>1. j \in i..Len(s)
      BY <2>2
    <3> QED
      BY <1>1, <2>1, <3>1, RisingPairs
  <2> QED
    BY <2>2
<1>5. ASSUME NEW p \in 1..N, NEW q \in 1..N, p < q PROVE F[p + 1] <= F[q]
  <2>1. F \in Seq(Int) /\ Len(F) = N + 1
    <3>1. F \in [1..(N + 1) -> Int] /\ N + 1 \in Nat
      BY <1>2, <1>3
    <3> HIDE DEF N
    <3> QED
      BY <3>1
  <2>2. ASSUME NEW i \in 2..(N + 1) PROVE F[i - 1] <= F[i]
    <3>1. i - 1 \in 1..N /\ (i - 1) + 1 = i /\ i \in 1..(N + 1) /\ i - 1 \in 1..(N + 1)
      BY <1>2
    <3>2. F[i - 1] < F[i] /\ F[i - 1] \in Nat /\ F[i] \in Nat
      BY <1>3, <3>1
    <3> QED
      BY <3>2
  <2>3. p + 1 \in 1..Len(F) /\ q \in (p + 1)..Len(F)
    BY <1>2, <1>5, <2>1
  <2> HIDE DEF N
  <2> QED
    BY <2>1, <2>2, <2>3, RisingPairs
<1>6. ASSUME NEW p \in 1..N
      PROVE  /\ F[p] \in 1..n /\ F[p + 1] - 1 \in F[p]..n /\ F[p + 1] \in 1..(n + 1) /\ F[p] < F[p + 1]
  <2>1. p \in 1..(N + 1) /\ p + 1 \in 1..(N + 1)
    BY <1>2
  <2>2. F[p] \in 1..(n + 1) /\ F[p + 1] \in 1..(n + 1) /\ F[p] < F[p + 1]
    BY <1>3, <2>1
  <2> HIDE DEF n
  <2> QED
    BY <1>1, <2>2
<1>7. ASSUME NEW p \in 1..N
      PROVE  /\ a(p) \in Int /\ z(p) \in Int /\ a(p) <= z(p)
             /\ mean[p] \in Int /\ W * a(p) <= mean[p] /\ mean[p] <= W * z(p)
             /\ a(p) < z(p) => W * a(p) < mean[p] /\ mean[p] < W * z(p)
  <2> DEFINE k == W \div points[p].count
             m == F[p + 1] - 1 - F[p]
             sum == SumOver(s, F[p]..(F[p + 1] - 1))
             az == a(p)
             zz == z(p)
  <2>1. F[p] \in 1..n /\ F[p + 1] - 1 \in F[p]..n /\ F[p + 1] - 1 \in 1..n /\ F[p] <= F[p + 1] - 1
    <3> HIDE DEF n
    <3> QED
      BY <1>1, <1>6
  <2>2. az \in Int /\ zz \in Int /\ az <= zz
    BY <1>1, <1>4, <2>1
  <2>3. sum \in Int /\ m * az + zz <= sum /\ sum <= m * zz + az
    <3> DEFINE l == F[p]
               r == F[p + 1] - 1
    <3>1. l \in 1..Len(s) /\ r \in l..Len(s)
      BY <2>1
    <3>2. /\ SumOver(s, l..r) \in Int /\ (r - l) * s[l] + s[r] <= SumOver(s, l..r)
          /\ SumOver(s, l..r) <= (r - l) * s[r] + s[l]
      <4> HIDE DEF l, r
      <4> QED
        BY <1>1, <1>4, <3>1, RisingSum
    <3> QED
      BY <3>2
  <2>4. points[p].sum = sum /\ points[p].count = F[p + 1] - F[p]
    BY DEF ChartOf
  <2>5. k \in Nat \ {0} /\ points[p].count * k = W /\ W \in Nat
    BY <1>2, PartsDivide
  <2>6. m \in Nat /\ m + 1 = points[p].count
    <3>1. F[p] \in Int /\ F[p + 1] \in Int /\ F[p] < F[p + 1]
      BY <1>6
    <3> QED
      BY <2>4, <3>1
  <2>7. mean[p] = sum * k
    BY <1>2, <2>4 DEF MeansOf
  <2>8. (m + 1) * k = W
    <3> HIDE DEF m, k, W
    <3> QED
      BY <2>5, <2>6
  <2> HIDE DEF m, k, W, az, zz, sum, mean
  <2>9. sum * k \in Int
    BY <2>3, <2>5
  <2>10. /\ W * az <= sum * k /\ sum * k <= W * zz
         /\ az < zz => W * az < sum * k /\ sum * k < W * zz
    BY <2>2, <2>3, <2>5, <2>6, <2>8, MeanBetween
  <2> QED
    BY <2>2, <2>7, <2>9, <2>10 DEF az, zz
<1>8. W \in Nat \ {0}
  BY PartsDivide
<1>9. ASSUME NEW p \in 1..N, NEW q \in 1..N, p < q
      PROVE  z(p) <= a(q) /\ W * z(p) <= W * a(q) /\ mean[p] <= mean[q]
  <2>1. F[p + 1] - 1 \in 1..n /\ F[q] \in 1..n /\ F[p + 1] - 1 <= F[q]
    <3>1. F[p + 1] - 1 \in F[p]..n /\ F[p] \in 1..n /\ F[q] \in 1..n /\ F[p + 1] \in 1..(n + 1) /\ F[p + 1] <= F[q]
      BY <1>5, <1>6, <1>9
    <3> HIDE DEF n
    <3> QED
      BY <1>1, <3>1
  <2>2. z(p) <= a(q)
    BY <1>4, <2>1
  <2> DEFINE zp == z(p)
             aq == a(q)
             Wz == W * zp
             Wa == W * aq
             mp == mean[p]
             mq == mean[q]
  <2>3. zp \in Int /\ aq \in Int /\ mp \in Int /\ mq \in Int /\ mp <= Wz /\ Wa <= mq
    BY <1>7
  <2>4. Wz <= Wa /\ Wz \in Int /\ Wa \in Int
    <3> HIDE DEF zp, aq, W
    <3>1. zp <= aq
      BY <2>2 DEF zp, aq
    <3> QED
      BY <1>8, <2>3, <3>1, ProductGrows
  <2>5. mp <= mq
    <3> HIDE DEF Wz, Wa, mp, mq, zp, aq
    <3> QED
      BY <2>3, <2>4
  <2> QED
    BY <2>2, <2>4, <2>5
<1>10. mean[1] < mean[N]
  <2>1. 1 \in 1..N /\ N \in 1..N /\ 1 < N
    BY <1>2
  <2>2. a(1) = s[1] /\ z(N) = s[n] /\ s[1] < s[n]
    <3>1. F[N + 1] - 1 = n
      BY <1>1, <1>3
    <3> QED
      BY <1>3, <3>1 DEF Rising
  <2> DEFINE a1 == a(1)
             z1 == z(1)
             aN == a(N)
             zN == z(N)
             Wz == W * z1
             Wa == W * aN
             m1 == mean[1]
             mN == mean[N]
  <2>3. /\ a1 \in Int /\ z1 \in Int /\ aN \in Int /\ zN \in Int /\ m1 \in Int /\ mN \in Int
        /\ a1 <= z1 /\ aN <= zN /\ z1 <= aN /\ a1 < zN
        /\ m1 <= Wz /\ Wa <= mN /\ Wz <= Wa
        /\ (a1 < z1 => m1 < Wz) /\ (aN < zN => Wa < mN)
    BY <1>7, <1>9, <2>1, <2>2
  <2>4. Wz \in Int /\ Wa \in Int /\ (z1 < aN => Wz < Wa)
    <3> HIDE DEF z1, aN, W
    <3>1. Wz \in Int /\ Wa \in Int
      BY <1>8, <2>3
    <3>2. ASSUME z1 < aN PROVE Wz < Wa
      <4> DEFINE d == aN - z1
      <4>1. d \in Nat \ {0}
        BY <2>3, <3>2
      <4>2. W * d > 0 /\ W * d = W * aN - W * z1
        <5>1. W * (aN - z1) = W * aN - W * z1
          BY <1>8, <2>3
        <5> HIDE DEF d
        <5>2. W * d > 0
          BY <1>8, <4>1
        <5> QED
          BY <5>1, <5>2 DEF d
      <4> HIDE DEF d
      <4>3. W * d \in Int
        BY <1>8, <4>1
      <4> HIDE DEF Wz, Wa
      <4>4. W * d = Wa - Wz
        BY <4>2 DEF Wz, Wa
      <4> QED
        BY <3>1, <4>2, <4>3, <4>4
    <3> QED
      BY <3>1, <3>2
  <2>5. m1 < mN
    <3> HIDE DEF a1, z1, aN, zN, Wz, Wa, m1, mN
    <3> QED
      BY <2>3, <2>4
  <2> QED
    BY <2>5
<1>11. mean \in Seq(Int) /\ TimesOf(points) \in Seq(Int)
  <2>1. mean = [p \in 1..N |-> mean[p]]
    BY <1>2 DEF MeansOf
  <2>2. TimesOf(points) = [p \in 1..N |-> points[p].first]
    BY <1>2 DEF TimesOf
  <2>3. \A p \in 1..N : mean[p] \in Int /\ points[p].first \in Int
    <3>1. \A p \in 1..N : points[p].first = F[p]
      BY DEF ChartOf
    <3>2. \A p \in 1..N : F[p] \in Int
      BY <1>6
    <3> HIDE DEF mean
    <3> QED
      BY <1>7, <3>1, <3>2
  <2> HIDE DEF mean, N
  <2>4. mean \in [1..N -> Int]
    BY <2>1, <2>3
  <2>5. TimesOf(points) \in [1..N -> Int]
    BY <2>2, <2>3
  <2>6. N \in Nat
    BY <1>2
  <2>7. mean \in Seq(Int)
    BY <2>4, <2>6
  <2> QED
    BY <2>5, <2>6, <2>7
<1>12. ASSUME NEW p \in 1..N, NEW q \in 1..N, p < q
       PROVE  TimesOf(points)[p] < TimesOf(points)[q]
  <2>1. F[p] \in Int /\ F[p + 1] \in Int /\ F[q] \in Int /\ F[p] < F[p + 1] /\ F[p + 1] <= F[q]
    BY <1>5, <1>6, <1>12
  <2>2. TimesOf(points)[p] = F[p] /\ TimesOf(points)[q] = F[q]
    BY <1>2 DEF TimesOf, ChartOf
  <2> QED
    BY <2>1, <2>2
<1> QED
  BY <1>2, <1>9, <1>10, <1>11, <1>12

\* What is made of rising means at rising times: an end above the start, and a positive slope.
LEMMA TrendRises ==
  ASSUME NEW s \in Seq(Values), s # <<>>, NEW B \in Nat \ {0}, NEW points, NEW F, ChartOf(s, B, points, F),
         Rising(s), Len(points) > 1
  PROVE  ComputeTrend(points).slope > 0 /\ ComputeTrend(points).drift > 0
<1> DEFINE n == Len(points)
           mean == MeansOf(points)
           time == TimesOf(points)
           edge == EdgeOf(points)
           xy == [i \in 1..n |-> time[i] * mean[i]]
           start == SumOver(mean, 1..edge)
           end == SumOver(mean, (n - edge + 1)..n)
<1>1. /\ ComputeTrend(points).drift = end - start
      /\ ComputeTrend(points).slope =
           IF n < 2 THEN 0 ELSE n * SumOver(xy, 1..n) - SumOver(time, 1..n) * SumOver(mean, 1..n)
  BY DEF ComputeTrend, MeansOf, TimesOf, EdgeOf, PartsOf
<1>2. n \in Nat /\ n >= 2
  <2>1. n = PointsOf(Len(s), B)
    BY DEF ChartOf
  <2>2. n \in Nat
    BY <2>1 DEF PointsOf
  <2> QED
    BY <2>2
<1>3. /\ mean \in Seq(Int) /\ time \in Seq(Int)
      /\ \A p \in 1..n, q \in 1..n : p < q => time[p] < time[q] /\ mean[p] <= mean[q]
      /\ mean[1] < mean[n]
  BY MeansRise
<1>4. Len(mean) = n /\ Len(time) = n
  <2>1. DOMAIN mean = 1..n /\ DOMAIN time = 1..n
    BY DEF MeansOf, TimesOf
  <2> HIDE DEF mean, time, n
  <2> QED
    BY <1>2, <1>3, <2>1
<1> HIDE DEF n, mean, time, edge
<1>5. xy \in Seq(Int) /\ Len(xy) = n /\ \A i \in 1..n : xy[i] = time[i] * mean[i]
  <2>1. \A i \in 1..n : time[i] \in Int /\ mean[i] \in Int
    BY <1>3, <1>4
  <2>2. \A g \in Int, h \in Int : g * h \in Int
    OBVIOUS
  <2>3. \A i \in 1..n : xy[i] = time[i] * mean[i]
    OBVIOUS
  <2>4. DOMAIN xy = 1..n /\ xy = [i \in 1..n |-> xy[i]]
    OBVIOUS
  <2>5. \A i \in 1..n : xy[i] \in Int
    BY <2>1, <2>2, <2>3
  <2> HIDE DEF xy
  <2>6. xy \in [1..n -> Int]
    BY <2>4, <2>5
  <2>7. xy \in Seq(Int) /\ Len(xy) = n
    BY <1>2, <2>6
  <2> QED
    BY <2>3, <2>7
<1> HIDE DEF xy
<1>6. n * SumOver(xy, 1..n) - SumOver(time, 1..n) * SumOver(mean, 1..n) > 0
  BY <1>2, <1>3, <1>4, <1>5, RisingSlope
<1>7. edge \in 1..n /\ 2 * edge <= n
  <2> DEFINE q == n \div 4
  <2>1. q \in Nat /\ q * 4 <= n
    BY <1>2, Quotient
  <2> HIDE DEF q
  <2>2. edge = Max({1, q})
    BY DEF edge, EdgeOf, q, n
  <2>3. {1, q} \subseteq 0..n /\ {1, q} # {}
    BY <1>2, <2>1
  <2>4. Max({1, q}) \in {1, q} /\ 1 <= Max({1, q})
    <3>1. Max({1, q}) \in {1, q} /\ \A y \in {1, q} : y <= Max({1, q})
      BY <1>2, <2>3, GreatestId
    <3> QED
      BY <3>1
  <2> QED
    BY <1>2, <2>1, <2>2, <2>4
<1>8. end - start > 0
  <2> DEFINE w == edge - 1
             a == mean[1]
             b == mean[edge]
             c == mean[n - edge + 1]
             d == mean[n]
  <2>1. /\ \A i \in 1..n : mean[i] \in Int
        /\ \A i \in 1..n, j \in 1..n : i <= j => mean[i] <= mean[j]
    <3>1. \A i \in 1..n : mean[i] \in Int
      BY <1>3, <1>4
    <3>2. ASSUME NEW i \in 1..n, NEW j \in 1..n, i <= j PROVE mean[i] <= mean[j]
      <4>1. CASE i = j
        BY <3>1, <4>1
      <4>2. CASE i # j
        <5>1. i < j
          BY <3>2, <4>2
        <5> QED
          BY <1>3, <5>1
      <4> QED
        BY <4>1, <4>2
    <3> QED
      BY <3>1, <3>2
  <2>2. /\ 1 \in 1..n /\ n \in 1..n /\ n - edge + 1 \in 1..n /\ edge <= n - edge + 1 /\ w \in Nat
        /\ edge \in 1..n /\ n \in (n - edge + 1)..n /\ n - (n - edge + 1) = w
    BY <1>2, <1>7
  <2>3. a \in Int /\ b \in Int /\ c \in Int /\ d \in Int /\ b <= c /\ a < d
    BY <1>3, <2>1, <2>2
  <2>4. start \in Int /\ start <= w * b + a
    BY <1>3, <1>4, <2>1, <2>2, RisingSum
  <2>5. end \in Int /\ w * c + d <= end
    <3> DEFINE l == n - edge + 1
    <3>1. l \in 1..n /\ n \in l..n /\ n - l = w
      BY <2>2
    <3>2. SumOver(mean, l..n) \in Int /\ (n - l) * mean[l] + mean[n] <= SumOver(mean, l..n)
      <4> HIDE DEF l
      <4> QED
        BY <1>3, <1>4, <2>1, <3>1, RisingSum
    <3> QED
      BY <3>1, <3>2
  <2> HIDE DEF w, a, b, c, d, start, end
  <2>6. w * b <= w * c
    BY <2>2, <2>3, ProductGrows DEF w
  <2> DEFINE wb == w * b
             wc == w * c
  <2>7. wb \in Int /\ wc \in Int
    <3>1. w \in Nat
      BY <2>2 DEF w
    <3> QED
      BY <2>3, <3>1
  <2>8. wb <= wc /\ start <= wb + a /\ wc + d <= end
    BY <2>4, <2>5, <2>6
  <2> HIDE DEF wb, wc
  <2> QED
    BY <2>3, <2>4, <2>5, <2>7, <2>8
<1> QED
  BY <1>1, <1>2, <1>6, <1>8

\* Runs that are gone or wait have no samples.
NoneWithoutARun == \A k \in Children : status[k] \in {"gone", "pending"} => series[k] = <<>>

\* Samples are recorded while the run lasts, and go with it.
LEMMA NoneWithoutARunKept ==
  ReportsTypeOK /\ NoneWithoutARun /\ [ReportsNext]_reportVars => NoneWithoutARun'
<1> SUFFICES ASSUME ReportsTypeOK, NoneWithoutARun, [ReportsNext]_reportVars PROVE NoneWithoutARun'
  OBVIOUS
<1>1. Children' = Children
  BY DEF ReportsNext, reportVars, Begin, Measure, Note, End, CancelAll, DeleteOne, ResumeOne, ChooseStandard,
         Children, PlannedScenarios
<1>2. DOMAIN status = Children /\ DOMAIN series = Children
  BY DEF ReportsTypeOK
<1> USE DEF NoneWithoutARun, Finals
<1>3. CASE CancelAll
  BY <1>1, <1>2, <1>3 DEF CancelAll
<1>4. ASSUME NEW k \in Children, Begin(k) \/ ResumeOne(k) PROVE NoneWithoutARun'
  BY <1>1, <1>2, <1>4 DEF Begin, ResumeOne
<1>5. ASSUME NEW k \in Children, Measure(k) PROVE NoneWithoutARun'
  BY <1>1, <1>2, <1>5 DEF Measure
<1>6. ASSUME NEW k \in Children, Note(k) \/ ChooseStandard(k) PROVE NoneWithoutARun'
  BY <1>1, <1>2, <1>6 DEF Note, ChooseStandard
<1>7. ASSUME NEW k \in Children, End(k) PROVE NoneWithoutARun'
  BY <1>1, <1>2, <1>7 DEF End
<1>8. ASSUME NEW k \in Children, DeleteOne(k) PROVE NoneWithoutARun'
  BY <1>1, <1>2, <1>8 DEF DeleteOne
<1>9. CASE UNCHANGED reportVars
  BY <1>1, <1>9 DEF reportVars
<1> QED
  BY <1>3, <1>4, <1>5, <1>6, <1>7, <1>8, <1>9 DEF ReportsNext

\* The soak's report is about its one run, once that has samples.
LEMMA SoakIsItsRun ==
  ASSUME ReportsTypeOK, NoneWithoutARun, spec.kind = "soak", NEW k \in Children, series[k] # <<>>, NEW B
  PROVE  SoakAnalysis(B) = ComputeTrend(DownsampleSamples(series[k], B))
<1> DEFINE candidates == {j \in Listed : status[j] \in {"completed", "running"}}
           about == IF candidates = {} THEN Listed ELSE candidates
<1>1. Children = {1}
  <2>1. Len(spec.tier) = 1 /\ spec.iterations = 1
    BY DEF ReportsTypeOK, Validated
  <2>2. Children = 1..(spec.iterations * Len(spec.tier))
    BY DEF Children, PlannedScenarios
  <2> QED
    BY <2>1, <2>2
<1>2. k = 1 /\ Listed = {1}
  BY <1>1 DEF Listed, NoneWithoutARun
<1>3. about = {k}
  BY <1>2
<1>4. Min(about) = k
  <2> HIDE DEF about
  <2>1. Min({k}) \in {k}
    BY <1>2, LeastIsMin
  <2> QED
    BY <1>3, <2>1
<1>5. SoakAnalysis(B) = ComputeTrend(DownsampleSamples(series[Min(about)], B))
  BY DEF SoakAnalysis
<1> HIDE DEF about
<1> QED
  BY <1>4, <1>5

\* In every campaign, with any samples and any number of points: a chart has all the points it may,
\* evenly cut, each with its own samples and its own extremes; and what only rises in a soak is
\* reported as rising (storage.py:983, analyzer.py:29).
THEOREM ChartsHideNothing == ReportsSpec => []ChartHidesNothing
<1>1. ReportsInit => NoneWithoutARun
  BY DEF ReportsInit, NoneWithoutARun
<1>2. ReportsTypeOK /\ NoneWithoutARun => ChartHidesNothing
  <2> SUFFICES ASSUME ReportsTypeOK, NoneWithoutARun, NEW k \in Children, NEW B \in Budgets, series[k] # <<>>
               PROVE  LET s == series[k]
                          points == DownsampleSamples(s, B)
                          trend == SoakAnalysis(B)
                          last(n) == IF n = Len(points) THEN Len(s) ELSE points[n + 1].first - 1
                      IN /\ Len(points) = Min({B, Len(s)})
                         /\ \A n \in DOMAIN points :
                              LET seen == {s[i] : i \in points[n].first..last(n)}
                              IN /\ points[n].count = last(n) - points[n].first + 1
                                 /\ points[n].count - Len(s) \div Len(points) \in {0, 1}
                                 /\ points[n].minimum = Min(seen) /\ points[n].maximum = Max(seen)
                         /\ spec.kind = "soak" /\ Rising(s) /\ Len(points) > 1 => trend.slope > 0 /\ trend.drift > 0
    BY DEF ChartHidesNothing
  <2> DEFINE s == series[k]
             points == DownsampleSamples(s, B)
  <2>1. s \in Seq(Values) /\ s # <<>> /\ B \in Nat \ {0}
    BY ReportsAssumption DEF ReportsTypeOK
  <2>2. ASSUME spec.kind = "soak", Rising(s), Len(points) > 1
        PROVE  SoakAnalysis(B).slope > 0 /\ SoakAnalysis(B).drift > 0
    <3>1. SoakAnalysis(B) = ComputeTrend(points)
      BY <2>2, SoakIsItsRun
    <3>2. PICK F : ChartOf(s, B, points, F)
      BY <2>1, SamplesAreCharted
    <3> HIDE DEF points, s
    <3> QED
      BY <2>1, <2>2, <3>1, <3>2, TrendRises
  <2> HIDE DEF s
  <2> QED
    BY <2>1, <2>2, ChartIsComplete DEF s
<1> QED
  BY <1>1, <1>2, ReportsTypeInit, ReportsTypeKept, NoneWithoutARunKept, PTL DEF ReportsSpec
=============================================================================
