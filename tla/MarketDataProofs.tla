-------------------------- MODULE MarketDataProofs --------------------------
(***************************************************************************)
(* The curves of the two processes, for any number of contracts, any scan  *)
(* limit and any number of fetches, edits, requests and faults.            *)
(***************************************************************************)
EXTENDS MarketData, FiniteSetTheorems, SequenceTheorems, TLAPS

-----------------------------------------------------------------------------
(* Natural numbers and sequences *)

(***************************************************************************)
(* A set of natural numbers has a least element: the initial segments      *)
(* below its members are finite, and strict inclusion of finite sets is    *)
(* well founded.                                                           *)
(***************************************************************************)
LEMMA LeastElement ==
    ASSUME NEW S \in SUBSET Nat, S # {}
    PROVE  \E n \in S : \A m \in S : n <= m
<1> DEFINE Below(n) == 0 .. n - 1
           segments == {Below(n) : n \in S}
           inclusion == StrictSubsetOrdering(Nat)
<1>1. IsWellFoundedOn(inclusion, FiniteSubsetsOf(Nat))
  BY FS_StrictSubsetOrderingWellFounded
<1>2. \A n \in S : IsFiniteSet(Below(n)) /\ Below(n) \in SUBSET Nat
  BY FS_Interval
<1>3. segments \subseteq FiniteSubsetsOf(Nat) /\ segments # {}
  BY <1>2 DEF FiniteSubsetsOf
<1> HIDE DEF inclusion
<1>4. PICK x \in segments : \A y \in segments : ~(<<y, x>> \in inclusion)
  <2> HIDE DEF segments
  <2> QED
    BY <1>1, <1>3, WFMin
<1>5. PICK n \in S : x = Below(n)
  OBVIOUS
<1>6. ASSUME NEW m \in S, m < n
      PROVE  FALSE
  <2>1. Below(m) \subseteq Below(n) /\ m \in Below(n) /\ m \notin Below(m)
    BY <1>6
  <2>2. <<Below(m), Below(n)>> \in inclusion
    <3> HIDE DEF Below
    <3> QED
      BY <1>2, <2>1 DEF inclusion, StrictSubsetOrdering
  <2> QED
    BY <1>4, <1>5, <2>2
<1> QED
  BY <1>6

(***************************************************************************)
(* A bounded set of natural numbers has a greatest element: its distance   *)
(* to the bound has a least one.                                           *)
(***************************************************************************)
LEMMA GreatestElement ==
    ASSUME NEW bound \in Nat, NEW S \in SUBSET (0 .. bound), S # {}
    PROVE  \E n \in S : \A m \in S : m <= n
<1> DEFINE distances == {d \in Nat : \E n \in S : d = bound - n}
<1>1. distances \in SUBSET Nat /\ distances # {}
  <2>1. PICK n \in S : TRUE
    OBVIOUS
  <2>2. bound - n \in distances
    BY <2>1
  <2> QED
    BY <2>2
<1>2. PICK d \in distances : \A e \in distances : d <= e
  <2> HIDE DEF distances
  <2> QED
    BY <1>1, LeastElement
<1>3. PICK n \in S : d = bound - n
  OBVIOUS
<1>4. ASSUME NEW m \in S
      PROVE  m <= n
  <2>1. bound - m \in distances
    OBVIOUS
  <2>2. d <= bound - m
    BY <1>2, <2>1
  <2> QED
    BY <1>3, <2>2
<1> QED
  BY <1>4

(***************************************************************************)
(* The rows of a curve in ascending order: each contract month present     *)
(* has a place of its own, and there is no place without a month.          *)
(***************************************************************************)
LEMMA InOrderType ==
    ASSUME NEW months \in SUBSET (1 .. Months)
    PROVE  /\ Cardinality(months) \in Nat
           /\ Cardinality(months) = 0 <=> months = {}
           /\ InOrder(months) \in [1 .. Cardinality(months) -> months]
<1> DEFINE UpTo(m) == {k \in months : k <= m}
           size == Cardinality(months)
           place == [m \in months |-> Cardinality(UpTo(m))]
<1>1. IsFiniteSet(months)
  <2>1. IsFiniteSet(1 .. Months)
    BY SizeAssumption, FS_Interval
  <2> QED
    BY <2>1, FS_Subset
<1>2. size \in Nat /\ (size = 0 <=> months = {})
  BY <1>1, FS_CardinalityType, FS_EmptySet
<1>3. ASSUME NEW m \in months
      PROVE  place[m] \in 1 .. size
  <2>1. UpTo(m) \in SUBSET months /\ UpTo(m) # {}
    BY SizeAssumption
  <2> HIDE DEF UpTo
  <2>2. IsFiniteSet(UpTo(m)) /\ Cardinality(UpTo(m)) <= size
    BY <1>1, <2>1, FS_Subset
  <2>3. Cardinality(UpTo(m)) \in Nat /\ Cardinality(UpTo(m)) # 0
    BY <2>1, <2>2, FS_CardinalityType, FS_EmptySet
  <2> QED
    BY <1>2, <2>2, <2>3
<1>4. ASSUME NEW m \in months, NEW k \in months, m < k
      PROVE  place[m] # place[k]
  <2>1. /\ UpTo(m) \in SUBSET UpTo(k) /\ UpTo(k) \in SUBSET months
        /\ k \in UpTo(k) /\ k \notin UpTo(m)
    <3>1. k \in Nat /\ m \in Nat /\ \A n \in months : n \in Nat
      BY SizeAssumption
    <3>2. k \in UpTo(k) /\ k \notin UpTo(m)
      BY <1>4, <3>1
    <3>3. ASSUME NEW n \in UpTo(m)
          PROVE  n \in UpTo(k)
      <4>1. n \in months /\ n \in Nat /\ n <= m
        BY <3>1
      <4> QED
        BY <1>4, <3>1, <4>1
    <3> QED
      BY <3>2, <3>3
  <2> HIDE DEF UpTo
  <2>2. IsFiniteSet(UpTo(k))
    BY <1>1, <2>1, FS_Subset
  <2> QED
    BY <2>1, <2>2, FS_Subset
<1>5. place \in Injection(months, 1 .. size)
  <2>1. place \in [months -> 1 .. size]
    BY <1>3
  <2>2. \A m, k \in months : place[m] = place[k] => m = k
    <3>1. \A m, k \in months : m < k \/ k < m \/ m = k
      BY SizeAssumption
    <3> QED
      BY <1>4, <3>1
  <2> HIDE DEF place
  <2> QED
    BY <2>1, <2>2 DEF Injection, IsInjective
<1>6. IsFiniteSet(1 .. size) /\ Cardinality(1 .. size) = size
  BY <1>2, FS_Interval
<1>7. place \in Surjection(months, 1 .. size)
  <2> HIDE DEF place
  <2> QED
    BY <1>1, <1>5, <1>6, FS_Injection
<1>8. ASSUME NEW i \in 1 .. size
      PROVE  (CHOOSE m \in months : Cardinality(UpTo(m)) = i) \in months
  <2>1. \E m \in months : place[m] = i
    <3> HIDE DEF place
    <3> QED
      BY <1>7 DEF Surjection
  <2> QED
    BY <2>1
<1> QED
  BY <1>2, <1>8 DEF InOrder

-----------------------------------------------------------------------------
(* What is read and what is fetched *)

(***************************************************************************)
(* latest_observation_per_series returns observations that it scanned, one *)
(* for each contract, in a sequence.                                       *)
(***************************************************************************)
LEMMA LatestPerSeriesType ==
    ASSUME NEW scan \in SUBSET Points
    PROVE  LatestPerSeries(scan) \in Seq(scan)
<1> DEFINE months == {r.month : r \in scan}
           IsNewest(r, m) == r.month = m /\ \A q \in scan : q.month = m => q.time <= r.time
           Newest(m) == CHOOSE r \in scan : IsNewest(r, m)
<1>1. months \in SUBSET (1 .. Months)
  BY DEF Points
<1>2. /\ Cardinality(months) \in Nat
      /\ InOrder(months) \in [1 .. Cardinality(months) -> months]
  <2> HIDE DEF months
  <2> QED
    BY <1>1, InOrderType
<1>3. ASSUME NEW m \in months
      PROVE  Newest(m) \in scan
  <2> DEFINE times == {r.time : r \in {q \in scan : q.month = m}}
  <2>1. times \in SUBSET (0 .. MaxFetches) /\ times # {}
    BY DEF Points
  <2>2. PICK latest \in times : \A time \in times : time <= latest
    <3> HIDE DEF times
    <3> QED
      BY <2>1, GreatestElement, BoundAssumption
  <2>3. PICK r \in scan : r.month = m /\ r.time = latest
    OBVIOUS
  <2>4. IsNewest(r, m)
    BY <2>2, <2>3
  <2> HIDE DEF IsNewest
  <2> QED
    BY <2>4
<1>4. LatestPerSeries(scan) = [i \in DOMAIN InOrder(months) |-> Newest(InOrder(months)[i])]
  BY DEF LatestPerSeries
<1> HIDE DEF months, Newest
<1>5. LatestPerSeries(scan) \in [1 .. Cardinality(months) -> scan]
  BY <1>2, <1>3, <1>4
<1> QED
  BY <1>2, <1>5, SeqDef

(***************************************************************************)
(* What rehydrate_market_from_db keeps of the rows it read: the rows up to *)
(* the first one of another source than the front month's, at least one.   *)
(***************************************************************************)
LEMMA OneSourceKeepsTheFront ==
    ASSUME NEW drafts \in Seq(Points), drafts # <<>>
    PROVE  /\ OneSource(drafts) \in Seq(Points)
           /\ OneSource(drafts) # <<>>
           /\ Unmixed(OneSource(drafts))
<1> DEFINE size == Len(drafts)
           front == drafts[1].source
           IsRun(n) == /\ \A i \in 1 .. n : drafts[i].source = front
                       /\ n < size => drafts[n + 1].source # front
           foreign == {n \in 0 .. size - 1 : drafts[n + 1].source # front}
           length == CHOOSE n \in 0 .. size : IsRun(n)
<1>1. size \in Nat /\ size > 0 /\ drafts \in [1 .. size -> Points]
  BY LenProperties, EmptySeq
<1>2. \E n \in 0 .. size : IsRun(n)
  <2>1. CASE foreign = {}
    <3>1. \A n \in 0 .. size - 1 : drafts[n + 1].source = front
      BY <2>1
    <3>2. \A i \in 1 .. size : drafts[i].source = front
      <4>1. \A i \in 1 .. size : i - 1 \in 0 .. size - 1 /\ (i - 1) + 1 = i
        BY <1>1
      <4> QED
        BY <3>1, <4>1
    <3>3. IsRun(size) /\ size \in 0 .. size
      BY <1>1, <3>2
    <3> HIDE DEF IsRun
    <3> QED
      BY <3>3
  <2>2. CASE foreign # {}
    <3>1. foreign \in SUBSET Nat
      BY <1>1
    <3>2. PICK n \in foreign : \A m \in foreign : n <= m
      <4> HIDE DEF foreign
      <4> QED
        BY <2>2, <3>1, LeastElement
    <3>3. ASSUME NEW i \in 1 .. n
          PROVE  drafts[i].source = front
      <4>1. i - 1 \in 0 .. size - 1 /\ i - 1 < n /\ (i - 1) + 1 = i
        BY <1>1
      <4>2. i - 1 \notin foreign
        BY <3>2, <4>1
      <4> QED
        BY <4>1, <4>2
    <3>4. IsRun(n) /\ n \in 0 .. size
      BY <1>1, <3>3
    <3> HIDE DEF IsRun
    <3> QED
      BY <3>4
  <2> QED
    BY <2>1, <2>2
<1>3. length \in 0 .. size /\ IsRun(length)
  <2> HIDE DEF IsRun
  <2> QED
    BY <1>2
<1>4. OneSource(drafts) = SubSeq(drafts, 1, length)
  BY DEF OneSource
<1> HIDE DEF length
<1>5. length \in 1 .. size
  BY <1>1, <1>3
<1>6. /\ OneSource(drafts) \in Seq(Points)
      /\ Len(OneSource(drafts)) = length
      /\ \A i \in 1 .. length : OneSource(drafts)[i] = drafts[i]
  <2>1. \A i \in 1 .. length : drafts[i] \in Points
    BY <1>1, <1>5
  <2>2. /\ SubSeq(drafts, 1, length) \in Seq(Points)
        /\ Len(SubSeq(drafts, 1, length)) = IF 1 <= length THEN length - 1 + 1 ELSE 0
        /\ \A i \in 1 .. length - 1 + 1 :
              SubSeq(drafts, 1, length)[i] = drafts[1 + i - 1]
    BY <1>5, <2>1, SubSeqProperties
  <2> QED
    BY <1>4, <1>5, <2>2
<1>7. OneSource(drafts) # <<>>
  BY <1>5, <1>6
<1>8. \A i \in 1 .. length : OneSource(drafts)[i].source = OneSource(drafts)[1].source
  BY <1>3, <1>5, <1>6
<1>9. DOMAIN OneSource(drafts) = 1 .. length
  BY <1>6, LenProperties
<1> QED
  BY <1>6, <1>7, <1>8, <1>9 DEF Unmixed

(***************************************************************************)
(* An answer holds at least one price, all of one source and one time      *)
(* (refresh_market_data).                                                  *)
(***************************************************************************)
LEMMA AnswerType ==
    ASSUME TypeOK, NEW j \in Jobs, job[j].time > 0,
           NEW first \in 1 .. IF job[j].full THEN Months ELSE 1
    PROVE  /\ Answer(j, first) \in Seq(Points)
           /\ Answer(j, first) # <<>>
           /\ Unmixed(Answer(j, first))
<1> DEFINE n == IF job[j].full THEN Months ELSE 1
           price(i) == [month |-> i + first - 1, source |-> job[j].source,
                        time |-> job[j].time]
<1>1. n \in 1 .. Months /\ first \in 1 .. n
  BY SizeAssumption
<1>2. job[j].source \in Sources /\ job[j].time \in 1 .. MaxFetches
  BY BoundAssumption DEF TypeOK, JobStates
<1>3. \A i \in 1 .. n + 1 - first : price(i) \in Points
  <2>1. \A i \in 1 .. n + 1 - first : i + first - 1 \in 1 .. Months
    BY <1>1, SizeAssumption
  <2> QED
    BY <1>2, <2>1 DEF Points
<1>4. Answer(j, first) = [i \in 1 .. n + 1 - first |-> price(i)]
  BY DEF Answer
<1>5. n + 1 - first \in Nat \ {0}
  BY <1>1, SizeAssumption
<1>6. Answer(j, first) \in [1 .. n + 1 - first -> Points]
  BY <1>3, <1>4
<1>7. Answer(j, first) \in Seq(Points)
  BY <1>5, <1>6, SeqDef
<1>8. DOMAIN Answer(j, first) = 1 .. n + 1 - first
  BY <1>4
<1>9. Answer(j, first) # <<>>
  BY <1>5, <1>7, <1>8, LenProperties, EmptySeq
<1>10. \A i \in 1 .. n + 1 - first : Answer(j, first)[i].source = job[j].source
  BY <1>4
<1> QED
  BY <1>5, <1>7, <1>8, <1>9, <1>10 DEF Unmixed

-----------------------------------------------------------------------------
(* The coroutines *)

LEMMA ProcessesAreJobs == Processes \subseteq Jobs /\ \A j \in Jobs : ProcessOf(j) \in Processes
  BY DEF Processes, Jobs, ProcessOf

LEMMA AtType == \A step \in Steps : At(step) \in JobStates
  BY SourceAssumption, BoundAssumption DEF At, JobStates, Steps

(***************************************************************************)
(* Only the worker's poll asks for the front month alone; what the API's   *)
(* coroutines fetch replaces the curve (ingest_from_provider, full).       *)
(***************************************************************************)
ApiFetchesWhole == job["api"].full /\ job["request"].full

\* A coroutine that persists has something to persist, and none gets there
\* but from its fetch.
PersistingHolds ==
    \A j \in Jobs : /\ job[j].step = "persist" => job[j].drafts # <<>>
                    /\ job[j].then # "persist"

Inductive == TypeOK /\ ApiFetchesWhole /\ PersistingHolds /\ ServedCurveHasOneSource

\* What a step does to the coroutines when it makes one of them `next`.
Becomes(j, next) ==
    /\ next \in JobStates
    /\ j # "worker" => next.full
    /\ next.step = "persist" => next.drafts # <<>>
    /\ next.then # "persist"
    /\ job' = [job EXCEPT ![j] = next]

LEMMA BecomesKeeps ==
    ASSUME Inductive, NEW j \in Jobs, NEW next, Becomes(j, next)
    PROVE  job' \in [Jobs -> JobStates] /\ ApiFetchesWhole' /\ PersistingHolds'
<1>1. /\ job \in [Jobs -> JobStates]
      /\ job' \in [Jobs -> JobStates]
      /\ job'[j] = next
      /\ \A k \in Jobs : k # j => job'[k] = job[k]
  BY DEF Becomes, Inductive, TypeOK
<1>2. ApiFetchesWhole'
  <2>1. "api" \in Jobs /\ "request" \in Jobs
    BY DEF Jobs
  <2>2. ASSUME NEW k \in {"api", "request"}
        PROVE  job'[k].full
    BY <1>1, <2>1 DEF Becomes, Inductive, ApiFetchesWhole
  <2> QED
    BY <2>2 DEF ApiFetchesWhole
<1>3. PersistingHolds'
  BY <1>1 DEF Becomes, Inductive, PersistingHolds
<1> QED
  BY <1>1, <1>2, <1>3

LEMMA GotoBecomes ==
    ASSUME NEW j \in Jobs, NEW step \in Steps, Goto(j, step), step # "persist"
    PROVE  Becomes(j, At(step))
<1>1. At(step) \in JobStates
  BY AtType
<1> QED
  BY <1>1 DEF Goto, Becomes, At

LEMMA StartFetchBecomes ==
    ASSUME Inductive, NEW j \in Jobs, NEW full \in BOOLEAN, NEW then \in Steps,
           NEW source \in Sources, StartFetch(j, full, then, source), then # "persist",
           j # "worker" => full
    PROVE  /\ clock' \in 0 .. MaxFetches
           /\ \E next : Becomes(j, next) /\ next.step = "fetch"
<1>1. clock \in 0 .. MaxFetches
  BY DEF Inductive, TypeOK
<1>2. PICK answers \in BOOLEAN :
        /\ answers => clock < MaxFetches
        /\ clock' = IF answers THEN clock + 1 ELSE clock
        /\ job' = [job EXCEPT ![j] =
             IF answers
             THEN [step |-> "fetch", full |-> full, source |-> source,
                   time |-> clock', drafts |-> <<>>, then |-> then]
             ELSE [At("fetch") EXCEPT !.then = then]]
  BY DEF StartFetch
<1>3. clock' \in 0 .. MaxFetches
  BY <1>1, <1>2, BoundAssumption
<1>4. CASE answers
  <2> DEFINE next == [step |-> "fetch", full |-> full, source |-> source,
                      time |-> clock', drafts |-> <<>>, then |-> then]
  <2>1. next \in JobStates
    BY <1>3 DEF JobStates, Steps
  <2>2. Becomes(j, next)
    BY <1>2, <1>4, <2>1 DEF Becomes
  <2> QED
    BY <1>3, <2>2
<1>5. CASE ~answers
  <2> DEFINE next == [At("fetch") EXCEPT !.then = then]
  <2>1. next \in JobStates
    <3>1. At("fetch") \in JobStates
      BY AtType DEF Steps
    <3> QED
      BY <3>1 DEF JobStates
  <2>2. next.full /\ next.step = "fetch" /\ next.then # "persist"
    BY DEF At
  <2>3. Becomes(j, next)
    BY <1>2, <1>5, <2>1, <2>2 DEF Becomes
  <2> QED
    BY <1>3, <2>2, <2>3
<1> QED
  BY <1>4, <1>5

-----------------------------------------------------------------------------
(* The curves *)

\* No process loses its curve, except one that starts anew.
NothingBlanked ==
    \A p \in Processes : curve[p] # <<>> /\ job'[p].step # "start" => curve'[p] # <<>>

\* What a step does to the curves: nothing to blank or to mix them.
CurvesKept ==
    /\ curve' \in [Processes -> Seq(Points)]
    /\ Unmixed(curve'["api"])
    /\ NothingBlanked

LEMMA SameCurves ==
    ASSUME Inductive, UNCHANGED curve
    PROVE  CurvesKept
  BY DEF CurvesKept, NothingBlanked, Inductive, TypeOK, ServedCurveHasOneSource

(***************************************************************************)
(* One process gets another curve that is not empty, the API's one without *)
(* joints: the answer to a full refresh, or the run that was read back.    *)
(***************************************************************************)
LEMMA NewCurve ==
    ASSUME Inductive, NEW p \in Processes, NEW points \in Seq(Points), points # <<>>,
           p = "api" => Unmixed(points),
           curve' = [curve EXCEPT ![p] = points]
    PROVE  CurvesKept
<1>1. /\ curve' \in [Processes -> Seq(Points)]
      /\ curve'[p] = points
      /\ \A q \in Processes : q # p => curve'[q] = curve[q]
  BY DEF Inductive, TypeOK
<1>2. Unmixed(curve'["api"])
  <2>1. "api" \in Processes
    BY DEF Processes
  <2>2. CASE p = "api"
    BY <1>1, <2>2
  <2>3. CASE p # "api"
    BY <1>1, <2>1, <2>3 DEF Inductive, ServedCurveHasOneSource
  <2> QED
    BY <2>2, <2>3
<1>3. NothingBlanked
  BY <1>1 DEF NothingBlanked
<1> QED
  BY <1>1, <1>2, <1>3 DEF CurvesKept

LEMMA FetchAnsweredKeeps ==
    ASSUME Inductive, NEW j \in Jobs, FetchAnswered(j)
    PROVE  /\ \E next : Becomes(j, next)
           /\ CurvesKept
<1>0. PICK p \in Processes : p = ProcessOf(j)
  BY ProcessesAreJobs
<1>1. PICK first \in 1 .. IF job[j].full THEN Months ELSE 1 :
        /\ curve' = [curve EXCEPT ![p] =
             IF job[j].full \/ curve[p] = <<>> THEN Answer(j, first)
             ELSE <<Answer(j, first)[1]>> \o Tail(@)]
        /\ job' = [job EXCEPT ![j].step = "persist", ![j].drafts = Answer(j, first)]
  BY <1>0 DEF FetchAnswered
<1>2. job[j].time > 0
  BY DEF FetchAnswered
<1>3. PICK drafts \in Seq(Points) :
        drafts = Answer(j, first) /\ drafts # <<>> /\ Unmixed(drafts)
  BY <1>2, AnswerType DEF Inductive
<1>4. \E next : Becomes(j, next)
  <2> DEFINE next == [job[j] EXCEPT !.step = "persist", !.drafts = drafts]
  <2>1. job[j] \in JobStates
    BY DEF Inductive, TypeOK
  <2>2. next \in JobStates
    BY <1>3, <2>1 DEF JobStates, Steps
  <2>3. next.drafts = drafts /\ next.full = job[j].full /\ next.then = job[j].then
    BY <2>1 DEF JobStates
  <2>4. job[j].then # "persist" /\ (j # "worker" => job[j].full)
    BY DEF Inductive, PersistingHolds, ApiFetchesWhole, Jobs
  <2>5. job' = [job EXCEPT ![j] = next]
    BY <1>1, <1>3
  <2> QED
    BY <1>3, <2>2, <2>3, <2>4, <2>5 DEF Becomes
<1>5. curve[p] \in Seq(Points)
  BY DEF Inductive, TypeOK
<1>6. CASE job[j].full \/ curve[p] = <<>>
  <2>1. curve' = [curve EXCEPT ![p] = drafts]
    BY <1>1, <1>3, <1>6
  <2> QED
    BY <1>3, <1>4, <2>1, NewCurve
<1>7. CASE ~(job[j].full \/ curve[p] = <<>>)
  <2> DEFINE spliced == <<drafts[1]>> \o Tail(curve[p])
  <2>1. drafts[1] \in Points
    BY <1>3, LenProperties, EmptySeq
  <2>2. Tail(curve[p]) \in Seq(Points) /\ <<drafts[1]>> \in Seq(Points)
    BY <1>5, <1>7, <2>1, HeadTailProperties
  <2>3. spliced \in Seq(Points) /\ Len(spliced) = 1 + Len(Tail(curve[p]))
    BY <2>2, ConcatProperties
  <2>4. spliced # <<>>
    BY <2>2, <2>3, LenProperties
  <2>5. p = "worker"
    BY <1>0, <1>7 DEF Inductive, ApiFetchesWhole, Jobs, ProcessOf
  <2>6. curve' = [curve EXCEPT ![p] = spliced]
    BY <1>1, <1>3, <1>7
  <2> HIDE DEF spliced
  <2> QED
    BY <1>4, <2>3, <2>4, <2>5, <2>6, NewCurve
<1> QED
  BY <1>6, <1>7

LEMMA RehydrateApplyKeeps ==
    ASSUME Inductive, RehydrateApply
    PROVE  CurvesKept
<1> DEFINE drafts == job["api"].drafts
<1>1. "api" \in Processes /\ "api" \in Jobs
  BY DEF Processes, Jobs
<1>2. drafts \in Seq(Points)
  BY <1>1 DEF Inductive, TypeOK, JobStates
<1>3. CASE drafts = <<>>
  <2>1. curve' = [curve EXCEPT !["api"] = @]
    BY <1>3 DEF RehydrateApply
  <2>2. UNCHANGED curve
    BY <1>1, <2>1 DEF Inductive, TypeOK
  <2> QED
    BY <2>2, SameCurves
<1>4. CASE drafts # <<>>
  <2>1. curve' = [curve EXCEPT !["api"] = OneSource(drafts)]
    BY <1>4 DEF RehydrateApply
  <2> HIDE DEF drafts
  <2>2. /\ OneSource(drafts) \in Seq(Points)
        /\ OneSource(drafts) # <<>>
        /\ Unmixed(OneSource(drafts))
    BY <1>2, <1>4, OneSourceKeepsTheFront
  <2> QED
    BY <1>1, <2>1, <2>2, NewCurve
<1> QED
  BY <1>3, <1>4

(***************************************************************************)
(* A dying process takes its coroutines and its curve with it.             *)
(***************************************************************************)
LEMMA CrashKeeps ==
    ASSUME Inductive, NEW p \in Processes, Crash(p)
    PROVE  /\ job' \in [Jobs -> JobStates] /\ ApiFetchesWhole' /\ PersistingHolds'
           /\ CurvesKept
<1> DEFINE fresh(j) == At(IF j = "request" THEN "idle" ELSE "start")
<1>1. /\ job' = [j \in Jobs |-> IF ProcessOf(j) # p THEN job[j] ELSE fresh(j)]
      /\ curve' = [curve EXCEPT ![p] = <<>>]
  BY DEF Crash
<1>2. \A j \in Jobs : /\ fresh(j) \in JobStates /\ fresh(j).full
                     /\ fresh(j).step # "persist" /\ fresh(j).then # "persist"
  <2>1. \A j \in Jobs : fresh(j) \in JobStates
    BY AtType DEF Steps
  <2> QED
    BY <2>1 DEF At
<1>3. fresh(p).step = "start" /\ p \in Jobs /\ ProcessOf(p) = p
  BY DEF At, Processes, Jobs, ProcessOf
<1> HIDE DEF fresh
<1>4. \A j \in Jobs : job'[j] = IF ProcessOf(j) # p THEN job[j] ELSE fresh(j)
  BY <1>1
<1>5. job' \in [Jobs -> JobStates]
  BY <1>1, <1>2 DEF Inductive, TypeOK
<1>6. ApiFetchesWhole' /\ PersistingHolds'
  <2>1. ApiFetchesWhole'
    <3>1. \A j \in {"api", "request"} : job'[j].full
      BY <1>2, <1>4 DEF Inductive, ApiFetchesWhole, Jobs
    <3> QED
      BY <3>1 DEF ApiFetchesWhole
  <2>2. PersistingHolds'
    BY <1>2, <1>4 DEF Inductive, PersistingHolds
  <2> QED
    BY <2>1, <2>2
<1>7. /\ curve' \in [Processes -> Seq(Points)]
      /\ curve'[p] = <<>>
      /\ \A q \in Processes : q # p => curve'[q] = curve[q]
  BY <1>1, EmptySeq DEF Inductive, TypeOK
<1>8. Unmixed(curve'["api"])
  <2>1. Unmixed(<<>>)
    BY DEF Unmixed
  <2> QED
    BY <1>7, <2>1 DEF Inductive, ServedCurveHasOneSource, Processes
<1>9. NothingBlanked
  BY <1>3, <1>4, <1>7 DEF NothingBlanked
<1> QED
  BY <1>5, <1>6, <1>7, <1>8, <1>9 DEF CurvesKept

-----------------------------------------------------------------------------
(* The actions *)

LEMMA OverlayType ==
    ASSUME TypeOK, NEW p \in Processes, Overlay(p)
    PROVE  env' \in [Processes -> Sources] /\ env'[p] \in Sources
<1>1. (IF stored = "unset" THEN env[p] ELSE stored) \in Sources
  BY DEF TypeOK
<1>2. env' = [env EXCEPT ![p] = IF stored = "unset" THEN env[p] ELSE stored]
  BY DEF Overlay
<1> QED
  BY <1>1, <1>2 DEF TypeOK

\* What every step preserves besides the coroutines and the curves.
RestOK ==
    /\ stored \in Sources \cup {"unset"}
    /\ env \in [Processes -> Sources]
    /\ {fingerprint, current} \subseteq Sources \cup {"unset", "none"}
    /\ table \subseteq Points
    /\ since \in 0 .. ResearchEvery
    /\ clock \in 0 .. MaxFetches
    /\ events \in Nat
    /\ missed \in BOOLEAN

CoroutinesKept == job' \in [Jobs -> JobStates] /\ ApiFetchesWhole' /\ PersistingHolds'

LEMMA InductiveParts ==
    /\ Inductive => RestOK
    /\ RestOK' /\ CoroutinesKept /\ CurvesKept => Inductive' /\ NothingBlanked
  BY DEF Inductive, TypeOK, RestOK, CoroutinesKept, CurvesKept, ServedCurveHasOneSource

\* All that a step has to keep.
Kept == RestOK' /\ CoroutinesKept /\ CurvesKept

\* A step that spends an event, or none, leaves their number a number.
LEMMA EventCounts == ASSUME events \in Nat, Event \/ UNCHANGED events PROVE events' \in Nat
  BY DEF Event

LEMMA StartingKeeps ==
    ASSUME Inductive, NEW p \in Processes, Start(p) \/ BootReload(p)
    PROVE  Kept
<1>0. p \in Jobs /\ RestOK
  BY ProcessesAreJobs, InductiveParts
<1>1. /\ env' \in [Processes -> Sources] /\ env'[p] \in Sources
  <2>1. Overlay(p) \/ UNCHANGED env
    BY DEF Start, BootReload
  <2> QED
    BY <1>0, <2>1, OverlayType DEF Inductive, RestOK
<1>2. PICK then \in Steps \ {"persist"} : StartFetch(p, TRUE, then, env'[p])
  BY DEF Start, BootReload, AfterBoot, Steps
<1>3. events' \in Nat
  BY <1>0, EventCounts DEF RestOK, Start, BootReload
<1>4. /\ clock' \in 0 .. MaxFetches
      /\ \E next : Becomes(p, next)
  BY <1>0, <1>1, <1>2, StartFetchBecomes
<1>5. CoroutinesKept
  BY <1>0, <1>4, BecomesKeeps DEF CoroutinesKept
<1>6. CurvesKept
  <2>1. UNCHANGED curve
    BY DEF Start, BootReload
  <2> QED
    BY <2>1, SameCurves
<1>7. RestOK'
  <2>1. UNCHANGED <<stored, fingerprint, current, missed, table, since>>
    BY DEF Start, BootReload
  <2> QED
    BY <1>0, <1>1, <1>3, <1>4, <2>1 DEF RestOK
<1> QED
  BY <1>5, <1>6, <1>7 DEF Kept

(***************************************************************************)
(* A reload that cannot read the configuration table leaves the curves as  *)
(* they are.                                                               *)
(***************************************************************************)
LEMMA FailedReloadKeeps ==
    ASSUME Inductive, NEW p \in Processes,
           BootReloadFails(p) \/ (p = "worker" /\ ReapplyFails)
    PROVE  Kept
<1>0. p \in Jobs /\ RestOK
  BY ProcessesAreJobs, InductiveParts
<1>1. \E step \in Steps \ {"persist"} : Goto(p, step)
  BY DEF BootReloadFails, ReapplyFails, AfterBoot, Steps
<1>2. \E next : Becomes(p, next)
  BY <1>0, <1>1, GotoBecomes
<1>3. CoroutinesKept
  BY <1>0, <1>2, BecomesKeeps DEF CoroutinesKept
<1>4. CurvesKept
  <2>1. UNCHANGED curve
    BY DEF BootReloadFails, ReapplyFails, market
  <2> QED
    BY <2>1, SameCurves
<1>5. events' \in Nat
  BY <1>0, EventCounts DEF RestOK, BootReloadFails, ReapplyFails
<1>6. RestOK'
  BY <1>0, <1>5 DEF RestOK, BootReloadFails, ReapplyFails, market
<1> QED
  BY <1>3, <1>4, <1>6 DEF Kept

LEMMA WorkerKeeps ==
    ASSUME Inductive, ReadFingerprint \/ Poll \/ CheckConfig \/ Reapply \/ FullRefresh
    PROVE  Kept
<1>0. "worker" \in Jobs /\ "worker" \in Processes
  BY DEF Jobs, Processes
<1>1. CurvesKept
  <2>1. UNCHANGED curve
    BY DEF ReadFingerprint, Poll, CheckConfig, Reapply, FullRefresh, market
  <2> QED
    BY <2>1, SameCurves
<1>2. RestOK
  BY InductiveParts
<1>3. CASE ReadFingerprint
  <2>1. Becomes("worker", At("poll"))
    BY <1>0, <1>3, GotoBecomes DEF ReadFingerprint, Steps
  <2>2. CoroutinesKept
    BY <1>0, <2>1, BecomesKeeps DEF CoroutinesKept
  <2>3. events' \in Nat
    BY <1>2, <1>3, EventCounts DEF RestOK, ReadFingerprint, FingerprintIs
  <2>4. RestOK'
    BY <1>2, <1>3, <2>3 DEF RestOK, ReadFingerprint, market
  <2> QED
    BY <1>1, <2>2, <2>4 DEF Kept
<1>4. CASE Poll
  <2> DEFINE next == IF since < ResearchEvery THEN "poll" ELSE "check"
  <2>1. next \in Steps /\ next # "persist"
    BY DEF Steps
  <2>2. \/ StartFetch("worker", FALSE, next, env["worker"])
        \/ Goto("worker", next) /\ UNCHANGED clock
    BY <1>4 DEF Poll
  <2>3. env["worker"] \in Sources
    BY <1>0, <1>2 DEF RestOK
  <2>4. clock' \in 0 .. MaxFetches /\ \E new : Becomes("worker", new)
    <3> HIDE DEF next
    <3>1. CASE StartFetch("worker", FALSE, next, env["worker"])
      BY <1>0, <2>1, <2>3, <3>1, StartFetchBecomes
    <3>2. CASE Goto("worker", next) /\ UNCHANGED clock
      BY <1>0, <1>2, <2>1, <3>2, GotoBecomes DEF RestOK
    <3> QED
      BY <2>2, <3>1, <3>2
  <2>5. CoroutinesKept
    BY <1>0, <2>4, BecomesKeeps DEF CoroutinesKept
  <2>6. since' \in 0 .. ResearchEvery
    BY <1>2, <1>4, BoundAssumption DEF RestOK, Poll
  <2>7. RestOK'
    BY <1>2, <1>4, <2>4, <2>6 DEF RestOK, Poll, config
  <2> QED
    BY <1>1, <2>5, <2>7 DEF Kept
<1>5. CASE CheckConfig
  <2>1. \E step \in Steps : Goto("worker", step) /\ step # "persist"
    BY <1>5 DEF CheckConfig, Steps
  <2>2. \E new : Becomes("worker", new)
    BY <1>0, <2>1, GotoBecomes
  <2>3. CoroutinesKept
    BY <1>0, <2>2, BecomesKeeps DEF CoroutinesKept
  <2>4. events' \in Nat
    BY <1>2, <1>5, EventCounts DEF RestOK, CheckConfig, FingerprintIs
  <2>5. RestOK'
    BY <1>2, <1>5, <2>4 DEF RestOK, CheckConfig, market
  <2> QED
    BY <1>1, <2>3, <2>5 DEF Kept
<1>6. CASE Reapply
  <2>1. env' \in [Processes -> Sources] /\ env'["worker"] \in Sources
    BY <1>0, <1>6, OverlayType DEF Reapply, Inductive
  <2>2. StartFetch("worker", TRUE, "full", env'["worker"]) /\ "full" \in Steps
    BY <1>6 DEF Reapply, Steps
  <2>3. clock' \in 0 .. MaxFetches /\ \E new : Becomes("worker", new)
    BY <1>0, <2>1, <2>2, StartFetchBecomes
  <2>4. CoroutinesKept
    BY <1>0, <2>3, BecomesKeeps DEF CoroutinesKept
  <2>5. RestOK'
    BY <1>2, <1>6, <2>1, <2>3 DEF RestOK, Reapply
  <2> QED
    BY <1>1, <2>4, <2>5 DEF Kept
<1>7. CASE FullRefresh
  <2>1. env["worker"] \in Sources
    BY <1>0, <1>2 DEF RestOK
  <2>2. StartFetch("worker", TRUE, "poll", env["worker"]) /\ "poll" \in Steps
    BY <1>7 DEF FullRefresh, Steps
  <2>3. clock' \in 0 .. MaxFetches /\ \E new : Becomes("worker", new)
    BY <1>0, <2>1, <2>2, StartFetchBecomes
  <2>4. CoroutinesKept
    BY <1>0, <2>3, BecomesKeeps DEF CoroutinesKept
  <2>5. RestOK'
    BY <1>2, <1>7, <2>3 DEF RestOK, FullRefresh, config
  <2> QED
    BY <1>1, <2>4, <2>5 DEF Kept
<1> QED
  BY <1>3, <1>4, <1>5, <1>6, <1>7

LEMMA RefreshKeeps ==
    ASSUME Inductive, NEW j \in Jobs, Refresh(j) \/ PersistFails(j)
    PROVE  Kept
<1>0. RestOK
  BY InductiveParts
<1>1. job[j] \in JobStates /\ job[j].then \in Steps
  BY DEF Inductive, TypeOK, JobStates
<1>2. CASE FetchAnswered(j)
  <2>1. RestOK'
    BY <1>0, <1>2 DEF RestOK, FetchAnswered, config
  <2> QED
    BY <1>2, <2>1, FetchAnsweredKeeps, BecomesKeeps DEF Kept, CoroutinesKept
<1>3. CASE FetchEmpty(j) \/ PersistFails(j)
  <2>1. Becomes(j, At(job[j].then))
    <3>1. Goto(j, job[j].then)
      BY <1>3 DEF FetchEmpty, PersistFails
    <3> QED
      BY <1>1, <3>1, GotoBecomes DEF Inductive, PersistingHolds
  <2>2. CoroutinesKept
    BY <2>1, BecomesKeeps DEF CoroutinesKept
  <2>3. CurvesKept
    <3>1. UNCHANGED curve
      BY <1>3 DEF FetchEmpty, PersistFails, market
    <3> QED
      BY <3>1, SameCurves
  <2>4. RestOK'
    BY <1>0, <1>3, EventCounts DEF RestOK, FetchEmpty, PersistFails, config, market
  <2> QED
    BY <2>2, <2>3, <2>4 DEF Kept
<1>4. CASE Persist(j)
  <2> DEFINE drafts == job[j].drafts
  <2>1. drafts \in Seq(Points) /\ drafts # <<>>
    BY <1>1, <1>4 DEF Inductive, PersistingHolds, Persist, JobStates
  <2>2. /\ Head(drafts) \in Points
        /\ Tail(drafts) \in Seq(Points) /\ Len(Tail(drafts)) = Len(drafts) - 1
    <3> HIDE DEF drafts
    <3> QED
      BY <2>1, HeadTailProperties
  <2>3. \E next : Becomes(j, next)
    <3>1. CASE Len(drafts) = 1
      <4>1. Goto(j, job[j].then)
        BY <1>4, <3>1 DEF Persist
      <4> QED
        BY <1>1, <4>1, GotoBecomes DEF Inductive, PersistingHolds
    <3>2. CASE Len(drafts) # 1
      <4> DEFINE next == [job[j] EXCEPT !.drafts = Tail(drafts)]
      <4>1. next \in JobStates
        BY <1>1, <2>2 DEF JobStates
      <4>2. Tail(drafts) # <<>>
        <5> HIDE DEF drafts
        <5>1. Len(drafts) \in Nat \ {0}
          BY <2>1, EmptySeq
        <5>2. Len(Tail(drafts)) # 0
          BY <2>2, <3>2, <5>1
        <5>3. \A s \in Seq(Points) : Len(s) # 0 => s # <<>>
          OBVIOUS
        <5> QED
          BY <2>2, <5>2, <5>3
      <4>3. /\ next.drafts = Tail(drafts) /\ next.full = job[j].full
            /\ next.then = job[j].then
        BY <1>1 DEF JobStates
      <4>4. job[j].then # "persist" /\ (j # "worker" => job[j].full)
        BY DEF Inductive, PersistingHolds, ApiFetchesWhole, Jobs
      <4>5. job' = [job EXCEPT ![j] = next]
        BY <1>4, <3>2 DEF Persist
      <4> QED
        BY <4>1, <4>2, <4>3, <4>4, <4>5 DEF Becomes
    <3> QED
      BY <3>1, <3>2
  <2>4. CoroutinesKept
    BY <2>3, BecomesKeeps DEF CoroutinesKept
  <2>5. CurvesKept
    <3>1. UNCHANGED curve
      BY <1>4 DEF Persist
    <3> QED
      BY <3>1, SameCurves
  <2>6. RestOK'
    BY <1>0, <1>4, <2>2 DEF RestOK, Persist, config
  <2> QED
    BY <2>4, <2>5, <2>6 DEF Kept
<1> QED
  BY <1>2, <1>3, <1>4 DEF Refresh

LEMMA ApiKeeps ==
    ASSUME Inductive, RehydrateRead \/ RehydrateApply \/ Request
    PROVE  Kept
<1>0. /\ RestOK
      /\ "api" \in Jobs /\ "api" \in Processes /\ "request" \in Jobs
  BY InductiveParts DEF Jobs, Processes
<1>1. CASE RehydrateRead
  <2>1. PICK scan \in Scanned(table) :
          job' = [job EXCEPT !["api"].step = "apply",
                             !["api"].drafts = LatestPerSeries(scan)]
    BY <1>1 DEF RehydrateRead
  <2>2. scan \in SUBSET Points
    BY <1>0 DEF Scanned, RestOK
  <2>3. PICK drafts \in Seq(Points) : drafts = LatestPerSeries(scan)
    BY <2>2, LatestPerSeriesType, SeqMonotonic
  <2> DEFINE next == [job["api"] EXCEPT !.step = "apply", !.drafts = drafts]
  <2>4. job["api"] \in JobStates
    BY <1>0 DEF Inductive, TypeOK
  <2>5. next \in JobStates
    BY <2>4 DEF JobStates, Steps
  <2>6. next.step = "apply" /\ next.full = job["api"].full /\ next.then = job["api"].then
    BY <2>4 DEF JobStates
  <2>7. job["api"].then # "persist" /\ job["api"].full
    BY <1>0 DEF Inductive, PersistingHolds, ApiFetchesWhole
  <2>8. job' = [job EXCEPT !["api"] = next]
    BY <2>1, <2>3
  <2>9. Becomes("api", next)
    <3> HIDE DEF next
    <3> QED
      BY <2>5, <2>6, <2>7, <2>8 DEF Becomes
  <2>10. CoroutinesKept
    BY <1>0, <2>9, BecomesKeeps DEF CoroutinesKept
  <2>11. CurvesKept
    <3>1. UNCHANGED curve
      BY <1>1 DEF RehydrateRead, market
    <3> QED
      BY <3>1, SameCurves
  <2>12. RestOK'
    BY <1>0, <1>1 DEF RestOK, RehydrateRead, config, market
  <2> QED
    BY <2>10, <2>11, <2>12 DEF Kept
<1>2. CASE RehydrateApply
  <2>1. Becomes("api", At("serve"))
    BY <1>0, <1>2, GotoBecomes DEF RehydrateApply, Steps
  <2>2. CoroutinesKept
    BY <1>0, <2>1, BecomesKeeps DEF CoroutinesKept
  <2>3. RestOK'
    BY <1>0, <1>2 DEF RestOK, RehydrateApply, config
  <2> QED
    BY <1>2, <2>2, <2>3, RehydrateApplyKeeps DEF Kept
<1>3. CASE Request
  <2>1. env' \in [Processes -> Sources] /\ env'["api"] \in Sources
    <3>1. Overlay("api") \/ UNCHANGED env
      BY <1>3 DEF Request
    <3> QED
      BY <1>0, <3>1, OverlayType DEF Inductive, RestOK
  <2>2. StartFetch("request", TRUE, "idle", env'["api"]) /\ "idle" \in Steps
    BY <1>3 DEF Request, Steps
  <2>3. clock' \in 0 .. MaxFetches /\ \E next : Becomes("request", next)
    BY <1>0, <2>1, <2>2, StartFetchBecomes
  <2>4. CoroutinesKept
    BY <1>0, <2>3, BecomesKeeps DEF CoroutinesKept
  <2>5. CurvesKept
    <3>1. UNCHANGED curve
      BY <1>3 DEF Request
    <3> QED
      BY <3>1, SameCurves
  <2>6. RestOK'
    BY <1>0, <1>3, <2>1, <2>3, EventCounts DEF RestOK, Request
  <2> QED
    BY <2>4, <2>5, <2>6 DEF Kept
<1> QED
  BY <1>1, <1>2, <1>3

LEMMA SettingKeeps ==
    ASSUME Inductive, NEW value \in Settings, SetConfig(value)
    PROVE  Kept
<1>1. RestOK
  BY InductiveParts
<1>2. RestOK'
  <2>1. events' \in Nat /\ stored' \in Sources \cup {"unset"}
    BY <1>1, EventCounts, SourceAssumption DEF RestOK, SetConfig
  <2>2. missed' \in BOOLEAN
    BY Zenon DEF SetConfig
  <2> QED
    BY <1>1, <2>1, <2>2 DEF RestOK, SetConfig, market
<1>3. UNCHANGED <<job, curve>>
  BY DEF SetConfig, market
<1>4. CoroutinesKept
  BY <1>3 DEF CoroutinesKept, Inductive, TypeOK, ApiFetchesWhole, PersistingHolds
<1> QED
  BY <1>2, <1>3, <1>4, SameCurves DEF Kept

(***************************************************************************)
(* The inductive invariant, and what no step does to a curve.              *)
(***************************************************************************)
LEMMA StepsKeep ==
    ASSUME Inductive, [Next]_vars
    PROVE  Inductive' /\ (UNCHANGED vars \/ NothingBlanked)
<1>0. /\ "worker" \in Processes /\ "api" \in Processes
      /\ "worker" \in Jobs /\ "api" \in Jobs /\ "request" \in Jobs
  BY DEF Processes, Jobs
<1>1. CASE Next
  <2>1. WorkerStep => Kept
    BY <1>0, StartingKeeps, FailedReloadKeeps, WorkerKeeps, RefreshKeeps DEF WorkerStep
  <2>2. ApiStep => Kept
    BY <1>0, StartingKeeps, FailedReloadKeeps, ApiKeeps, RefreshKeeps DEF ApiStep
  <2>3. Request \/ Refresh("request") => Kept
    BY <1>0, ApiKeeps, RefreshKeeps
  <2>4. ASSUME NEW value \in Settings, SetConfig(value)
        PROVE  Kept
    BY <2>4, SettingKeeps
  <2>5. ASSUME NEW j \in Jobs, PersistFails(j)
        PROVE  Kept
    BY <2>5, RefreshKeeps
  <2>6. ASSUME NEW p \in Processes, Crash(p)
        PROVE  Kept
    <3>1. CoroutinesKept /\ CurvesKept
      BY <2>6, CrashKeeps DEF CoroutinesKept
    <3>2. RestOK'
      <4>1. RestOK /\ events' \in Nat
        BY <2>6, InductiveParts, EventCounts DEF RestOK, Crash
      <4>2. env' \in [Processes -> Sources] /\ since' \in 0 .. ResearchEvery
        BY <2>6, <4>1, SourceAssumption, BoundAssumption DEF RestOK, Crash
      <4> QED
        BY <2>6, <4>1, <4>2 DEF RestOK, Crash
    <3> QED
      BY <3>1, <3>2 DEF Kept
  <2> QED
    BY <1>1, <2>1, <2>2, <2>3, <2>4, <2>5, <2>6, InductiveParts DEF Next, Kept
<1>2. CASE UNCHANGED vars
  BY <1>2 DEF vars, config, market, Inductive, TypeOK, ApiFetchesWhole, PersistingHolds,
     ServedCurveHasOneSource
<1> QED
  BY <1>1, <1>2

LEMMA InitIsInductive == Init => Inductive
<1> SUFFICES ASSUME Init
             PROVE  Inductive
  OBVIOUS
<1>1. \A j \in Jobs : /\ job[j] \in JobStates /\ job[j].full
                     /\ job[j].step # "persist" /\ job[j].then # "persist"
  <2>1. \A j \in Jobs : \E step \in {"idle", "start"} : job[j] = At(step)
    BY DEF Init
  <2>2. \A step \in {"idle", "start"} : At(step) \in JobStates
    BY AtType DEF Steps
  <2> QED
    BY <2>1, <2>2 DEF At
<1>2. TypeOK
  <2>1. job \in [Jobs -> JobStates]
    BY <1>1 DEF Init
  <2>2. curve \in [Processes -> Seq(Points)]
    BY EmptySeq DEF Init
  <2>3. RestOK
    <3>1. ResearchEvery \in Nat /\ MaxFetches \in Nat
      BY BoundAssumption
    <3>2. env \in [Processes -> Sources]
      BY SourceAssumption DEF Init
    <3>3. since \in 0 .. ResearchEvery /\ clock \in 0 .. MaxFetches
      BY <3>1 DEF Init
    <3>4. events \in Nat
      BY DEF Init
    <3> QED
      BY <3>2, <3>3, <3>4 DEF Init, RestOK
  <2> QED
    BY <2>1, <2>2, <2>3 DEF RestOK, TypeOK
<1>3. ServedCurveHasOneSource
  BY DEF Init, ServedCurveHasOneSource, Unmixed, Processes
<1>4. ApiFetchesWhole /\ PersistingHolds
  BY <1>1 DEF ApiFetchesWhole, PersistingHolds, Jobs
<1> QED
  BY <1>2, <1>3, <1>4 DEF Inductive

LEMMA AlwaysInductive == Spec => []Inductive
<1>1. Inductive /\ [Next]_vars => Inductive'
  BY StepsKeep
<1> QED
  BY <1>1, InitIsInductive, PTL DEF Spec

-----------------------------------------------------------------------------

(***************************************************************************)
(* Every state of the two processes and of the store is well formed.       *)
(***************************************************************************)
THEOREM MarketTypes == Spec => []TypeOK
<1>1. Inductive => TypeOK
  BY DEF Inductive
<1> QED
  BY <1>1, AlwaysInductive, PTL

(***************************************************************************)
(* The curve that the API serves is of one source, whatever the store      *)
(* holds and however its own refreshes, a request's and the rows read back *)
(* overtake one another (rehydrate_market_from_db).                        *)
(***************************************************************************)
THEOREM ServedCurveIsNeverMixed == Spec => []ServedCurveHasOneSource
<1>1. Inductive => ServedCurveHasOneSource
  BY DEF Inductive
<1> QED
  BY <1>1, AlwaysInductive, PTL

(***************************************************************************)
(* No process that has a curve loses it, except by dying                   *)
(* (ingest_from_provider: "never overwrite good state with nothing").      *)
(***************************************************************************)
THEOREM GoodCurvesStay == Spec => CurveIsNeverBlanked
<1>1. Inductive /\ [Next]_vars =>
        [\A p \in Processes :
           curve[p] # <<>> /\ job'[p].step # "start" => curve'[p] # <<>>]_vars
  BY StepsKeep DEF NothingBlanked
<1> QED
  BY <1>1, AlwaysInductive, PTL DEF Spec, CurveIsNeverBlanked
=============================================================================
