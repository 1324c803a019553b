------------------------- MODULE FeedScheduleProofs -------------------------
(***************************************************************************)
(* The schedule of the feeds, for any feeds, intervals, edits and faults:  *)
(* how far apart the fetches of one feed are, although a tick decides what *)
(* is due once and then awaits one upstream after the other.               *)
(***************************************************************************)
EXTENDS FeedSchedule, FiniteSetTheorems, WellFoundedInduction, TLAPS

-----------------------------------------------------------------------------
(* The first of some feeds *)

\* A set of numbers has a least one.
LEMMA LeastNumber ==
    ASSUME NEW some \in SUBSET Nat, some # {}
    PROVE  \E n \in some : \A m \in some : n <= m
<1> DEFINE below(n) == 0 .. n - 1
           belows == {below(n) : n \in some}
           smaller == StrictSubsetOrdering(Nat)
<1>1. IsWellFoundedOn(smaller, FiniteSubsetsOf(Nat))
  BY FS_StrictSubsetOrderingWellFounded
<1>2. \A n \in some : IsFiniteSet(below(n)) /\ below(n) \in SUBSET Nat
  BY FS_Interval
<1>3. belows \subseteq FiniteSubsetsOf(Nat) /\ belows # {}
  BY <1>2 DEF FiniteSubsetsOf
<1> HIDE DEF smaller
<1>4. PICK x \in belows : \A y \in belows : ~ (<<y, x>> \in smaller)
  <2> HIDE DEF belows
  <2> QED
    BY <1>1, <1>3, WFMin
<1>5. PICK n \in some : x = below(n)
  OBVIOUS
<1>6. ASSUME NEW m \in some, m < n
      PROVE  FALSE
  <2>1. below(m) \subseteq below(n) /\ m \in below(n) /\ m \notin below(m)
    BY <1>6
  <2>2. <<below(m), below(n)>> \in StrictSubsetOrdering(Nat)
    <3> HIDE DEF below
    <3> QED
      BY <2>1, <1>2 DEF StrictSubsetOrdering
  <2> QED
    BY <2>2, <1>4, <1>5 DEF smaller
<1> QED
  BY <1>6

\* The first of some feeds is one of them.
LEMMA FirstIsOne ==
    ASSUME NEW q \in SUBSET Feeds, q # {}
    PROVE  First(q) \in q
<1> DEFINE places == {i \in DOMAIN FeedOrder : FeedOrder[i] \in q}
<1>1. places \in SUBSET Nat
  BY FeedAssumption
<1>2. places # {}
  BY DEF Feeds
<1>3. PICK i \in places : \A j \in places : i <= j
  <2> HIDE DEF places
  <2> QED
    BY <1>1, <1>2, LeastNumber
<1>4. /\ i \in DOMAIN FeedOrder /\ FeedOrder[i] \in q
      /\ \A j \in 1 .. i - 1 : FeedOrder[j] \notin q
  <2> SUFFICES ASSUME NEW j \in 1 .. i - 1, FeedOrder[j] \in q
               PROVE  FALSE
    OBVIOUS
  <2>1. i \in 1 .. Len(FeedOrder) /\ DOMAIN FeedOrder = 1 .. Len(FeedOrder)
    BY FeedAssumption
  <2>2. j \in DOMAIN FeedOrder /\ j < i /\ i \in Nat /\ j \in Nat
    BY <2>1
  <2>3. j \in places
    BY <2>2
  <2> QED
    BY <1>3, <2>2, <2>3
<1> QED
  BY <1>4 DEF First

-----------------------------------------------------------------------------
(* The invariant *)

\* The feed whose fetch has begun and is not stamped yet.
Unstamped(p) == step \in {"fetch", "stamp"} /\ p = First(queue)

(***************************************************************************)
(* A tick goes through the feeds that it found due.  Of every feed that no *)
(* fault or edit excuses: its stamp is no older than its last fetch, and   *)
(* will be, if the fetch is on its way; and while it waits for its turn it *)
(* stays due.                                                              *)
(***************************************************************************)
ScheduleHolds ==
    /\ step = "sleep" <=> queue = {}
    /\ \A p \in Feeds : ~excused[p] =>
         /\ ~Unstamped(p) => rows[p].age <= attempt[p]
         /\ Unstamped(p) => lag <= attempt[p]
         /\ p \in queue /\ p # First(queue) => EffectiveInterval(p, rows[p]) <= attempt[p]

\* The types are all that it needs besides.
ScheduleInductive == TypeOK /\ ScheduleHolds

\* An interval is a number.
LEMMA IntervalIsNumber ==
    ASSUME NEW p \in Feeds, NEW row \in Rows
    PROVE  EffectiveInterval(p, row) \in 0 .. Cap
<1>1. row.frequency \in 0 .. Cap /\ Default[p] \in 0 .. Cap
  <2>1. row.frequency \in {0} \cup Frequencies
    BY DEF Rows
  <2>2. 0 \in 0 .. Cap /\ Frequencies \subseteq 0 .. Cap /\ Default[p] \in 0 .. Cap
    BY CapAssumption
  <2> QED
    BY <2>1, <2>2
<1> QED
  BY <1>1 DEF EffectiveInterval

\* Ages grow together.
LEMMA AgesGrow ==
    ASSUME NEW a \in Ages, NEW b \in Ages
    PROVE  /\ Later(a) \in Ages /\ a <= Later(a)
           /\ a <= b => Later(a) <= Later(b)
BY CapAssumption DEF Ages, Later

LEMMA ScheduleTypes ==
    ASSUME TypeOK, [Next]_vars
    PROVE  TypeOK'
<1>1. CASE TimePasses
  <2>1. rows' \in [Feeds -> Rows]
    <3>1. \A p \in Feeds : [rows[p] EXCEPT !.age = Later(@)] \in Rows
      BY AgesGrow DEF TypeOK, Rows
    <3> QED
      BY <1>1, <3>1 DEF TimePasses
  <2>2. attempt' \in [Feeds -> Ages] /\ lag' \in Ages
    BY <1>1, AgesGrow, CapAssumption DEF TimePasses, TypeOK, Ages
  <2> QED
    BY <1>1, <2>1, <2>2 DEF TimePasses, TypeOK, bounds
<1>2. ASSUME NEW q \in SUBSET Feeds, NEW ago \in Ages, StartFetch(q, ago),
             lag' \in {0, lag}, UNCHANGED <<rows, registered, request, bounds>>
      PROVE  TypeOK'
  <2>1. q # {} => First(q) \in Feeds
    BY FirstIsOne
  <2>2. attempt' \in [Feeds -> Ages] /\ excused' \in [Feeds -> BOOLEAN]
    BY <1>2, <2>1 DEF StartFetch, TypeOK
  <2>3. lag' \in Ages
    BY <1>2, CapAssumption DEF TypeOK, Ages
  <2>4. step' \in {"sleep", "fetch"} /\ queue' \in SUBSET Feeds
    BY <1>2 DEF StartFetch
  <2> QED
    BY <1>2, <2>2, <2>3, <2>4 DEF TypeOK, bounds
<1>3. CASE BeginTick
  <2>1. {p \in registered : IsDue(p, rows[p])} \in SUBSET Feeds
    BY DEF TypeOK
  <2>2. 0 \in Ages
    BY CapAssumption DEF Ages
  <2> QED
    BY <1>2, <1>3, <2>1, <2>2 DEF BeginTick
<1>4. CASE Recorded
  BY <1>2, <1>4 DEF Recorded, TypeOK
<1>5. CASE Stamped
  <2>1. rows' \in [Feeds -> Rows]
    BY <1>5 DEF Stamped, TypeOK, Rows
  <2> QED
    BY <1>5, <2>1 DEF Stamped, TypeOK, bounds, history
<1>6. CASE ManualStamped
  <2>1. rows' \in [Feeds -> Rows]
    BY <1>6, CapAssumption DEF ManualStamped, TypeOK, Rows, Ages
  <2> QED
    BY <1>6, <2>1 DEF ManualStamped, TypeOK, bounds, history, worker
<1>7. ASSUME NEW p \in Feeds, Patch(p)
      PROVE  TypeOK'
  <2>1. rows' \in [Feeds -> Rows]
    <3>1. PICK on, off \in BOOLEAN : \E f \in Frequencies \cup {rows[p].frequency} :
            rows' = [rows EXCEPT ![p].enabled = on, ![p].paused = off, ![p].frequency = f]
      BY <1>7 DEF Patch
    <3>2. PICK f \in Frequencies \cup {rows[p].frequency} :
            rows' = [rows EXCEPT ![p].enabled = on, ![p].paused = off, ![p].frequency = f]
      BY <3>1
    <3>3. rows[p] \in Rows /\ f \in {0} \cup Frequencies
      BY DEF TypeOK, Rows
    <3>4. PICK row : row = [rows[p] EXCEPT !.enabled = on, !.paused = off, !.frequency = f]
      OBVIOUS
    <3>5. row \in Rows
      BY <3>3, <3>4 DEF Rows
    <3>6. rows' = [rows EXCEPT ![p] = row]
      BY <3>2, <3>4 DEF TypeOK
    <3> QED
      BY <3>5, <3>6 DEF TypeOK
  <2>2. excused' \in [Feeds -> BOOLEAN]
    BY <1>7 DEF Patch, TypeOK
  <2> QED
    BY <1>7, <2>1, <2>2 DEF Patch, TypeOK, worker
<1>8. CASE Ingested
  BY <1>8 DEF Ingested, TypeOK, bounds
<1>9. CASE StampLost
  <2>1. excused' = [excused EXCEPT ![First(queue)] = TRUE]
    BY <1>9 DEF StampLost
  <2>2. excused' \in [Feeds -> BOOLEAN]
    BY <2>1 DEF TypeOK
  <2> QED
    BY <1>9, <2>2 DEF StampLost, TypeOK
<1>10. CASE Crash
  <2>1. excused' \in {excused, [excused EXCEPT ![First(queue)] = TRUE]}
    BY <1>10 DEF Crash
  <2>2. excused' \in [Feeds -> BOOLEAN]
    BY <2>1 DEF TypeOK
  <2>3. lag' \in Ages
    BY <1>10, CapAssumption DEF Crash, Ages
  <2> QED
    BY <1>10, <2>2, <2>3 DEF Crash, TypeOK
<1>11. CASE Reload
  BY <1>11 DEF Reload, TypeOK, worker, history
<1>12. ASSUME NEW p \in Feeds, ManualRefresh(p)
       PROVE  TypeOK'
  BY <1>12 DEF ManualRefresh, TypeOK, worker, bounds, history
<1>13. CASE ManualFails
  BY <1>13 DEF ManualFails, TypeOK, worker, history
<1>14. CASE UNCHANGED vars
  BY <1>14 DEF vars, TypeOK, worker, bounds, history
<1> QED
  BY <1>1, <1>3, <1>4, <1>5, <1>6, <1>7, <1>8, <1>9, <1>10, <1>11, <1>12, <1>13, <1>14 DEF Next

\* What the invariant says of feed p.
HoldsOf(p) ==
    ~excused[p] =>
        /\ ~Unstamped(p) => rows[p].age <= attempt[p]
        /\ Unstamped(p) => lag <= attempt[p]
        /\ p \in queue /\ p # First(queue) => EffectiveInterval(p, rows[p]) <= attempt[p]

\* The fetch of the first of the feeds that wait begins.
LEMMA FetchHolds ==
    ASSUME TypeOK, NEW q \in SUBSET Feeds, NEW ago \in Ages, StartFetch(q, ago), rows' = rows,
           lag' = IF q = {} THEN 0 ELSE ago,
           \A p \in Feeds : ~excused[p] =>
              /\ rows[p].age <= attempt[p]
              /\ p \in q => EffectiveInterval(p, rows[p]) <= attempt[p]
    PROVE  ScheduleHolds'
<1>1. step' = "sleep" <=> queue' = {}
  BY DEF StartFetch
<1>2. CASE q = {}
  BY <1>1, <1>2 DEF StartFetch, ScheduleHolds, Unstamped
<1>3. CASE q # {}
  <2>1. First(q) \in q
    BY <1>3, FirstIsOne
  <2>2. /\ queue' = q /\ step' = "fetch" /\ lag' = ago
        /\ attempt' = [attempt EXCEPT ![First(q)] = ago]
        /\ excused' = [excused EXCEPT ![First(q)] = FALSE]
    BY <1>3 DEF StartFetch
  <2>3. ASSUME NEW p \in Feeds
        PROVE  HoldsOf(p)'
    <3>1. CASE p = First(q)
      <4>1. Unstamped(p)' /\ attempt'[p] = ago /\ ago <= ago
        BY <2>2, <3>1 DEF Unstamped, TypeOK, Ages
      <4> QED
        BY <2>2, <3>1, <4>1 DEF HoldsOf
    <3>2. CASE p # First(q)
      BY <2>2, <3>2 DEF HoldsOf, Unstamped, TypeOK
    <3> QED
      BY <3>1, <3>2
  <2> QED
    BY <1>1, <2>3 DEF ScheduleHolds, HoldsOf
<1> QED
  BY <1>2, <1>3

\* Every step keeps the invariant.
LEMMA ScheduleKept ==
    ASSUME ScheduleInductive, [Next]_vars
    PROVE  ScheduleInductive'
<1>0. TypeOK /\ TypeOK'
  BY ScheduleTypes DEF ScheduleInductive
<1>1. /\ step = "sleep" <=> queue = {}
      /\ \A p \in Feeds : HoldsOf(p)
  BY DEF ScheduleInductive, ScheduleHolds, HoldsOf
<1>2. SUFFICES (step' = "sleep" <=> queue' = {}) /\ \A p \in Feeds : HoldsOf(p)'
  BY <1>0 DEF ScheduleInductive, ScheduleHolds, HoldsOf
<1>3. queue # {} => First(queue) \in queue
  BY <1>0, FirstIsOne DEF TypeOK
<1>4. CASE TimePasses
  <2>1. step' = step /\ queue' = queue /\ excused' = excused
    BY <1>4 DEF TimePasses
  <2>2. ASSUME NEW p \in Feeds
        PROVE  HoldsOf(p)'
    <3>1. /\ rows'[p] = [rows[p] EXCEPT !.age = Later(@)]
          /\ attempt'[p] = Later(attempt[p])
          /\ step # "sleep" => lag' = Later(lag)
      BY <1>4 DEF TimePasses
    <3>2. rows[p] \in Rows /\ rows[p].age \in Ages /\ attempt[p] \in Ages /\ lag \in Ages
      BY <1>0 DEF TypeOK, Rows
    <3>3. rows'[p].age = Later(rows[p].age) /\ rows'[p].frequency = rows[p].frequency
      BY <3>1, <3>2 DEF Rows
    <3>4. EffectiveInterval(p, rows'[p]) = EffectiveInterval(p, rows[p])
      BY <3>3 DEF EffectiveInterval
    <3>5. /\ rows[p].age <= attempt[p] => rows'[p].age <= attempt'[p]
          /\ step # "sleep" /\ lag <= attempt[p] => lag' <= attempt'[p]
      BY <3>1, <3>2, <3>3, AgesGrow
    <3>6. EffectiveInterval(p, rows[p]) <= attempt[p] =>
            EffectiveInterval(p, rows'[p]) <= attempt'[p]
      <4>1. /\ EffectiveInterval(p, rows[p]) \in Int /\ attempt[p] \in Int /\ Later(attempt[p]) \in Int
            /\ attempt[p] <= Later(attempt[p])
        BY <3>2, IntervalIsNumber, AgesGrow, CapAssumption DEF Ages
      <4> QED
        BY <3>1, <3>4, <4>1
    <3>7. Unstamped(p)' <=> Unstamped(p)
      BY <2>1 DEF Unstamped
    <3>8. Unstamped(p) => step # "sleep"
      BY DEF Unstamped
    <3> QED
      BY <1>1, <2>1, <3>5, <3>6, <3>7, <3>8 DEF HoldsOf
  <2> QED
    BY <1>1, <2>1, <2>2
<1>5. CASE BeginTick
  <2> DEFINE q == {p \in registered : IsDue(p, rows[p])}
  <2>1. q \in SUBSET Feeds /\ 0 \in Ages
    BY <1>0, CapAssumption DEF TypeOK, Ages
  <2>2. StartFetch(q, 0) /\ lag' = 0 /\ rows' = rows /\ step = "sleep"
    BY <1>5 DEF BeginTick
  <2>3. ASSUME NEW p \in Feeds, ~excused[p]
        PROVE  /\ rows[p].age <= attempt[p]
               /\ p \in q => EffectiveInterval(p, rows[p]) <= attempt[p]
    <3>1. rows[p].age <= attempt[p]
      BY <1>1, <2>2, <2>3 DEF HoldsOf, Unstamped
    <3>2. /\ rows[p] \in Rows /\ rows[p].age \in Int /\ attempt[p] \in Int
          /\ EffectiveInterval(p, rows[p]) \in Int
      BY <1>0, IntervalIsNumber, CapAssumption DEF TypeOK, Rows, Ages
    <3>3. p \in q => EffectiveInterval(p, rows[p]) <= rows[p].age
      BY <3>2 DEF IsDue
    <3> QED
      BY <3>1, <3>2, <3>3
  <2>4. ScheduleHolds'
    <3> HIDE DEF q
    <3> QED
      BY <1>0, <2>1, <2>2, <2>3, FetchHolds
  <2> QED
    BY <2>4 DEF ScheduleHolds, HoldsOf
<1>6. CASE Recorded
  <2> DEFINE q == queue \ {First(queue)}
  <2>1. q \in SUBSET Feeds /\ lag \in Ages
    BY <1>0 DEF TypeOK
  <2>2. StartFetch(q, lag) /\ rows' = rows /\ step = "record"
    BY <1>6 DEF Recorded
  <2>3. lag' = IF q = {} THEN 0 ELSE lag
    BY <1>6 DEF Recorded, StartFetch
  <2>4. ASSUME NEW p \in Feeds, ~excused[p]
        PROVE  /\ rows[p].age <= attempt[p]
               /\ p \in q => EffectiveInterval(p, rows[p]) <= attempt[p]
    BY <1>1, <2>2, <2>4 DEF HoldsOf, Unstamped
  <2>5. ScheduleHolds'
    <3> HIDE DEF q
    <3> QED
      BY <1>0, <2>1, <2>2, <2>3, <2>4, FetchHolds
  <2> QED
    BY <2>5 DEF ScheduleHolds, HoldsOf
<1>7. CASE Ingested
  <2>1. step = "fetch" /\ step' = "stamp" /\ UNCHANGED <<rows, queue, lag, attempt, excused>>
    BY <1>7 DEF Ingested
  <2> QED
    BY <1>1, <2>1 DEF HoldsOf, Unstamped
<1>8. CASE Stamped
  <2>1. /\ step = "stamp" /\ step' = "record" /\ UNCHANGED <<queue, lag, attempt, excused>>
        /\ rows' = [rows EXCEPT ![First(queue)].age = lag]
    BY <1>8 DEF Stamped, history
  <2>2. ASSUME NEW p \in Feeds
        PROVE  HoldsOf(p)'
    <3>1. CASE p = First(queue)
      <4>1. rows'[p].age = lag
        BY <1>0, <2>1, <3>1 DEF TypeOK, Rows
      <4> QED
        BY <1>1, <2>1, <3>1, <4>1 DEF HoldsOf, Unstamped
    <3>2. CASE p # First(queue)
      <4>1. rows'[p] = rows[p]
        BY <1>0, <2>1, <3>2 DEF TypeOK
      <4> QED
        BY <1>1, <2>1, <3>2, <4>1 DEF HoldsOf, Unstamped
    <3> QED
      BY <3>1, <3>2
  <2> QED
    BY <1>1, <2>1, <2>2
<1>9. CASE StampLost
  <2>1. /\ step = "stamp" /\ step' = "record" /\ UNCHANGED <<rows, queue, lag, attempt>>
        /\ excused' = [excused EXCEPT ![First(queue)] = TRUE]
    BY <1>9 DEF StampLost
  <2>2. ASSUME NEW p \in Feeds
        PROVE  HoldsOf(p)'
    <3>1. CASE p = First(queue)
      BY <1>0, <2>1, <3>1 DEF HoldsOf, TypeOK
    <3>2. CASE p # First(queue)
      BY <1>0, <1>1, <2>1, <3>2 DEF HoldsOf, Unstamped, TypeOK
    <3> QED
      BY <3>1, <3>2
  <2> QED
    BY <1>1, <2>1, <2>2
<1>10. CASE Crash
  <2>1. /\ step' = "sleep" /\ queue' = {} /\ UNCHANGED <<rows, attempt>>
        /\ excused' = IF step = "record" THEN excused
                      ELSE [excused EXCEPT ![First(queue)] = TRUE]
    BY <1>10 DEF Crash
  <2>2. ASSUME NEW p \in Feeds, ~excused'[p]
        PROVE  ~excused[p] /\ ~Unstamped(p)
    <3>1. CASE step = "record"
      BY <2>1, <2>2, <3>1 DEF Unstamped
    <3>2. CASE step # "record"
      BY <1>0, <2>1, <2>2, <3>2 DEF Unstamped, TypeOK
    <3> QED
      BY <3>1, <3>2
  <2>3. ASSUME NEW p \in Feeds
        PROVE  HoldsOf(p)'
    BY <1>1, <2>1, <2>2 DEF HoldsOf, Unstamped
  <2> QED
    BY <2>1, <2>3
<1>11. ASSUME NEW p \in Feeds, Patch(p)
       PROVE  (step' = "sleep" <=> queue' = {}) /\ \A r \in Feeds : HoldsOf(r)'
  <2>1. /\ UNCHANGED <<step, queue, lag, attempt>>
        /\ excused' = [excused EXCEPT ![p] = @ \/ step # "sleep"]
    BY <1>11 DEF Patch, worker
  <2>2. \A r \in Feeds : rows'[r].age = rows[r].age /\ (r # p => rows'[r] = rows[r])
    BY <1>0, <1>11 DEF Patch, TypeOK, Rows
  <2>3. ASSUME NEW r \in Feeds
        PROVE  HoldsOf(r)'
    <3>1. Unstamped(r)' <=> Unstamped(r)
      BY <2>1 DEF Unstamped
    <3>2. CASE r # p
      <4>1. excused'[r] = excused[r]
        BY <1>0, <2>1, <3>2 DEF TypeOK
      <4> QED
        BY <1>1, <2>1, <2>2, <3>1, <3>2, <4>1 DEF HoldsOf
    <3>3. CASE r = p /\ step = "sleep"
      <4>1. excused'[r] = excused[r]
        BY <1>0, <2>1, <3>3 DEF TypeOK
      <4> QED
        BY <1>1, <2>1, <2>2, <3>1, <3>3, <4>1 DEF HoldsOf, Unstamped
    <3>4. CASE r = p /\ step # "sleep"
      BY <1>0, <2>1, <3>4 DEF HoldsOf, TypeOK
    <3> QED
      BY <3>2, <3>3, <3>4
  <2> QED
    BY <1>1, <2>1, <2>3
<1>12. CASE ManualStamped
  <2>1. /\ UNCHANGED <<step, queue, lag, attempt, excused>>
        /\ request \in Feeds /\ rows' = [rows EXCEPT ![request].age = 0]
    BY <1>0, <1>12 DEF ManualStamped, worker, history, TypeOK
  <2>2. ASSUME NEW p \in Feeds
        PROVE  HoldsOf(p)'
    <3>1. Unstamped(p)' <=> Unstamped(p)
      BY <2>1 DEF Unstamped
    <3>2. CASE p = request
      <4>1. rows'[p].age = 0 /\ rows'[p].frequency = rows[p].frequency
        BY <1>0, <2>1, <3>2 DEF TypeOK, Rows
      <4>2. EffectiveInterval(p, rows'[p]) = EffectiveInterval(p, rows[p])
        BY <4>1 DEF EffectiveInterval
      <4>3. 0 <= attempt[p]
        BY <1>0, CapAssumption DEF TypeOK, Ages
      <4> QED
        BY <1>1, <2>1, <3>1, <4>1, <4>2, <4>3 DEF HoldsOf
    <3>3. CASE p # request
      <4>1. rows'[p] = rows[p]
        BY <1>0, <2>1, <3>3 DEF TypeOK
      <4> QED
        BY <1>1, <2>1, <3>1, <4>1 DEF HoldsOf
    <3> QED
      BY <3>2, <3>3
  <2> QED
    BY <1>1, <2>1, <2>2
<1>13. CASE UNCHANGED <<step, queue, lag, attempt, excused, rows>>
  BY <1>1, <1>13 DEF HoldsOf, Unstamped
<1>14. CASE Reload \/ (\E p \in Feeds : ManualRefresh(p)) \/ ManualFails \/ UNCHANGED vars
  BY <1>13, <1>14 DEF Reload, ManualRefresh, ManualFails, vars, worker, history
<1> QED
  BY <1>4, <1>5, <1>6, <1>7, <1>8, <1>9, <1>10, <1>11, <1>12, <1>14 DEF Next

\* At first nothing is on its way.
LEMMA ScheduleStarts == Init => ScheduleInductive
<1> SUFFICES ASSUME Init
             PROVE  ScheduleInductive
  OBVIOUS
<1>1. NewRow \in Rows /\ Cap \in Ages /\ 0 \in Ages
  BY CapAssumption DEF NewRow, Rows, Ages
<1>2. TypeOK
  BY <1>1 DEF Init, TypeOK
<1>3. ScheduleHolds
  BY CapAssumption DEF Init, ScheduleHolds, Unstamped, NewRow
<1> QED
  BY <1>2, <1>3 DEF ScheduleInductive

\* A fetch that begins is of a feed whose interval has elapsed.
LEMMA FetchesAreSpaced ==
    ASSUME ScheduleInductive, [Next]_vars, NEW p \in Feeds,
           step' = "fetch", First(queue') = p, step # "fetch", ~excused[p]
    PROVE  attempt[p] >= EffectiveInterval(p, rows[p])
<1>0. TypeOK /\ HoldsOf(p)
  BY DEF ScheduleInductive, ScheduleHolds, HoldsOf
<1>1. /\ rows[p] \in Rows /\ rows[p].age \in Int /\ attempt[p] \in Int
      /\ EffectiveInterval(p, rows[p]) \in Int
  BY <1>0, IntervalIsNumber, CapAssumption DEF TypeOK, Rows, Ages
<1>2. BeginTick \/ Recorded
  <2>1. step' # step
    OBVIOUS
  <2> QED
    BY <2>1 DEF Next, vars, worker, TimePasses, Ingested, Stamped, StampLost, Crash, Reload,
                Patch, ManualRefresh, ManualStamped, ManualFails
<1>3. CASE BeginTick
  <2> DEFINE q == {r \in registered : IsDue(r, rows[r])}
  <2>1. queue' = q /\ q # {} /\ step = "sleep"
    BY <1>3 DEF BeginTick, StartFetch
  <2>2. q \in SUBSET Feeds
    BY <1>0 DEF TypeOK
  <2>3. p \in q
    <3> HIDE DEF q
    <3> QED
      BY <2>1, <2>2, FirstIsOne
  <2>4. rows[p].age <= attempt[p]
    BY <1>0, <2>1 DEF HoldsOf, Unstamped
  <2>5. EffectiveInterval(p, rows[p]) <= rows[p].age
    BY <1>1, <2>3 DEF IsDue
  <2> QED
    BY <1>1, <2>4, <2>5
<1>4. CASE Recorded
  <2>1. /\ queue' = queue \ {First(queue)}
        /\ queue' # {}
    BY <1>4 DEF Recorded, StartFetch
  <2>2. p \in queue \ {First(queue)}
    BY <1>0, <2>1, FirstIsOne DEF TypeOK
  <2> QED
    BY <1>0, <1>1, <2>2 DEF HoldsOf
<1> QED
  BY <1>2, <1>3, <1>4

(***************************************************************************)
(* The schedule keeps its types, and a feed is not fetched again before    *)
(* its interval has elapsed since the tick that fetched it last, for any   *)
(* number of feeds, edits, reloads, refreshes by hand and faults           *)
(* (poll_due_feeds, is_due).                                               *)
(***************************************************************************)
THEOREM PollsKeepTheirDistance == Spec => []TypeOK /\ PollsAreSpaced
<1>1. ScheduleInductive /\ [Next]_vars => ScheduleInductive'
  BY ScheduleKept
<1>2. ScheduleInductive => TypeOK
  BY DEF ScheduleInductive
<1>3. ScheduleInductive /\ [Next]_vars =>
        [\A p \in Feeds :
           /\ step' = "fetch" /\ First(queue') = p
           /\ step # "fetch"
           /\ ~excused[p]
           => attempt[p] >= EffectiveInterval(p, rows[p])]_vars
  BY FetchesAreSpaced
<1> QED
  BY <1>1, <1>2, <1>3, ScheduleStarts, PTL DEF Spec, PollsAreSpaced
=============================================================================
