---------------------------- MODULE StoresProofs ----------------------------
(***************************************************************************)
(* The stores, each for any processes or administrators and any bounds: the*)
(* history of observations, although a save reads in one await and writes  *)
(* in another; the rows of enterprise data, although an ingest goes through*)
(* half a dozen transactions, and any of them may be its last; and what a  *)
(* purge deletes, although its policy was read in an earlier await.        *)
(***************************************************************************)
EXTENDS ObservationHistory, EnterpriseIngest, DataRetention, SequenceTheorems,
        FiniteSetTheorems, FunctionTheorems, TLAPS

-----------------------------------------------------------------------------
(* The history of observations *)

(***************************************************************************)
(* As long as no two saves overlapped, one process at most is about to     *)
(* write, and what it has read is what is current.                         *)
(***************************************************************************)
ReadIsCurrent ==
    ~overlapped =>
        \A p \in Processes : save[p].step = "write" =>
            /\ \A q \in Processes : save[q].step = "write" => q = p
            /\ Current = IF save[p].prior = 0 THEN {} ELSE {save[p].prior}

\* NothingForgotten and HighestRevisionIsCurrent need nothing but the types;
\* OneCurrentUnlessOverlapped needs what a save has read.
Inductive == TypeOK /\ HistoryIsSound /\ ReadIsCurrent

-----------------------------------------------------------------------------
(* The rows *)

\* Row i is closed at time t, if there is such a row, and the draft is appended.
Supersedes(i, d) == rows' = Superseded(i, d)

(***************************************************************************)
(* What superseding does to the rows: the rows keep what they say, row i   *)
(* gets an end, and there is one open row more.                            *)
(***************************************************************************)
LEMMA SupersededRows ==
    ASSUME TypeOK, NEW i \in 0 .. Len(rows), NEW d \in Drafts, Supersedes(i, d)
    PROVE  /\ rows' \in Seq(Rows)
           /\ Len(rows') = Len(rows) + 1
           /\ rows'[Len(rows) + 1] = NewRow(d)
           /\ \A k \in 1 .. Len(rows) :
                /\ rows'[k].version = rows[k].version
                /\ rows'[k].revision = rows[k].revision
                /\ rows'[k].publication = rows[k].publication
                /\ rows'[k].valid_to = IF k = i THEN d.publication ELSE rows[k].valid_to
<1> DEFINE before == IF i = 0 THEN rows ELSE [rows EXCEPT ![i].valid_to = d.publication]
<1>1. rows \in Seq(Rows) /\ Len(rows) \in Nat /\ DOMAIN rows = 1 .. Len(rows)
  BY LenProperties DEF TypeOK
<1>2. \A k \in 1 .. Len(rows) : rows[k] \in Rows
  BY <1>1
<1>3. d.publication \in Times
  BY DEF Drafts
<1>4. /\ before \in Seq(Rows) /\ Len(before) = Len(rows)
      /\ \A k \in 1 .. Len(rows) :
            before[k] = IF k = i THEN [rows[k] EXCEPT !.valid_to = d.publication] ELSE rows[k]
  <2>1. CASE i = 0
    BY <1>1, <2>1
  <2>2. CASE i # 0
    <3> DEFINE closed == [rows[i] EXCEPT !.valid_to = d.publication]
    <3>1. i \in 1 .. Len(rows)
      BY <1>1, <2>2
    <3>2. closed \in Rows
      BY <1>2, <1>3, <3>1 DEF Rows
    <3>3. before = [rows EXCEPT ![i] = closed]
      BY <2>2
    <3> HIDE DEF closed
    <3>4. /\ [rows EXCEPT ![i] = closed] \in Seq(Rows)
          /\ Len([rows EXCEPT ![i] = closed]) = Len(rows)
          /\ \A k \in 1 .. Len(rows) :
               [rows EXCEPT ![i] = closed][k] = IF k = i THEN closed ELSE rows[k]
      BY <1>1, <3>1, <3>2, ExceptSeq
    <3> HIDE DEF before
    <3> QED
      BY <3>1, <3>3, <3>4 DEF closed
  <2> QED
    BY <2>1, <2>2
<1>5. NewRow(d) \in Rows
  BY DEF NewRow, Rows, Drafts
<1>6. rows' = Append(before, NewRow(d))
  BY DEF Supersedes, Superseded
<1> HIDE DEF before
<1>7. /\ rows' \in Seq(Rows) /\ Len(rows') = Len(rows) + 1
      /\ rows'[Len(rows) + 1] = NewRow(d)
      /\ \A k \in 1 .. Len(rows) : rows'[k] = before[k]
  BY <1>4, <1>5, <1>6, AppendProperties
<1>8. ASSUME NEW k \in 1 .. Len(rows)
      PROVE  /\ before[k].version = rows[k].version
             /\ before[k].revision = rows[k].revision
             /\ before[k].publication = rows[k].publication
             /\ before[k].valid_to = IF k = i THEN d.publication ELSE rows[k].valid_to
  BY <1>2, <1>4 DEF Rows
<1> QED
  BY <1>7, <1>8

(***************************************************************************)
(* The current rows afterwards: without row i, with the new one.           *)
(***************************************************************************)
LEMMA SupersededCurrent ==
    ASSUME TypeOK, NEW i \in 0 .. Len(rows), NEW d \in Drafts, Supersedes(i, d)
    PROVE  Current' = (Current \ {i}) \cup {Len(rows) + 1}
<1>1. rows \in Seq(Rows) /\ Len(rows) \in Nat /\ DOMAIN rows = 1 .. Len(rows)
  BY LenProperties DEF TypeOK
<1>2. DOMAIN rows' = 1 .. Len(rows) + 1
  BY SupersededRows, LenProperties
<1>3. rows'[Len(rows) + 1].valid_to = Open
  <2>1. rows'[Len(rows) + 1] = NewRow(d)
    BY SupersededRows
  <2> QED
    BY <2>1 DEF NewRow
<1>4. \A k \in 1 .. Len(rows) : rows'[k].valid_to = Open <=> rows[k].valid_to = Open /\ k # i
  <2>1. d.publication # Open
    BY BoundAssumption DEF Drafts, Times, Open
  <2> QED
    BY <2>1, SupersededRows
<1> QED
  BY <1>1, <1>2, <1>3, <1>4 DEF Current

-----------------------------------------------------------------------------
(* The three promises, when a revision supersedes another *)

(***************************************************************************)
(* A moment from the new row's publication on sees the new row, an earlier *)
(* one what it saw: the row that is closed stays visible until then.       *)
(***************************************************************************)
LEMMA NothingIsForgottenBySuperseding ==
    ASSUME TypeOK, NothingForgotten,
           NEW i \in 0 .. Len(rows), NEW d \in Drafts, Supersedes(i, d)
    PROVE  NothingForgotten'
<1>1. /\ Len(rows) \in Nat /\ DOMAIN rows = 1 .. Len(rows)
      /\ DOMAIN rows' = 1 .. Len(rows) + 1
  BY SupersededRows, LenProperties DEF TypeOK
<1>2. /\ rows'[Len(rows) + 1].publication = d.publication
      /\ rows'[Len(rows) + 1].valid_to = Open
  <2>1. rows'[Len(rows) + 1] = NewRow(d)
    BY SupersededRows
  <2> QED
    BY <2>1 DEF NewRow
<1>3. \A k \in 1 .. Len(rows) :
        /\ rows'[k].publication = rows[k].publication
        /\ rows'[k].valid_to = IF k = i THEN d.publication ELSE rows[k].valid_to
  BY SupersededRows
<1>4. d.publication \in Nat
  BY DEF Drafts, Times
<1> SUFFICES ASSUME NEW T \in Times,
                    \E k \in DOMAIN rows' : rows'[k].publication <= T
             PROVE  VisibleAt(T)' # {}
  BY DEF NothingForgotten
<1>5. T \in Nat
  BY DEF Times
<1>6. CASE d.publication <= T
  <2>1. Len(rows) + 1 \in VisibleAt(T)'
    BY <1>1, <1>2, <1>6 DEF VisibleAt
  <2> QED
    BY <2>1
<1>7. CASE ~(d.publication <= T)
  <2>1. \E k \in DOMAIN rows : rows[k].publication <= T
    BY <1>1, <1>2, <1>3, <1>7
  <2>2. PICK k \in VisibleAt(T) : TRUE
    BY <2>1 DEF NothingForgotten
  <2>3. k \in VisibleAt(T)'
    BY <1>1, <1>3, <1>4, <1>5, <1>7, <2>2 DEF VisibleAt
  <2> QED
    BY <2>3
<1> QED
  BY <1>6, <1>7

(***************************************************************************)
(* The row that is closed is of a lower revision than the new one, and so  *)
(* no highest one, whatever was committed since it was read.               *)
(***************************************************************************)
LEMMA HighestStaysCurrent ==
    ASSUME TypeOK, HighestRevisionIsCurrent,
           NEW i \in 0 .. Len(rows), NEW d \in Drafts, Supersedes(i, d),
           i = 0 \/ ~(rows[i].revision >= d.revision)
    PROVE  HighestRevisionIsCurrent'
<1>1. /\ rows \in Seq(Rows) /\ Len(rows) \in Nat /\ DOMAIN rows = 1 .. Len(rows)
      /\ DOMAIN rows' = 1 .. Len(rows) + 1
  BY SupersededRows, LenProperties DEF TypeOK
<1>2. rows'[Len(rows) + 1].revision = d.revision /\ d.revision \in Nat
  <2>1. rows'[Len(rows) + 1] = NewRow(d)
    BY SupersededRows
  <2> QED
    BY <2>1 DEF NewRow, Drafts
<1>3. \A k \in 1 .. Len(rows) : rows'[k].revision = rows[k].revision /\ rows[k].revision \in Nat
  <2>1. \A k \in 1 .. Len(rows) : rows[k] \in Rows
    BY <1>1
  <2> QED
    BY <2>1, SupersededRows DEF Rows
<1>4. Current' = (Current \ {i}) \cup {Len(rows) + 1}
  BY SupersededCurrent
<1> SUFFICES ASSUME NEW k \in DOMAIN rows',
                    \A j \in DOMAIN rows' : rows'[j].revision <= rows'[k].revision
             PROVE  k \in Current'
  BY DEF HighestRevisionIsCurrent
<1>5. CASE k = Len(rows) + 1
  BY <1>4, <1>5
<1>6. CASE k # Len(rows) + 1
  <2>1. k \in 1 .. Len(rows)
    BY <1>1, <1>6
  <2>2. k \in Current
    <3>1. \A j \in 1 .. Len(rows) : rows[j].revision <= rows[k].revision
      BY <1>1, <1>3, <2>1
    <3> QED
      BY <1>1, <2>1, <3>1 DEF HighestRevisionIsCurrent
  <2>3. d.revision <= rows[k].revision
    BY <1>1, <1>2, <1>3, <2>1
  <2>4. k # i
    BY <1>2, <1>3, <2>1, <2>3
  <2> QED
    BY <1>4, <2>2, <2>4
<1> QED
  BY <1>5, <1>6

-----------------------------------------------------------------------------
(* The steps *)

\* A step that leaves the rows alone keeps what depends on them alone.
LEMMA SameRows ==
    ASSUME UNCHANGED rows
    PROVE  /\ Current' = Current
           /\ NothingForgotten => NothingForgotten'
           /\ HighestRevisionIsCurrent => HighestRevisionIsCurrent'
  BY DEF Current, NothingForgotten, VisibleAt, HighestRevisionIsCurrent

LEMMA FetchKeeps ==
    ASSUME Inductive, NEW p \in Processes, Fetch(p)
    PROVE  Inductive'
<1> DEFINE draft == [version |-> upstream, revision |-> numbering[upstream],
                     publication |-> clock']
<1>1. clock' \in 1 .. MaxFetches
  BY BoundAssumption DEF Inductive, TypeOK, Fetch
<1>2. draft \in Drafts
  BY <1>1, NumberingAssumption DEF Inductive, TypeOK, Drafts, Times
<1>3. save' = [save EXCEPT ![p] = [step |-> "read", draft |-> draft]]
  BY DEF Fetch
<1> HIDE DEF draft
<1>4. /\ save' \in [Processes -> Saves]
      /\ \A q \in Processes : save'[q].step = "write" => save'[q] = save[q]
  BY <1>2, <1>3 DEF Inductive, TypeOK, Saves
<1>5. TypeOK'
  BY <1>1, <1>4 DEF Inductive, TypeOK, Fetch
<1>6. HistoryIsSound'
  BY SameRows DEF Inductive, HistoryIsSound, OneCurrentUnlessOverlapped, Fetch
<1>7. ReadIsCurrent'
  BY <1>4, SameRows DEF Inductive, ReadIsCurrent, Fetch
<1> QED
  BY <1>5, <1>6, <1>7 DEF Inductive

(***************************************************************************)
(* A read while nobody else is about to write finds what stays current     *)
(* until its own commit.                                                   *)
(***************************************************************************)
LEMMA ReadPriorKeeps ==
    ASSUME Inductive, NEW p \in Processes, ReadPrior(p)
    PROVE  Inductive'
<1>1. PICK i \in IF Current = {} THEN {0} ELSE HighestCurrent :
        save' = [save EXCEPT ![p] = [step |-> "write", draft |-> save[p].draft, prior |-> i]]
  BY DEF ReadPrior
<1>2. i \in 0 .. Len(rows) /\ i \in Nat
  <2>1. Len(rows) \in Nat /\ DOMAIN rows = 1 .. Len(rows)
    BY LenProperties DEF Inductive, TypeOK
  <2> QED
    BY <2>1 DEF HighestCurrent, Current
<1>3. save[p].step = "read" /\ save[p].draft \in Drafts
  BY DEF Inductive, TypeOK, Saves, ReadPrior
<1>4. save' \in [Processes -> Saves]
  BY <1>1, <1>2, <1>3 DEF Inductive, TypeOK, Saves
<1>5. /\ save'[p].step = "write" /\ save'[p].prior = i
      /\ \A q \in Processes : q # p => save'[q] = save[q]
  BY <1>1 DEF Inductive, TypeOK
<1>6. UNCHANGED rows
  BY DEF ReadPrior
<1>7. TypeOK'
  BY <1>2, <1>4, <1>5, <1>6 DEF Inductive, TypeOK, ReadPrior
<1>8. ~overlapped' => ~overlapped /\ \A q \in Processes \ {p} : save[q].step # "write"
  BY DEF ReadPrior
<1>9. HistoryIsSound'
  BY <1>6, <1>8, SameRows DEF Inductive, HistoryIsSound, OneCurrentUnlessOverlapped
<1>10. ReadIsCurrent'
  <2> SUFFICES ASSUME ~overlapped', NEW q \in Processes, save'[q].step = "write"
               PROVE  /\ \A o \in Processes : save'[o].step = "write" => o = q
                      /\ Current' = IF save'[q].prior = 0 THEN {} ELSE {save'[q].prior}
    BY DEF ReadIsCurrent
  <2>1. q = p /\ \A o \in Processes : save'[o].step = "write" => o = q
    BY <1>5, <1>8
  <2>2. Current = IF i = 0 THEN {} ELSE {i}
    <3>1. CASE Current = {}
      BY <1>1, <3>1
    <3>2. CASE Current # {}
      <4>1. i \in Current
        BY <1>1, <3>2 DEF HighestCurrent
      <4>2. i # 0
        BY <4>1, LenProperties DEF Current, Inductive, TypeOK
      <4>3. \A k \in Current : k = i
        BY <1>8, <4>1 DEF Inductive, HistoryIsSound, OneCurrentUnlessOverlapped
      <4> QED
        BY <4>1, <4>2, <4>3
    <3> QED
      BY <3>1, <3>2
  <2> QED
    BY <1>5, <1>6, <2>1, <2>2, SameRows
<1> QED
  BY <1>7, <1>9, <1>10 DEF Inductive

LEMMA CommitKeeps ==
    ASSUME Inductive, NEW p \in Processes, Commit(p)
    PROVE  Inductive'
<1>1. /\ save[p].step = "write"
      /\ save' = [save EXCEPT ![p] = Idle]
      /\ UNCHANGED <<upstream, numbering, clock, faults, overlapped>>
  BY DEF Commit
<1>2. PICK i \in 0 .. Len(rows), d \in Drafts :
        /\ i = save[p].prior
        /\ rows' = IF i # 0 /\ rows[i].revision >= d.revision THEN rows ELSE Superseded(i, d)
  BY <1>1 DEF Commit, Inductive, TypeOK, Saves
<1>3. /\ save' \in [Processes -> Saves]
      /\ save'[p].step = "idle"
      /\ \A q \in Processes : q # p => save'[q] = save[q]
  BY <1>1 DEF Inductive, TypeOK, Saves, Idle
<1>4. ~overlapped =>
        /\ \A q \in Processes : save'[q].step # "write"
        /\ Current = IF i = 0 THEN {} ELSE {i}
  BY <1>1, <1>2, <1>3 DEF Inductive, ReadIsCurrent
<1>5. ReadIsCurrent'
  BY <1>1, <1>4 DEF ReadIsCurrent
<1>6. CASE UNCHANGED rows
  <2>1. TypeOK'
    BY <1>1, <1>3, <1>6 DEF Inductive, TypeOK
  <2>2. HistoryIsSound'
    BY <1>1, <1>6, SameRows DEF Inductive, HistoryIsSound, OneCurrentUnlessOverlapped
  <2> QED
    BY <1>5, <2>1, <2>2 DEF Inductive
<1>7. CASE Supersedes(i, d) /\ (i = 0 \/ ~(rows[i].revision >= d.revision))
  <2>0. TypeOK
    BY DEF Inductive
  <2>1. rows' \in Seq(Rows) /\ Len(rows') = Len(rows) + 1 /\ Len(rows) \in Nat
    BY <1>7, <2>0, SupersededRows, LenProperties DEF TypeOK
  <2>2. TypeOK'
    <3>1. \A q \in Processes : save'[q].step = "write" => save'[q].prior \in 0 .. Len(rows')
      <4> SUFFICES ASSUME NEW q \in Processes, save'[q].step = "write"
                   PROVE  save'[q].prior \in 0 .. Len(rows')
        OBVIOUS
      <4>1. save'[q].prior \in 0 .. Len(rows)
        BY <1>3, <2>0 DEF TypeOK
      <4> QED
        BY <2>1, <4>1
    <3> QED
      BY <1>1, <1>3, <2>0, <2>1, <3>1 DEF TypeOK
  <2>3. NothingForgotten' /\ HighestRevisionIsCurrent'
    BY <1>7, <2>0, NothingIsForgottenBySuperseding, HighestStaysCurrent
       DEF Inductive, HistoryIsSound
  <2>4. OneCurrentUnlessOverlapped'
    <3>1. Current' = (Current \ {i}) \cup {Len(rows) + 1}
      BY <1>7, <2>0, SupersededCurrent
    <3> QED
      BY <1>1, <1>4, <3>1 DEF OneCurrentUnlessOverlapped
  <2> QED
    BY <1>5, <2>2, <2>3, <2>4 DEF Inductive, HistoryIsSound
<1> QED
  BY <1>2, <1>6, <1>7 DEF Supersedes

LEMMA OthersKeep ==
    ASSUME Inductive,
           Correct \/ (\E p \in Processes : Fail(p)) \/ UNCHANGED vars
    PROVE  Inductive'
<1>1. UNCHANGED <<rows, overlapped>>
  BY DEF Correct, Fail, vars
<1>2. /\ save' \in [Processes -> Saves]
      /\ \A q \in Processes : save'[q].step = "write" => save'[q] = save[q]
  BY DEF Correct, Fail, vars, Inductive, TypeOK, Saves, Idle
<1>3. TypeOK'
  BY <1>1, <1>2, BoundAssumption DEF Correct, Fail, vars, Inductive, TypeOK
<1>4. HistoryIsSound'
  BY <1>1, SameRows DEF Inductive, HistoryIsSound, OneCurrentUnlessOverlapped
<1>5. ReadIsCurrent'
  BY <1>1, <1>2, SameRows DEF Inductive, ReadIsCurrent
<1> QED
  BY <1>3, <1>4, <1>5 DEF Inductive

LEMMA InitIsInductive == Init => Inductive
<1> SUFFICES ASSUME Init
             PROVE  Inductive
  OBVIOUS
<1>1. TypeOK
  <2>1. rows \in Seq(Rows)
    BY EmptySeq DEF Init
  <2>2. save \in [Processes -> Saves] /\ \A p \in Processes : save[p].step = "idle"
    <3>1. Idle \in Saves /\ Idle.step = "idle"
      BY DEF Saves, Idle
    <3> QED
      BY <3>1 DEF Init
  <2>3. upstream \in 0 .. MaxVersion /\ clock \in 0 .. MaxFetches /\ faults \in Nat
    BY BoundAssumption DEF Init
  <2> QED
    BY <2>1, <2>2, <2>3 DEF Init, TypeOK
<1>2. DOMAIN rows = {}
  BY DEF Init
<1>3. HistoryIsSound
  BY <1>2 DEF HistoryIsSound, NothingForgotten, HighestRevisionIsCurrent,
     OneCurrentUnlessOverlapped, Current
<1>4. ReadIsCurrent
  BY DEF Init, ReadIsCurrent, Idle
<1> QED
  BY <1>1, <1>3, <1>4 DEF Inductive

(***************************************************************************)
(* However saves of revisions overlap, arrive out of order or fail: no     *)
(* moment is forgotten, the highest revision is current, and without an    *)
(* overlap it alone is (save_market_observation).                          *)
(***************************************************************************)
THEOREM HistoryStaysSound == Spec => [](TypeOK /\ HistoryIsSound)
<1>1. Inductive /\ [Next]_vars => Inductive'
  BY FetchKeeps, ReadPriorKeeps, CommitKeeps, OthersKeep DEF Next
<1>2. Inductive => TypeOK /\ HistoryIsSound
  BY DEF Inductive
<1> QED
  BY <1>1, <1>2, InitIsInductive, PTL DEF Spec

-----------------------------------------------------------------------------
(* The ingest of enterprise rows: counting *)

\* The members of a set of records that hold row r.
Holding(copies, r) == {x \in copies : x[1] = r}

\* Every record's copy is numbered below the number of copies.
Numbered(copies) ==
    \A x \in copies : x[2] < Cardinality(Holding(copies, x[1]))

\* A set of rows is finite.
LEMMA RowsAreFinite ==
    ASSUME NEW batch \in SUBSET IngestRows
    PROVE  /\ IsFiniteSet(batch) /\ Cardinality(batch) \in Nat
           /\ IsFiniteSet(Accepted(batch)) /\ Cardinality(Accepted(batch)) \in Nat
<1>1. IsFiniteSet(IngestRows)
  BY FS_Interval, RowsAssumption DEF IngestRows
<1>2. IsFiniteSet(batch)
  BY <1>1, FS_Subset
<1>3. Accepted(batch) \in SUBSET batch
  BY DEF Accepted
<1>4. IsFiniteSet(Accepted(batch))
  BY <1>2, <1>3, FS_Subset
<1> QED
  BY <1>2, <1>4, FS_CardinalityType

\* One more record for each of the rows: as many more as there are rows.
LEMMA NewCopies ==
    ASSUME NEW copies \in SUBSET (IngestRows \X Nat), IsFiniteSet(copies), Numbered(copies),
           NEW batch \in SUBSET IngestRows
    PROVE  LET now == copies \cup {<<r, Cardinality(Holding(copies, r))>> : r \in batch} IN
           /\ now \in SUBSET (IngestRows \X Nat) /\ IsFiniteSet(now) /\ Numbered(now)
           /\ Cardinality(now) = Cardinality(copies) + Cardinality(batch)
<1> DEFINE next(r) == Cardinality(Holding(copies, r))
           new == {<<r, next(r)>> : r \in batch}
           now == copies \cup new
<1>1. \A r \in IngestRows : IsFiniteSet(Holding(copies, r)) /\ next(r) \in Nat
  <2> SUFFICES ASSUME NEW r \in IngestRows
               PROVE  IsFiniteSet(Holding(copies, r)) /\ next(r) \in Nat
    OBVIOUS
  <2>1. Holding(copies, r) \in SUBSET copies
    BY DEF Holding
  <2> QED
    BY <2>1, FS_Subset, FS_CardinalityType
<1>2. IsFiniteSet(batch)
  BY RowsAreFinite
<1>3. IsFiniteSet(new) /\ Cardinality(new) = Cardinality(batch)
  <2> DEFINE f == [r \in batch |-> <<r, next(r)>>]
  <2>1. f \in Bijection(batch, new)
    <3> HIDE DEF next
    <3> QED
      BY DEF Bijection, Injection, Surjection, IsInjective
  <2>2. ExistsBijection(batch, new)
    BY <2>1 DEF ExistsBijection
  <2> HIDE DEF new
  <2> QED
    BY <1>2, <2>2, FS_Bijection
<1>4. copies \cap new = {}
  <2> SUFFICES ASSUME NEW r \in batch, <<r, next(r)>> \in copies
               PROVE  FALSE
    OBVIOUS
  <2>1. next(r) < next(r)
    BY DEF Numbered
  <2> QED
    BY <1>1, <2>1
<1>5. now \in SUBSET (IngestRows \X Nat)
  BY <1>1
<1>6. IsFiniteSet(now) /\ Cardinality(now) = Cardinality(copies) + Cardinality(batch)
  <2>1. Cardinality(copies \cap new) = 0
    BY <1>4, FS_EmptySet
  <2>2. Cardinality(copies) \in Nat /\ Cardinality(batch) \in Nat
    BY <1>2, FS_CardinalityType
  <2> HIDE DEF new
  <2>3. IsFiniteSet(now) /\ Cardinality(now) = Cardinality(copies) + Cardinality(new)
                                               - Cardinality(copies \cap new)
    BY <1>3, FS_Union
  <2> QED
    BY <1>3, <2>1, <2>2, <2>3
<1>7. Numbered(now)
  <2> SUFFICES ASSUME NEW x \in now
               PROVE  x[2] < Cardinality(Holding(now, x[1]))
    BY DEF Numbered
  <2>1. PICK r \in IngestRows : r = x[1]
    BY <1>5
  <2>2. next(r) \in Nat /\ x[2] \in Nat
    BY <1>1, <1>5
  <2>3. x[2] < next(r) \/ (r \in batch /\ x[2] = next(r))
    <3>1. CASE x \in copies
      BY <2>1, <3>1 DEF Numbered
    <3>2. CASE x \in new
      BY <2>1, <3>2
    <3> QED
      BY <3>1, <3>2
  <2>4. CASE r \notin batch
    <3>1. Holding(now, r) = Holding(copies, r)
      <4> HIDE DEF next
      <4> QED
        BY <2>4 DEF Holding
    <3> QED
      BY <2>1, <2>3, <2>4, <3>1
  <2>5. CASE r \in batch
    <3>1. Holding(now, r) = Holding(copies, r) \cup {<<r, next(r)>>}
      <4> HIDE DEF next
      <4> QED
        BY <2>5 DEF Holding
    <3>2. <<r, next(r)>> \notin Holding(copies, r)
      <4>1. <<r, next(r)>> \in new
        BY <2>5
      <4> HIDE DEF next
      <4> QED
        BY <1>4, <4>1 DEF Holding
    <3>3. Cardinality(Holding(now, r)) = next(r) + 1
      BY <1>1, <3>1, <3>2, FS_AddElement
    <3> QED
      BY <2>1, <2>2, <2>3, <3>3
  <2> QED
    BY <2>4, <2>5
<1> QED
  BY <1>5, <1>6, <1>7

-----------------------------------------------------------------------------
(* The ingest of enterprise rows: what a step does *)

\* Administrator a has an ingest in progress.
Active(a) == request[a] # NoIngest

\* Every request that is active is on a dataset, in one of the steps.
LEMMA RequestsAreTold ==
    ASSUME IngestTypeOK, NEW a \in Admins
    PROVE  /\ NoIngest.step = "idle"
           /\ request[a].step # "idle" => Active(a)
           /\ Active(a) =>
                /\ request[a].dataset \in Datasets /\ request[a].count \in Nat
                /\ request[a].rows \in SUBSET IngestRows
                /\ request[a].step \in {"rows", "delete", "save", "schema", "sync"}
  BY DEF IngestTypeOK, Requests, NoIngest, Active

\* Request a goes on to k, and no other request moves.
IngestGoes(a, k) ==
    /\ request' \in [Admins -> Requests]
    /\ request'[a] = k
    /\ \A b \in Admins : b # a => request'[b] = request[b]

\* Each step of a request: what it leaves of the request's record.
LEMMA RequestMoves ==
    ASSUME IngestTypeOK, NEW a \in Admins
    PROVE  LET now == request'[a] IN
           /\ \A d \in Datasets, n \in 0 .. 2 : BeginIngest(a, d, n) =>
                /\ IngestGoes(a, now) /\ ~Active(a) /\ now # NoIngest
                /\ now.dataset = d /\ now.count = datasets[d].row_count
                /\ now.rows = (pushed + 1 .. pushed + n)
                /\ now.step = IF source.type = "MANUAL_UPLOAD" THEN "save" ELSE "rows"
           /\ DrainSelect(a) =>
                /\ IngestGoes(a, now) /\ Active(a) /\ now # NoIngest
                /\ now.dataset = request[a].dataset /\ now.count = request[a].count
                /\ now.rows = staged /\ now.step = "delete"
           /\ \A n \in 0 .. 2 : FetchRows(a, n) =>
                /\ IngestGoes(a, now) /\ Active(a) /\ now # NoIngest
                /\ now.dataset = request[a].dataset /\ now.count = request[a].count
                /\ now.rows = (pushed + 1 .. pushed + n) /\ now.step = "save"
           /\ DrainDelete(a) \/ SaveRecords(a) \/ DiscoverSchema(a) =>
                /\ IngestGoes(a, now) /\ Active(a) /\ now # NoIngest
                /\ now.dataset = request[a].dataset /\ now.count = request[a].count
                /\ now.rows = request[a].rows
                /\ now.step = IF request[a].step = "delete" THEN "save"
                              ELSE IF request[a].step = "save" THEN "schema" ELSE "sync"
           /\ Refused(a) \/ UpdateSync(a) \/ IngestFails(a) =>
                IngestGoes(a, NoIngest) /\ Active(a)
<1> DEFINE k == request[a]
<1>1. /\ NoIngest.step = "idle" /\ NoIngest \in Requests
      /\ k.step # "idle" => Active(a)
      /\ Active(a) => k \in [step : {"rows", "delete", "save", "schema", "sync"}, dataset : Datasets,
                               count : Nat, rows : SUBSET IngestRows]
      /\ \A m \in [step : {"rows", "delete", "save", "schema", "sync"}, dataset : Datasets,
                     count : Nat, rows : SUBSET IngestRows] : m \in Requests /\ m # NoIngest
  BY DEF IngestTypeOK, Requests, NoIngest, Active
<1>2. ASSUME NEW d \in Datasets, NEW n \in 0 .. 2, BeginIngest(a, d, n)
      PROVE  LET now == request'[a] IN
                /\ IngestGoes(a, now) /\ ~Active(a) /\ now # NoIngest
                /\ now.dataset = d /\ now.count = datasets[d].row_count
                /\ now.rows = (pushed + 1 .. pushed + n)
                /\ now.step = IF source.type = "MANUAL_UPLOAD" THEN "save" ELSE "rows"
  <2>1. PICK fresh, step : /\ fresh = (pushed + 1 .. pushed + n)
                           /\ step = IF source.type = "MANUAL_UPLOAD" THEN "save" ELSE "rows"
    OBVIOUS
  <2>2. fresh \in SUBSET IngestRows
    BY <1>2, <2>1, RowsAssumption DEF BeginIngest, IngestTypeOK, IngestRows
  <2>3. request' = [request EXCEPT ![a] =
                      [step |-> step, dataset |-> d, count |-> datasets[d].row_count, rows |-> fresh]]
    BY <1>2, <2>1 DEF BeginIngest
  <2>4. datasets[d].row_count \in Nat
    BY DEF IngestTypeOK
  <2> QED
    BY <1>1, <1>2, <2>1, <2>2, <2>3, <2>4 DEF IngestGoes, IngestTypeOK, BeginIngest, Active
<1>3. ASSUME DrainSelect(a)
      PROVE  LET now == request'[a] IN
                /\ IngestGoes(a, now) /\ Active(a) /\ now # NoIngest
                /\ now.dataset = request[a].dataset /\ now.count = request[a].count
                /\ now.rows = staged /\ now.step = "delete"
  <2>1. Active(a) /\ request' = [request EXCEPT ![a] = [k EXCEPT !.step = "delete", !.rows = staged]]
    BY <1>1, <1>3 DEF DrainSelect
  <2>2. [k EXCEPT !.step = "delete", !.rows = staged] \in Requests
    BY <1>1, <2>1 DEF IngestTypeOK
  <2> QED
    BY <1>1, <2>1, <2>2 DEF IngestGoes, IngestTypeOK
<1>4. ASSUME NEW n \in 0 .. 2, FetchRows(a, n)
      PROVE  LET now == request'[a] IN
                /\ IngestGoes(a, now) /\ Active(a) /\ now # NoIngest
                /\ now.dataset = request[a].dataset /\ now.count = request[a].count
                /\ now.rows = (pushed + 1 .. pushed + n) /\ now.step = "save"
  <2>1. PICK fresh : fresh = (pushed + 1 .. pushed + n)
    OBVIOUS
  <2>2. fresh \in SUBSET IngestRows
    BY <1>4, <2>1, RowsAssumption DEF FetchRows, IngestTypeOK, IngestRows
  <2>3. Active(a) /\ request' = [request EXCEPT ![a] = [k EXCEPT !.step = "save", !.rows = fresh]]
    BY <1>1, <1>4, <2>1 DEF FetchRows
  <2>4. [k EXCEPT !.step = "save", !.rows = fresh] \in Requests
    BY <1>1, <2>2, <2>3
  <2> QED
    BY <1>1, <2>1, <2>3, <2>4 DEF IngestGoes, IngestTypeOK
<1>5. ASSUME DrainDelete(a) \/ SaveRecords(a) \/ DiscoverSchema(a)
      PROVE  LET now == request'[a] IN
                /\ IngestGoes(a, now) /\ Active(a) /\ now # NoIngest
                /\ now.dataset = request[a].dataset /\ now.count = request[a].count
                /\ now.rows = request[a].rows
                /\ now.step = IF request[a].step = "delete" THEN "save"
                              ELSE IF request[a].step = "save" THEN "schema" ELSE "sync"
  <2>1. PICK step \in {"save", "schema", "sync"} :
          /\ Active(a) /\ request' = [request EXCEPT ![a] = [k EXCEPT !.step = step]]
          /\ step = IF k.step = "delete" THEN "save" ELSE IF k.step = "save" THEN "schema" ELSE "sync"
    BY <1>1, <1>5 DEF DrainDelete, SaveRecords, DiscoverSchema
  <2>2. [k EXCEPT !.step = step] \in Requests
    BY <1>1, <2>1
  <2> QED
    BY <1>1, <2>1, <2>2 DEF IngestGoes, IngestTypeOK
<1>6. ASSUME Refused(a) \/ UpdateSync(a) \/ IngestFails(a)
      PROVE  IngestGoes(a, NoIngest) /\ Active(a)
  BY <1>1, <1>6 DEF Refused, UpdateSync, IngestFails, IngestGoes, IngestTypeOK, Active
<1> QED
  BY <1>2, <1>3, <1>4, <1>5, <1>6

\* Only a save adds to the records that a dataset ever had; a purge deletes them.
LEMMA SavedStays ==
    ASSUME IngestTypeOK
    PROVE  /\ UNCHANGED <<stored, purged>> => Saved' = Saved
           /\ \A d \in Datasets : PurgeRecords(d) =>
                /\ Saved' = Saved
                /\ stored' \in [Datasets -> SUBSET (IngestRows \X Nat)]
                /\ purged' \in [Datasets -> SUBSET (IngestRows \X Nat)]
                /\ UNCHANGED <<source, pushed, staged, datasets, request, pulls, ingestFaults,
                               ingestOverlapped>>
           /\ Saved \in [Datasets -> SUBSET (IngestRows \X Nat)]
<1>1. UNCHANGED <<stored, purged>> => Saved' = Saved
  BY DEF Saved
<1>2. ASSUME NEW d \in Datasets, PurgeRecords(d)
      PROVE  /\ Saved' = Saved
             /\ stored' \in [Datasets -> SUBSET (IngestRows \X Nat)]
             /\ purged' \in [Datasets -> SUBSET (IngestRows \X Nat)]
             /\ UNCHANGED <<source, pushed, staged, datasets, request, pulls, ingestFaults,
                            ingestOverlapped>>
  <2>1. PICK old \in SUBSET stored[d] :
          /\ stored' = [stored EXCEPT ![d] = stored[d] \ old]
          /\ purged' = [purged EXCEPT ![d] = purged[d] \cup old]
    BY <1>2 DEF PurgeRecords
  <2>2. /\ stored[d] \in SUBSET (IngestRows \X Nat) /\ purged[d] \in SUBSET (IngestRows \X Nat)
        /\ stored \in [Datasets -> SUBSET (IngestRows \X Nat)]
        /\ purged \in [Datasets -> SUBSET (IngestRows \X Nat)]
    BY DEF IngestTypeOK
  <2>3. /\ stored' \in [Datasets -> SUBSET (IngestRows \X Nat)]
        /\ purged' \in [Datasets -> SUBSET (IngestRows \X Nat)]
    BY <2>1, <2>2
  <2>4. \A e \in Datasets : stored'[e] \cup purged'[e] = stored[e] \cup purged[e]
    BY <2>1, <2>2
  <2>5. Saved' = Saved
    BY <2>4 DEF Saved
  <2> QED
    BY <1>2, <2>3, <2>5 DEF PurgeRecords
<1>3. Saved \in [Datasets -> SUBSET (IngestRows \X Nat)]
  <2>1. \A d \in Datasets : stored[d] \cup purged[d] \in SUBSET (IngestRows \X Nat)
    BY DEF IngestTypeOK
  <2> QED
    BY <2>1 DEF Saved
<1> QED
  BY <1>1, <1>2, <1>3

\* The records of every dataset are finitely many, their copies numbered from 0.
StoreIsNumbered ==
    \A d \in Datasets : IsFiniteSet(Saved[d]) /\ Numbered(Saved[d])

\* A save adds one record for each accepted row, to its dataset alone.
LEMMA SaveAdds ==
    ASSUME IngestTypeOK, StoreIsNumbered, NEW a \in Admins, SaveRecords(a)
    PROVE  \E new : LET d == request[a].dataset
                        batch == Accepted(request[a].rows) IN
           /\ stored' \in [Datasets -> SUBSET (IngestRows \X Nat)]
           /\ purged' = purged
           /\ Saved' \in [Datasets -> SUBSET (IngestRows \X Nat)]
           /\ \A e \in Datasets : Saved'[e] = IF e = d THEN Saved[d] \cup new ELSE Saved[e]
           /\ \A x \in new : x[1] \in batch
           /\ \A r \in batch : \E x \in new : x[1] = r
           /\ \A x, y \in new : x[1] = y[1] => x = y
           /\ IsFiniteSet(Saved'[d]) /\ Numbered(Saved'[d])
           /\ Cardinality(Saved'[d]) = Cardinality(Saved[d]) + Cardinality(batch)
<1>1. Active(a)
  BY RequestsAreTold DEF SaveRecords
<1>2. PICK d \in Datasets, batch \in SUBSET IngestRows :
        d = request[a].dataset /\ batch = Accepted(request[a].rows)
  BY <1>1, RequestsAreTold DEF Accepted
<1>3. PICK held \in SUBSET (IngestRows \X Nat) :
        held = Saved[d] /\ IsFiniteSet(held) /\ Numbered(held)
  BY SavedStays DEF StoreIsNumbered
<1> DEFINE new == {<<r, Cardinality(Holding(held, r))>> : r \in batch}
<1>4. /\ held \cup new \in SUBSET (IngestRows \X Nat) /\ IsFiniteSet(held \cup new)
      /\ Numbered(held \cup new)
      /\ Cardinality(held \cup new) = Cardinality(held) + Cardinality(batch)
  BY <1>3, NewCopies
<1>5. stored' = [stored EXCEPT ![d] = stored[d] \cup new] /\ purged' = purged
  <2>1. \A r : Copies(d, r) = Holding(held, r)
    BY <1>3 DEF Copies, Holding
  <2>2. stored' = [stored EXCEPT ![d] =
                     @ \cup {<<r, Cardinality(Copies(d, r))>> : r \in batch}]
        /\ purged' = purged
    BY <1>2 DEF SaveRecords
  <2>3. {<<r, Cardinality(Copies(d, r))>> : r \in batch} = new
    BY <2>1
  <2> QED
    BY <2>2, <2>3
<1>6. /\ \A x \in new : x[1] \in batch
      /\ \A r \in batch : \E x \in new : x[1] = r
      /\ \A x, y \in new : x[1] = y[1] => x = y
  <2> DEFINE next(r) == Cardinality(Holding(held, r))
  <2>1. new = {<<r, next(r)>> : r \in batch}
    OBVIOUS
  <2> HIDE DEF next, new
  <2>2. \A x \in new : x[1] \in batch /\ x = <<x[1], next(x[1])>>
    BY <2>1
  <2>3. \A r \in batch : <<r, next(r)>> \in new /\ <<r, next(r)>>[1] = r
    BY <2>1
  <2>4. \A x, y \in new : x[1] = y[1] => x = y
    BY <2>2
  <2>5. \A r \in batch : \E x \in new : x[1] = r
    BY <2>3
  <2> QED
    BY <2>2, <2>4, <2>5
<1> HIDE DEF new
<1>7. /\ stored' \in [Datasets -> SUBSET (IngestRows \X Nat)]
      /\ \A e \in Datasets : stored'[e] = IF e = d THEN stored[d] \cup new ELSE stored[e]
  <2>1. stored[d] \cup new \in SUBSET (IngestRows \X Nat)
    BY <1>4 DEF IngestTypeOK
  <2> QED
    BY <1>5, <2>1 DEF IngestTypeOK
<1>8. \A e \in Datasets : Saved'[e] = IF e = d THEN held \cup new ELSE Saved[e]
  <2>1. /\ \A e \in Datasets : Saved[e] = stored[e] \cup purged[e]
        /\ \A e \in Datasets : Saved'[e] = stored'[e] \cup purged[e]
    BY <1>5 DEF Saved
  <2> QED
    BY <1>3, <1>7, <2>1
<1>9. Saved' \in [Datasets -> SUBSET (IngestRows \X Nat)]
  <2>1. \A e \in Datasets : stored'[e] \cup purged'[e] \in SUBSET (IngestRows \X Nat)
    BY <1>5, <1>7 DEF IngestTypeOK
  <2> QED
    BY <2>1 DEF Saved
<1>10. /\ \A e \in Datasets : Saved'[e] = IF e = d THEN Saved[d] \cup new ELSE Saved[e]
       /\ IsFiniteSet(Saved'[d]) /\ Numbered(Saved'[d])
       /\ Cardinality(Saved'[d]) = Cardinality(Saved[d]) + Cardinality(batch)
  BY <1>3, <1>4, <1>8
<1>11. purged' = purged
  BY <1>5
<1>12. stored' \in [Datasets -> SUBSET (IngestRows \X Nat)]
  BY <1>7
<1> QED
  BY <1>2, <1>6, <1>9, <1>10, <1>11, <1>12

\* The records of a dataset can be counted.
LEMMA StoreIsCountable ==
    ASSUME StoreIsNumbered, NEW d \in Datasets
    PROVE  Cardinality(Saved[d]) \in Nat
  BY FS_CardinalityType DEF StoreIsNumbered

\* Every step keeps the types and the numbers of the copies.
LEMMA IngestTypesKept ==
    ASSUME IngestTypeOK, StoreIsNumbered, [IngestNext]_ingestVars
    PROVE  IngestTypeOK' /\ StoreIsNumbered'
<1>0. \/ UpdateSource
      \/ \E d \in Datasets : CreateDataset(d) \/ PurgeRecords(d)
      \/ \E n \in 1 .. 2 : ReceiveWebhook(n)
      \/ \E a \in Admins, d \in Datasets, n \in 0 .. 2 : BeginIngest(a, d, n)
      \/ \E a \in Admins, n \in 0 .. 2 : FetchRows(a, n)
      \/ \E a \in Admins : DrainSelect(a) \/ DrainDelete(a) \/ Refused(a) \/ SaveRecords(a)
                           \/ DiscoverSchema(a) \/ UpdateSync(a) \/ IngestFails(a)
      \/ UNCHANGED ingestVars
  BY DEF IngestNext
<1>1. request' \in [Admins -> Requests]
  <2>1. request' = request => request' \in [Admins -> Requests]
    BY DEF IngestTypeOK
  <2>2. (\E a \in Admins : IngestGoes(a, request'[a]) \/ IngestGoes(a, NoIngest))
           => request' \in [Admins -> Requests]
    BY DEF IngestGoes
  <2>3. \/ request' = request
        \/ \E a \in Admins : IngestGoes(a, request'[a]) \/ IngestGoes(a, NoIngest)
    <3>1. CASE UpdateSource \/ (\E d \in Datasets : CreateDataset(d) \/ PurgeRecords(d))
                 \/ (\E n \in 1 .. 2 : ReceiveWebhook(n)) \/ UNCHANGED ingestVars
      BY <3>1 DEF UpdateSource, CreateDataset, PurgeRecords, ReceiveWebhook, ingestVars
    <3>2. CASE \E a \in Admins, d \in Datasets, n \in 0 .. 2 : BeginIngest(a, d, n)
      BY <3>2, RequestMoves
    <3>3. CASE \E a \in Admins, n \in 0 .. 2 : FetchRows(a, n)
      BY <3>3, RequestMoves
    <3>4. CASE \E a \in Admins : DrainSelect(a) \/ DrainDelete(a) \/ Refused(a) \/ SaveRecords(a)
                                \/ DiscoverSchema(a) \/ UpdateSync(a) \/ IngestFails(a)
      BY <3>4, RequestMoves
    <3> QED
      BY <1>0, <3>1, <3>2, <3>3, <3>4
  <2> QED
    BY <2>1, <2>2, <2>3
<1>2. /\ stored' \in [Datasets -> SUBSET (IngestRows \X Nat)]
      /\ purged' \in [Datasets -> SUBSET (IngestRows \X Nat)]
      /\ StoreIsNumbered'
  <2>1. CASE \E a \in Admins : SaveRecords(a)
    <3>1. PICK a \in Admins : SaveRecords(a)
      BY <2>1
    <3> QED
      BY <3>1, SaveAdds DEF StoreIsNumbered, IngestTypeOK
  <2>2. Saved' = Saved => StoreIsNumbered'
    BY DEF StoreIsNumbered
  <2>3. CASE \E d \in Datasets : PurgeRecords(d)
    BY <2>2, <2>3, SavedStays
  <2>4. CASE UNCHANGED <<stored, purged>>
    BY <2>2, <2>4, SavedStays DEF IngestTypeOK
  <2>5. \/ \E a \in Admins : SaveRecords(a)
        \/ \E d \in Datasets : PurgeRecords(d)
        \/ UNCHANGED <<stored, purged>>
    BY <1>0 DEF UpdateSource, CreateDataset, ReceiveWebhook, BeginIngest, FetchRows, DrainSelect,
       DrainDelete, Refused, DiscoverSchema, UpdateSync, IngestFails, ingestVars, tables
  <2> QED
    BY <2>1, <2>3, <2>4, <2>5
<1>3. datasets' \in [Datasets -> [registered : BOOLEAN, row_count : Nat]]
  <2>1. CASE \E d \in Datasets : CreateDataset(d)
    BY <2>1 DEF CreateDataset, IngestTypeOK
  <2>2. CASE \E a \in Admins : UpdateSync(a)
    <3>1. PICK a \in Admins : UpdateSync(a)
      BY <2>2
    <3>2. PICK n \in Nat, d \in Datasets :
            n = request[a].count + Cardinality(Accepted(request[a].rows)) /\ d = request[a].dataset
      BY <3>1, RequestsAreTold, RowsAreFinite DEF UpdateSync
    <3>3. datasets' = [datasets EXCEPT ![d].row_count = n]
      BY <3>1, <3>2 DEF UpdateSync
    <3> QED
      BY <3>3 DEF IngestTypeOK
  <2>3. datasets' = datasets \/ (\E d \in Datasets : CreateDataset(d)) \/ (\E a \in Admins : UpdateSync(a))
    BY <1>0 DEF UpdateSource, PurgeRecords, ReceiveWebhook, BeginIngest, FetchRows, DrainSelect,
       DrainDelete, Refused, SaveRecords, DiscoverSchema, IngestFails, ingestVars, tables
  <2> QED
    BY <2>1, <2>2, <2>3 DEF IngestTypeOK
<1>4. pushed' \in 0 .. MaxRow /\ staged' \subseteq IngestRows
  <2>1. \/ pushed' = pushed /\ staged' \in {staged} \cup {staged \ request[a].rows : a \in Admins}
        \/ \E n \in 1 .. 2 : ReceiveWebhook(n)
        \/ \E n \in 0 .. 2 : /\ n = 0 \/ pushed + n <= MaxRow
                            /\ pushed' = pushed + n /\ staged' = staged
    <3>1. CASE \E a \in Admins, d \in Datasets, n \in 0 .. 2 : BeginIngest(a, d, n)
      BY <3>1 DEF BeginIngest, tables
    <3>2. CASE \E a \in Admins, n \in 0 .. 2 : FetchRows(a, n)
      BY <3>2 DEF FetchRows, tables
    <3>3. CASE \E a \in Admins : DrainDelete(a)
      BY <3>3 DEF DrainDelete
    <3>4. CASE UpdateSource \/ (\E d \in Datasets : CreateDataset(d) \/ PurgeRecords(d))
                 \/ UNCHANGED ingestVars
                 \/ \E a \in Admins : DrainSelect(a) \/ Refused(a) \/ SaveRecords(a)
                           \/ DiscoverSchema(a) \/ UpdateSync(a) \/ IngestFails(a)
      BY <3>4 DEF UpdateSource, CreateDataset, PurgeRecords, DrainSelect, Refused, SaveRecords, DiscoverSchema,
         UpdateSync, IngestFails, ingestVars, tables
    <3> QED
      BY <1>0, <3>1, <3>2, <3>3, <3>4
  <2>2. CASE pushed' = pushed /\ staged' \in {staged} \cup {staged \ request[a].rows : a \in Admins}
    BY <2>2 DEF IngestTypeOK
  <2>3. CASE \E n \in 1 .. 2 : ReceiveWebhook(n)
    <3>1. PICK n \in 1 .. 2 : /\ pushed + n <= MaxRow /\ pushed' = pushed + n
                              /\ staged' = staged \cup (pushed + 1 .. pushed + n)
      BY <2>3 DEF ReceiveWebhook
    <3> QED
      BY <3>1, RowsAssumption DEF IngestTypeOK, IngestRows
  <2>4. CASE \E n \in 0 .. 2 : /\ n = 0 \/ pushed + n <= MaxRow
                              /\ pushed' = pushed + n /\ staged' = staged
    BY <2>4, RowsAssumption DEF IngestTypeOK
  <2> QED
    BY <2>1, <2>2, <2>3, <2>4
<1>5. source' \in [type : Types, configured : BOOLEAN]
  <2>1. source' = source \/ source' = [source EXCEPT !.configured = ~@]
    BY <1>0 DEF UpdateSource, CreateDataset, PurgeRecords, ReceiveWebhook, BeginIngest, FetchRows,
       DrainSelect, DrainDelete, Refused, SaveRecords, DiscoverSchema, UpdateSync, IngestFails,
       ingestVars, tables
  <2> QED
    BY <2>1 DEF IngestTypeOK
<1>6. pulls' \in Nat /\ ingestFaults' \in Nat
  <2>1. pulls' \in {pulls, pulls + 1} /\ ingestFaults' \in {ingestFaults, ingestFaults + 1}
    BY <1>0 DEF UpdateSource, CreateDataset, PurgeRecords, ReceiveWebhook, BeginIngest, FetchRows,
       DrainSelect, DrainDelete, Refused, SaveRecords, DiscoverSchema, UpdateSync, IngestFails,
       ingestVars, tables
  <2> QED
    BY <2>1 DEF IngestTypeOK
<1>7. ingestOverlapped' \in BOOLEAN
  <2>1. \/ ingestOverlapped' = ingestOverlapped
        \/ ingestOverlapped' = (ingestOverlapped \/ \E b \in Admins : request[b] # NoIngest)
    BY <1>0 DEF UpdateSource, CreateDataset, PurgeRecords, ReceiveWebhook, BeginIngest, FetchRows,
       DrainSelect, DrainDelete, Refused, SaveRecords, DiscoverSchema, UpdateSync, IngestFails,
       ingestVars, tables
  <2> QED
    BY <2>1 DEF IngestTypeOK
<1> QED
  BY <1>1, <1>2, <1>3, <1>4, <1>5, <1>6, <1>7 DEF IngestTypeOK

-----------------------------------------------------------------------------
(* The ingest of enterprise rows: the row counts *)

\* What request a has saved beyond the count that it has read.
Ingested(a) ==
    IF request[a].step \in {"schema", "sync"} THEN Cardinality(Accepted(request[a].rows)) ELSE 0

\* Neither a row count nor what a request will make of it exceeds the records.
CountsHold ==
    /\ \A d \in Datasets : datasets[d].row_count <= Cardinality(Saved[d])
    /\ \A a \in Admins : Active(a) =>
         request[a].count + Ingested(a) <= Cardinality(Saved[request[a].dataset])

\* As long as ingests are alone and complete, and none fetches, both are exact.
CountsAreExact ==
    ~ingestOverlapped =>
      /\ \A a, b \in Admins : Active(a) /\ Active(b) => a = b
      /\ ingestFaults = 0 /\ ~Pulls(source.type) =>
           /\ \A d \in Datasets :
                \/ datasets[d].row_count = Cardinality(Saved[d])
                \/ \E a \in Admins : Active(a) /\ request[a].dataset = d
           /\ \A a \in Admins : Active(a) =>
                request[a].count + Ingested(a) = Cardinality(Saved[request[a].dataset])

\* What the counts promise.
Counts == CountsHold /\ CountsAreExact

\* A request that goes on counts as before.
LEMMA GoingOnCounts ==
    ASSUME IngestTypeOK, Counts, NEW a \in Admins, NEW k, IngestGoes(a, k), Active(a), k # NoIngest,
           k.dataset = request[a].dataset, k.count = request[a].count, Ingested(a)' = Ingested(a),
           UNCHANGED <<source, datasets, Saved, ingestFaults, ingestOverlapped>>
    PROVE  Counts'
<1>1. \A b \in Admins : /\ (Active(b)' <=> Active(b)) /\ Ingested(b)' = Ingested(b)
                        /\ Active(b) => /\ request'[b].dataset = request[b].dataset
                                         /\ request'[b].count = request[b].count
  BY DEF IngestGoes, Active, Ingested
<1>2. CountsHold'
  BY <1>1 DEF Counts, CountsHold
<1>3. CountsAreExact'
  BY <1>1 DEF Counts, CountsAreExact
<1> QED
  BY <1>2, <1>3 DEF Counts

\* A step that no request takes changes no count.
LEMMA NobodyCounts ==
    ASSUME Counts, UNCHANGED <<request, Saved, ingestFaults, ingestOverlapped>>,
           source'.type = source.type,
           \A d \in Datasets : datasets'[d].row_count = datasets[d].row_count
    PROVE  Counts'
<1>1. \A b \in Admins : (Active(b)' <=> Active(b)) /\ Ingested(b)' = Ingested(b)
  BY DEF Active, Ingested
<1>2. CountsHold'
  BY <1>1 DEF Counts, CountsHold
<1>3. CountsAreExact'
  BY <1>1 DEF Counts, CountsAreExact
<1> QED
  BY <1>2, <1>3 DEF Counts

\* A request that begins takes the row count as it is.
LEMMA BeginCounts ==
    ASSUME IngestTypeOK, StoreIsNumbered, Counts, NEW a \in Admins, NEW d \in Datasets, NEW n \in 0 .. 2,
           BeginIngest(a, d, n)
    PROVE  Counts'
<1>1. PICK k : /\ IngestGoes(a, k) /\ ~Active(a) /\ k # NoIngest /\ k.dataset = d
               /\ k.count = datasets[d].row_count /\ k.step \in {"save", "rows"}
  BY RequestMoves
<1>2. /\ source' = source /\ datasets' = datasets /\ Saved' = Saved /\ ingestFaults' = ingestFaults
      /\ ~ingestOverlapped' => ~ingestOverlapped /\ \A b \in Admins : ~Active(b)
  BY SavedStays DEF BeginIngest, tables, Active
<1>3. /\ Active(a)' /\ Ingested(a)' = 0 /\ request'[a] = k
      /\ \A b \in Admins : b # a => /\ (Active(b)' <=> Active(b)) /\ Ingested(b)' = Ingested(b)
                                    /\ request'[b] = request[b]
  BY <1>1 DEF IngestGoes, Active, Ingested
<1>4. k.count + 0 = datasets[d].row_count
  BY <1>1 DEF IngestTypeOK
<1>5. CountsHold'
  BY <1>1, <1>2, <1>3, <1>4 DEF Counts, CountsHold
<1>6. CountsAreExact'
  BY <1>1, <1>2, <1>3, <1>4 DEF Counts, CountsAreExact
<1> QED
  BY <1>5, <1>6 DEF Counts

\* A request that ends without having counted leaves the records ahead, which only a fault
\* or a connector that fetches can bring about.
LEMMA EndingCounts ==
    ASSUME IngestTypeOK, Counts, NEW a \in Admins, IngestGoes(a, NoIngest),
           UNCHANGED <<source, datasets, Saved, ingestOverlapped>>,
           Pulls(source.type) \/ ingestFaults' # 0
    PROVE  Counts'
<1>1. /\ ~Active(a)'
      /\ \A b \in Admins : b # a => /\ (Active(b)' <=> Active(b)) /\ Ingested(b)' = Ingested(b)
                                    /\ request'[b] = request[b]
  BY DEF IngestGoes, Active, Ingested
<1>2. CountsHold'
  BY <1>1 DEF Counts, CountsHold
<1>3. CountsAreExact'
  BY <1>1 DEF Counts, CountsAreExact
<1> QED
  BY <1>2, <1>3 DEF Counts

\* A save adds to the records what its request then has ingested.
LEMMA SaveCounts ==
    ASSUME IngestTypeOK, StoreIsNumbered, Counts, NEW a \in Admins, SaveRecords(a)
    PROVE  Counts'
<1>1. PICK k : /\ IngestGoes(a, k) /\ Active(a) /\ k # NoIngest /\ k.dataset = request[a].dataset
               /\ k.count = request[a].count /\ k.rows = request[a].rows /\ k.step = "schema"
  <2>1. request[a].step = "save"
    BY DEF SaveRecords
  <2> QED
    BY <2>1, RequestMoves
<1>2. PICK d \in Datasets, more \in Nat, count \in Nat :
        /\ d = request[a].dataset /\ count = request[a].count
        /\ more = Cardinality(Accepted(request[a].rows))
  BY <1>1, RequestsAreTold, RowsAreFinite
<1>3. PICK before \in Nat : before = Cardinality(Saved[d])
  BY StoreIsCountable
<1>4. /\ \A e \in Datasets : e # d => Saved'[e] = Saved[e]
      /\ Cardinality(Saved'[d]) = before + more
  BY <1>2, <1>3, SaveAdds
<1>5. /\ source' = source /\ datasets' = datasets /\ ingestFaults' = ingestFaults
      /\ ingestOverlapped' = ingestOverlapped /\ request[a].step = "save"
  BY DEF SaveRecords
<1>6. /\ Active(a)' /\ Ingested(a)' = more /\ Ingested(a) = 0 /\ request'[a] = k
      /\ \A b \in Admins : b # a => /\ (Active(b)' <=> Active(b)) /\ Ingested(b)' = Ingested(b)
                                    /\ request'[b] = request[b]
  BY <1>1, <1>2, <1>5 DEF IngestGoes, Active, Ingested
<1>7. \A b \in Admins : Ingested(b) \in Nat /\ (Active(b) => request[b].count \in Nat)
  <2> SUFFICES ASSUME NEW b \in Admins
               PROVE  Ingested(b) \in Nat /\ (Active(b) => request[b].count \in Nat)
    OBVIOUS
  <2>1. request[b].step # "idle" => Cardinality(Accepted(request[b].rows)) \in Nat
    BY RequestsAreTold, RowsAreFinite
  <2> QED
    BY <2>1, RequestsAreTold DEF Ingested
<1>8. count + more <= before + more
  BY <1>1, <1>2, <1>3, <1>6 DEF Counts, CountsHold
<1>9. \A e \in Datasets : datasets[e].row_count \in Nat /\ Cardinality(Saved[e]) \in Nat
  BY StoreIsCountable DEF IngestTypeOK
<1>10. CountsHold'
  <2>1. ASSUME NEW e \in Datasets
        PROVE  datasets'[e].row_count <= Cardinality(Saved'[e])
    <3>1. datasets[e].row_count <= Cardinality(Saved[e])
      BY DEF Counts, CountsHold
    <3> QED
      BY <1>3, <1>4, <1>5, <1>9, <3>1
  <2>2. ASSUME NEW b \in Admins, Active(b)'
        PROVE  request'[b].count + Ingested(b)' <= Cardinality(Saved'[request'[b].dataset])
    <3>1. CASE b = a
      BY <1>1, <1>2, <1>4, <1>6, <1>8, <3>1
    <3>2. CASE b # a
      <4>1. PICK e \in Datasets, m \in Nat : e = request[b].dataset /\ m = request[b].count
        BY <1>6, <2>2, <3>2, RequestsAreTold
      <4>2. m + Ingested(b) <= Cardinality(Saved[e])
        BY <1>6, <2>2, <3>2, <4>1 DEF Counts, CountsHold
      <4>3. m + Ingested(b) <= Cardinality(Saved'[e])
        BY <1>3, <1>4, <1>7, <1>9, <4>2
      <4>4. request'[b] = request[b] /\ Ingested(b)' = Ingested(b)
        BY <1>6, <3>2
      <4> QED
        BY <4>1, <4>3, <4>4
    <3> QED
      BY <3>1, <3>2
  <2> QED
    BY <2>1, <2>2 DEF CountsHold
<1>11. CountsAreExact'
  <2> SUFFICES ASSUME ~ingestOverlapped
               PROVE  CountsAreExact'
    BY <1>5 DEF CountsAreExact
  <2>1. \A b \in Admins : Active(b) => b = a
    BY <1>1 DEF Counts, CountsAreExact
  <2>2. CASE ingestFaults = 0 /\ ~Pulls(source.type)
    <3>1. count = before
      BY <1>1, <1>2, <1>3, <1>6, <2>2 DEF Counts, CountsAreExact
    <3>2. \A e \in Datasets : e # d => datasets[e].row_count = Cardinality(Saved[e])
      BY <1>2, <2>1, <2>2 DEF Counts, CountsAreExact
    <3> QED
      BY <1>1, <1>2, <1>4, <1>5, <1>6, <2>1, <3>1, <3>2 DEF CountsAreExact
  <2>3. CASE ~(ingestFaults = 0 /\ ~Pulls(source.type))
    BY <1>5, <1>6, <2>1, <2>3 DEF CountsAreExact
  <2> QED
    BY <2>2, <2>3
<1> QED
  BY <1>10, <1>11 DEF Counts

\* The row count becomes what the request has read and ingested.
LEMMA SyncCounts ==
    ASSUME IngestTypeOK, StoreIsNumbered, Counts, NEW a \in Admins, UpdateSync(a)
    PROVE  Counts'
<1>1. IngestGoes(a, NoIngest) /\ Active(a)
  BY RequestMoves
<1>2. PICK d \in Datasets, n \in Nat :
        /\ d = request[a].dataset /\ n = request[a].count + Ingested(a)
        /\ datasets' = [datasets EXCEPT ![d].row_count = n]
  <2>1. PICK d \in Datasets, count \in Nat, more \in Nat :
          /\ d = request[a].dataset /\ count = request[a].count
          /\ more = Cardinality(Accepted(request[a].rows))
    BY <1>1, RequestsAreTold, RowsAreFinite
  <2>2. Ingested(a) = more
    BY <2>1 DEF UpdateSync, Ingested
  <2>3. datasets' = [datasets EXCEPT ![d].row_count = count + more]
    BY <2>1 DEF UpdateSync
  <2>4. count + more \in Nat
    OBVIOUS
  <2> QED
    BY <2>1, <2>2, <2>3, <2>4
<1>3. \A e \in Datasets : datasets'[e].row_count = IF e = d THEN n ELSE datasets[e].row_count
  BY <1>2 DEF IngestTypeOK
<1>4. /\ source' = source /\ Saved' = Saved /\ ingestFaults' = ingestFaults
      /\ ingestOverlapped' = ingestOverlapped
  BY SavedStays DEF UpdateSync
<1>5. /\ ~Active(a)'
      /\ \A b \in Admins : b # a => /\ (Active(b)' <=> Active(b)) /\ Ingested(b)' = Ingested(b)
                                    /\ request'[b] = request[b]
  BY <1>1 DEF IngestGoes, Active, Ingested
<1>6. CountsHold'
  BY <1>1, <1>2, <1>3, <1>4, <1>5 DEF Counts, CountsHold
<1>7. CountsAreExact'
  <2> SUFFICES ASSUME ~ingestOverlapped
               PROVE  CountsAreExact'
    BY <1>4 DEF CountsAreExact
  <2>1. \A b \in Admins : Active(b) => b = a
    BY <1>1 DEF Counts, CountsAreExact
  <2>2. CASE ingestFaults = 0 /\ ~Pulls(source.type)
    <3>1. n = Cardinality(Saved[d])
      BY <1>1, <1>2, <2>2 DEF Counts, CountsAreExact
    <3>2. \A e \in Datasets : e # d => datasets[e].row_count = Cardinality(Saved[e])
      BY <1>2, <2>1, <2>2 DEF Counts, CountsAreExact
    <3> QED
      BY <1>3, <1>4, <1>5, <2>1, <3>1, <3>2 DEF CountsAreExact
  <2>3. CASE ~(ingestFaults = 0 /\ ~Pulls(source.type))
    BY <1>4, <1>5, <2>1, <2>3 DEF CountsAreExact
  <2> QED
    BY <2>2, <2>3
<1> QED
  BY <1>6, <1>7 DEF Counts

\* Every step keeps the counts.
LEMMA CountsKept ==
    ASSUME IngestTypeOK, StoreIsNumbered, Counts, [IngestNext]_ingestVars
    PROVE  Counts'
<1>1. CASE UpdateSource \/ (\E d \in Datasets : CreateDataset(d) \/ PurgeRecords(d))
             \/ (\E n \in 1 .. 2 : ReceiveWebhook(n)) \/ UNCHANGED ingestVars
  <2>1. /\ UNCHANGED <<request, Saved, ingestFaults, ingestOverlapped>> /\ source'.type = source.type
        /\ \A d \in Datasets : datasets'[d].row_count = datasets[d].row_count
    <3>1. CASE \E d \in Datasets : PurgeRecords(d)
      BY <3>1, SavedStays
    <3>2. CASE UpdateSource \/ (\E d \in Datasets : CreateDataset(d))
                 \/ (\E n \in 1 .. 2 : ReceiveWebhook(n)) \/ UNCHANGED ingestVars
      BY <3>2, SavedStays
      DEF UpdateSource, CreateDataset, ReceiveWebhook, ingestVars, tables, IngestTypeOK
    <3> QED
      BY <1>1, <3>1, <3>2
  <2> QED
    BY <2>1, NobodyCounts
<1>2. CASE \E a \in Admins, d \in Datasets, n \in 0 .. 2 : BeginIngest(a, d, n)
  BY <1>2, BeginCounts
<1>3. ASSUME NEW a \in Admins, DrainSelect(a) \/ DrainDelete(a) \/ DiscoverSchema(a)
                                \/ \E n \in 0 .. 2 : FetchRows(a, n)
      PROVE  Counts'
  <2>1. PICK k : /\ k = request'[a]
                 /\ IngestGoes(a, k) /\ Active(a) /\ k # NoIngest
                 /\ k.dataset = request[a].dataset /\ k.count = request[a].count
    BY <1>3, RequestMoves
  <2>2. Ingested(a)' = Ingested(a)
    <3>1. CASE DrainSelect(a)
      <4>1. request[a].step = "rows" /\ request'[a].step = "delete"
        BY <3>1, RequestMoves DEF DrainSelect
      <4> QED
        BY <4>1 DEF Ingested
    <3>2. CASE \E n \in 0 .. 2 : FetchRows(a, n)
      <4>1. request[a].step = "rows" /\ request'[a].step = "save"
        BY <3>2, RequestMoves DEF FetchRows
      <4> QED
        BY <4>1 DEF Ingested
    <3>3. CASE DrainDelete(a)
      <4>1. request[a].step = "delete"
        BY <3>3 DEF DrainDelete
      <4>2. request'[a].step = "save"
        BY <3>3, <4>1, RequestMoves
      <4> QED
        BY <4>1, <4>2 DEF Ingested
    <3>4. CASE DiscoverSchema(a)
      <4>1. request[a].step = "schema"
        BY <3>4 DEF DiscoverSchema
      <4>2. request'[a].step = "sync" /\ request'[a].rows = request[a].rows
        BY <3>4, <4>1, RequestMoves
      <4> QED
        BY <4>1, <4>2 DEF Ingested
    <3> QED
      BY <1>3, <3>1, <3>2, <3>3, <3>4
  <2>3. UNCHANGED <<source, datasets, Saved, ingestFaults, ingestOverlapped>>
    BY <1>3, SavedStays DEF DrainSelect, DrainDelete, DiscoverSchema, FetchRows, tables
  <2> QED
    BY <2>1, <2>2, <2>3, GoingOnCounts
<1>4. ASSUME NEW a \in Admins, Refused(a) \/ IngestFails(a)
      PROVE  Counts'
  <2>1. IngestGoes(a, NoIngest)
    BY <1>4, RequestMoves
  <2>2. /\ UNCHANGED <<source, datasets, Saved, ingestOverlapped>>
        /\ Pulls(source.type) \/ ingestFaults' # 0
    BY <1>4, SavedStays DEF Refused, IngestFails, tables, IngestTypeOK
  <2> QED
    BY <2>1, <2>2, EndingCounts
<1>5. CASE \E a \in Admins : SaveRecords(a)
  BY <1>5, SaveCounts
<1>6. CASE \E a \in Admins : UpdateSync(a)
  BY <1>6, SyncCounts
<1> QED
  BY <1>1, <1>2, <1>3, <1>4, <1>5, <1>6 DEF IngestNext

-----------------------------------------------------------------------------
(* The ingest of enterprise rows: where a row is *)

\* Request a has row r in hand, and is about to save it.
Held(a, r) == Active(a) /\ request[a].step = "save" /\ r \in request[a].rows

\* A record of row r exists, or existed until it was purged.
IsStored(r) == \E d \in Datasets : \E x \in Saved[d] : x[1] = r

\* Without a fault every valid row is staged, held by a request about to save it, or was saved.
RowsAreKept ==
    ingestFaults = 0 =>
        \A r \in (1 .. pushed) \ Empty : r \in staged \/ (\E a \in Admins : Held(a, r)) \/ IsStored(r)

\* While ingests are alone, what is staged, held and saved is apart, and saved once.
RowsAreApart ==
    ~ingestOverlapped =>
        /\ staged \subseteq 1 .. pushed
        /\ \A r : IsStored(r) => r \in (1 .. pushed) \ staged
        /\ \A a \in Admins : Active(a) =>
             /\ request[a].step = "delete" => request[a].rows \subseteq staged
             /\ request[a].step = "save" =>
                  \A r \in request[a].rows : r \in (1 .. pushed) \ staged /\ ~IsStored(r)
        /\ \A d, e \in Datasets : \A x \in Saved[d], y \in Saved[e] :
             x[1] = y[1] => d = e /\ x = y

\* What a save leaves stored.
LEMMA SaveStores ==
    ASSUME IngestTypeOK, StoreIsNumbered, NEW a \in Admins, SaveRecords(a), NEW r
    PROVE  IsStored(r)' <=> IsStored(r) \/ r \in Accepted(request[a].rows)
<1>1. PICK target \in Datasets : target = request[a].dataset
  BY RequestsAreTold DEF SaveRecords
<1>2. PICK new : LET d == request[a].dataset
                     batch == Accepted(request[a].rows) IN
           /\ stored' \in [Datasets -> SUBSET (IngestRows \X Nat)]
           /\ purged' = purged
           /\ Saved' \in [Datasets -> SUBSET (IngestRows \X Nat)]
           /\ \A e \in Datasets : Saved'[e] = IF e = d THEN Saved[d] \cup new ELSE Saved[e]
           /\ \A x \in new : x[1] \in batch
           /\ \A q \in batch : \E x \in new : x[1] = q
           /\ \A x, y \in new : x[1] = y[1] => x = y
           /\ IsFiniteSet(Saved'[d]) /\ Numbered(Saved'[d])
           /\ Cardinality(Saved'[d]) = Cardinality(Saved[d]) + Cardinality(batch)
  BY SaveAdds, Zenon
<1>3. \A e \in Datasets : Saved'[e] = IF e = target THEN Saved[target] \cup new ELSE Saved[e]
  BY <1>1, <1>2
<1> QED
  BY <1>2, <1>3 DEF IsStored

\* Every step keeps the rows.
LEMMA RowsKept ==
    ASSUME IngestTypeOK, StoreIsNumbered, RowsAreKept, [IngestNext]_ingestVars
    PROVE  RowsAreKept'
<1> SUFFICES ASSUME ingestFaults' = 0, NEW r \in (1 .. pushed') \ Empty
             PROVE  r \in staged' \/ (\E a \in Admins : Held(a, r)') \/ IsStored(r)'
  BY DEF RowsAreKept
<1>0. r \in 1 .. pushed => ingestFaults # 0 \/ r \in staged \/ (\E a \in Admins : Held(a, r)) \/ IsStored(r)
  BY DEF RowsAreKept
<1>1. CASE UpdateSource \/ (\E d \in Datasets : CreateDataset(d) \/ PurgeRecords(d))
             \/ UNCHANGED ingestVars
  <2>1. UNCHANGED <<pushed, staged, request, Saved, ingestFaults>>
    <3>1. CASE \E d \in Datasets : PurgeRecords(d)
      BY <3>1, SavedStays
    <3>2. CASE UpdateSource \/ (\E d \in Datasets : CreateDataset(d)) \/ UNCHANGED ingestVars
      BY <3>2, SavedStays DEF UpdateSource, CreateDataset, ingestVars, tables
    <3> QED
      BY <1>1, <3>1, <3>2
  <2> QED
    BY <1>0, <2>1 DEF Held, Active, IsStored
<1>2. CASE \E n \in 1 .. 2 : ReceiveWebhook(n)
  <2>1. PICK n \in 1 .. 2 : /\ pushed' = pushed + n /\ staged' = staged \cup (pushed + 1 .. pushed + n)
                            /\ UNCHANGED <<Saved, request, ingestFaults>>
    BY <1>2, SavedStays DEF ReceiveWebhook
  <2>2. r \in 1 .. pushed \/ r \in pushed + 1 .. pushed + n
    BY <2>1 DEF IngestTypeOK
  <2> QED
    BY <1>0, <2>1, <2>2 DEF Held, Active, IsStored
<1>3. ASSUME NEW a \in Admins, NEW k, IngestGoes(a, k), UNCHANGED <<staged, Saved, ingestFaults>>,
             request[a].step # "save",
             \/ pushed' = pushed
             \/ \E n \in 0 .. 2 : /\ pushed' = pushed + n /\ k # NoIngest /\ k.step = "save"
                                  /\ k.rows = (pushed + 1 .. pushed + n)
      PROVE  r \in staged' \/ (\E b \in Admins : Held(b, r)') \/ IsStored(r)'
  <2>1. CASE r \in 1 .. pushed
    <3>1. \A b \in Admins : Held(b, r) => Held(b, r)'
      BY <1>3 DEF Held, Active, IngestGoes
    <3> QED
      BY <1>0, <1>3, <2>1, <3>1 DEF IsStored
  <2>2. CASE r \notin 1 .. pushed
    <3>1. PICK n \in 0 .. 2 : /\ pushed' = pushed + n /\ k # NoIngest /\ k.step = "save"
                              /\ k.rows = (pushed + 1 .. pushed + n)
      BY <1>3, <2>2
    <3>2. r \in pushed + 1 .. pushed + n
      BY <2>2, <3>1 DEF IngestTypeOK
    <3>3. Held(a, r)'
      BY <1>3, <3>1, <3>2 DEF Held, Active, IngestGoes
    <3> QED
      BY <3>3
  <2> QED
    BY <2>1, <2>2
<1>4. ASSUME NEW a \in Admins, NEW d \in Datasets, NEW n \in 0 .. 2, BeginIngest(a, d, n)
      PROVE  r \in staged' \/ (\E b \in Admins : Held(b, r)') \/ IsStored(r)'
  <2>1. PICK k : /\ IngestGoes(a, k) /\ ~Active(a) /\ k # NoIngest
                 /\ k.rows = (pushed + 1 .. pushed + n)
                 /\ k.step = IF source.type = "MANUAL_UPLOAD" THEN "save" ELSE "rows"
    BY <1>4, RequestMoves
  <2>2. /\ pushed' = pushed + n /\ UNCHANGED <<staged, Saved, ingestFaults>>
        /\ source.type # "MANUAL_UPLOAD" => pushed' = pushed
    BY <1>4, SavedStays DEF BeginIngest, tables, IngestTypeOK
  <2>3. request[a].step # "save"
    BY <2>1, RequestsAreTold DEF Active
  <2> QED
    BY <1>3, <2>1, <2>2, <2>3
<1>5. ASSUME NEW a \in Admins, NEW n \in 0 .. 2, FetchRows(a, n)
      PROVE  r \in staged' \/ (\E b \in Admins : Held(b, r)') \/ IsStored(r)'
  <2>1. PICK k : /\ IngestGoes(a, k) /\ k # NoIngest
                 /\ k.rows = (pushed + 1 .. pushed + n) /\ k.step = "save"
    BY <1>5, RequestMoves
  <2>2. /\ pushed' = pushed + n /\ UNCHANGED <<staged, Saved, ingestFaults>>
        /\ request[a].step = "rows"
    BY <1>5, SavedStays DEF FetchRows, tables
  <2> QED
    BY <1>3, <2>1, <2>2
<1>6. ASSUME NEW a \in Admins, DrainSelect(a) \/ Refused(a) \/ DiscoverSchema(a) \/ UpdateSync(a)
      PROVE  r \in staged' \/ (\E b \in Admins : Held(b, r)') \/ IsStored(r)'
  <2>1. PICK k : IngestGoes(a, k)
    BY <1>6, RequestMoves
  <2>2. /\ pushed' = pushed /\ UNCHANGED <<staged, Saved, ingestFaults>>
        /\ request[a].step # "save"
    BY <1>6, SavedStays DEF DrainSelect, Refused, DiscoverSchema, UpdateSync, tables
  <2> QED
    BY <1>3, <2>1, <2>2
<1>7. ASSUME NEW a \in Admins, DrainDelete(a)
      PROVE  r \in staged' \/ (\E b \in Admins : Held(b, r)') \/ IsStored(r)'
  <2>1. /\ pushed' = pushed /\ staged' = staged \ request[a].rows /\ Saved' = Saved
        /\ ingestFaults' = ingestFaults /\ request[a].step = "delete"
    BY <1>7, SavedStays DEF DrainDelete
  <2>2. PICK k : IngestGoes(a, k) /\ k # NoIngest /\ k.rows = request[a].rows /\ k.step = "save"
    BY <1>7, <2>1, RequestMoves
  <2>3. \A b \in Admins : Held(b, r) => Held(b, r)'
    BY <2>1, <2>2 DEF Held, Active, IngestGoes
  <2>4. r \in request[a].rows => Held(a, r)'
    BY <2>2 DEF Held, Active, IngestGoes
  <2> QED
    BY <1>0, <2>1, <2>3, <2>4 DEF IsStored
<1>8. ASSUME NEW a \in Admins, SaveRecords(a)
      PROVE  r \in staged' \/ (\E b \in Admins : Held(b, r)') \/ IsStored(r)'
  <2>1. /\ pushed' = pushed /\ staged' = staged /\ ingestFaults' = ingestFaults
    BY <1>8 DEF SaveRecords
  <2>2. PICK k : IngestGoes(a, k)
    BY <1>8, RequestMoves
  <2>3. \A b \in Admins : b # a /\ Held(b, r) => Held(b, r)'
    BY <2>2 DEF Held, Active, IngestGoes
  <2>4. Held(a, r) => IsStored(r)'
    BY <1>8, SaveStores DEF Held, Accepted
  <2>5. IsStored(r) => IsStored(r)'
    BY <1>8, SaveStores
  <2> QED
    BY <1>0, <2>1, <2>3, <2>4, <2>5
<1>9. ASSUME NEW a \in Admins, IngestFails(a)
      PROVE  FALSE
  BY <1>9 DEF IngestFails, IngestTypeOK
<1> QED
  BY <1>1, <1>2, <1>4, <1>5, <1>6, <1>7, <1>8, <1>9 DEF IngestNext

\* What RowsAreApart says of request record k.
Apart(k) ==
    /\ k.step = "delete" => k.rows \subseteq staged
    /\ k.step = "save" => \A r \in k.rows : r \in (1 .. pushed) \ staged /\ ~IsStored(r)

\* The request that moves is the only one, so that it alone has to be apart.
LEMMA OneStaysApart ==
    ASSUME IngestTypeOK, RowsAreApart, CountsAreExact, NEW a \in Admins, NEW k, IngestGoes(a, k),
           ~ingestOverlapped' => ~ingestOverlapped /\ (Active(a) \/ \A b \in Admins : ~Active(b)),
           ~ingestOverlapped =>
             /\ staged' \subseteq 1 .. pushed'
             /\ \A r : IsStored(r)' => r \in (1 .. pushed') \ staged'
             /\ k # NoIngest => Apart(k)'
             /\ \A d, e \in Datasets : \A x \in Saved'[d], y \in Saved'[e] :
                  x[1] = y[1] => d = e /\ x = y
    PROVE  RowsAreApart'
<1> SUFFICES ASSUME ~ingestOverlapped'
             PROVE  RowsAreApart'
  BY DEF RowsAreApart
<1>1. \A b \in Admins : b # a => ~Active(b)
  BY DEF CountsAreExact
<1>2. \A b \in Admins : Active(b)' => b = a /\ request'[b] = k /\ k # NoIngest
  BY <1>1 DEF IngestGoes, Active
<1> QED
  BY <1>2 DEF RowsAreApart, Apart

\* Every step keeps the rows apart.
LEMMA ApartKept ==
    ASSUME IngestTypeOK, StoreIsNumbered, CountsAreExact, RowsAreApart, [IngestNext]_ingestVars
    PROVE  RowsAreApart'
<1>1. CASE UpdateSource \/ (\E d \in Datasets : CreateDataset(d) \/ PurgeRecords(d))
             \/ UNCHANGED ingestVars
  <2>1. UNCHANGED <<pushed, staged, request, Saved, ingestOverlapped>>
    <3>1. CASE \E d \in Datasets : PurgeRecords(d)
      BY <3>1, SavedStays
    <3>2. CASE UpdateSource \/ (\E d \in Datasets : CreateDataset(d)) \/ UNCHANGED ingestVars
      BY <3>2, SavedStays DEF UpdateSource, CreateDataset, ingestVars, tables
    <3> QED
      BY <1>1, <3>1, <3>2
  <2> QED
    BY <2>1 DEF Active, IsStored, RowsAreApart
<1>2. CASE \E n \in 1 .. 2 : ReceiveWebhook(n)
  <2>1. PICK n \in 1 .. 2 : /\ pushed' = pushed + n /\ staged' = staged \cup (pushed + 1 .. pushed + n)
                            /\ UNCHANGED <<Saved, request, ingestOverlapped>>
    BY <1>2, SavedStays DEF ReceiveWebhook
  <2>2. /\ \A r \in 1 .. pushed : r \in 1 .. pushed' /\ r \notin pushed + 1 .. pushed + n
        /\ pushed + 1 .. pushed + n \subseteq 1 .. pushed'
    BY <2>1 DEF IngestTypeOK
  <2>3. \A b \in Admins : (Active(b)' <=> Active(b)) /\ request'[b] = request[b]
    BY <2>1 DEF Active
  <2>4. \A r : IsStored(r)' <=> IsStored(r)
    BY <2>1 DEF IsStored
  <2>5. CASE ~ingestOverlapped
    <3>1. staged' \subseteq 1 .. pushed' /\ \A r : IsStored(r)' => r \in (1 .. pushed') \ staged'
      BY <2>1, <2>2, <2>4, <2>5 DEF RowsAreApart
    <3>2. ASSUME NEW b \in Admins, Active(b)'
          PROVE  Apart(request[b])'
      BY <2>1, <2>2, <2>3, <2>4, <2>5, <3>2 DEF RowsAreApart, Apart
    <3>3. \A d, e \in Datasets : \A x \in Saved'[d], y \in Saved'[e] :
             x[1] = y[1] => d = e /\ x = y
      BY <2>1, <2>5 DEF RowsAreApart
    <3> QED
      BY <3>1, <3>2, <3>3 DEF RowsAreApart, Apart
  <2>6. CASE ingestOverlapped
    BY <2>1, <2>6 DEF RowsAreApart
  <2> QED
    BY <2>5, <2>6
<1>3. ASSUME NEW a \in Admins, NEW k, IngestGoes(a, k), UNCHANGED <<staged, Saved>>,
             ~ingestOverlapped' => ~ingestOverlapped /\ (Active(a) \/ \A b \in Admins : ~Active(b)),
             NEW n \in 0 .. 2, pushed' = pushed + n,
             \/ k = NoIngest \/ k.step \notin {"delete", "save"}
             \/ k.step = "delete" /\ k.rows = staged
             \/ k.step = "save" /\ k.rows = (pushed + 1 .. pushed + n)
      PROVE  RowsAreApart'
  <2>1. /\ \A r \in 1 .. pushed : r \in 1 .. pushed' /\ r \notin pushed + 1 .. pushed + n
        /\ pushed + 1 .. pushed + n \subseteq 1 .. pushed'
    BY <1>3 DEF IngestTypeOK
  <2>2. \A r : IsStored(r)' <=> IsStored(r)
    BY <1>3 DEF IsStored
  <2>3. ASSUME ~ingestOverlapped
        PROVE  /\ staged' \subseteq 1 .. pushed'
               /\ \A r : IsStored(r)' => r \in (1 .. pushed') \ staged'
               /\ k # NoIngest => Apart(k)'
               /\ \A d, e \in Datasets : \A x \in Saved'[d], y \in Saved'[e] :
                    x[1] = y[1] => d = e /\ x = y
    <3>1. staged' \subseteq 1 .. pushed' /\ \A r : IsStored(r)' => r \in (1 .. pushed') \ staged'
      BY <1>3, <2>1, <2>2, <2>3 DEF RowsAreApart
    <3>2. k # NoIngest => Apart(k)'
      BY <1>3, <2>1, <2>2, <2>3 DEF RowsAreApart, Apart
    <3>3. \A d, e \in Datasets : \A x \in Saved'[d], y \in Saved'[e] :
             x[1] = y[1] => d = e /\ x = y
      BY <1>3, <2>3 DEF RowsAreApart
    <3> QED
      BY <3>1, <3>2, <3>3
  <2> QED
    BY <1>3, <2>3, OneStaysApart
<1>4. ASSUME NEW a \in Admins, NEW d \in Datasets, NEW n \in 0 .. 2, BeginIngest(a, d, n)
      PROVE  RowsAreApart'
  <2>1. PICK k : /\ IngestGoes(a, k) /\ k.rows = (pushed + 1 .. pushed + n)
                 /\ k.step \in {"save", "rows"}
    BY <1>4, RequestMoves
  <2>2. /\ pushed' = pushed + n /\ UNCHANGED <<staged, Saved>>
        /\ ~ingestOverlapped' => ~ingestOverlapped /\ \A b \in Admins : ~Active(b)
    BY <1>4, SavedStays DEF BeginIngest, tables, Active
  <2> QED
    BY <1>3, <2>1, <2>2
<1>5. ASSUME NEW a \in Admins, NEW n \in 0 .. 2, FetchRows(a, n)
      PROVE  RowsAreApart'
  <2>1. PICK k : /\ IngestGoes(a, k) /\ Active(a) /\ k.rows = (pushed + 1 .. pushed + n)
                 /\ k.step = "save"
    BY <1>5, RequestMoves
  <2>2. pushed' = pushed + n /\ UNCHANGED <<staged, Saved, ingestOverlapped>>
    BY <1>5, SavedStays DEF FetchRows, tables
  <2> QED
    BY <1>3, <2>1, <2>2
<1>6. ASSUME NEW a \in Admins, DrainSelect(a) \/ Refused(a) \/ DiscoverSchema(a) \/ UpdateSync(a)
                               \/ IngestFails(a)
      PROVE  RowsAreApart'
  <2>1. PICK k : /\ IngestGoes(a, k) /\ Active(a)
                 /\ \/ k = NoIngest \/ k.step = "sync"
                    \/ k.step = "delete" /\ k.rows = staged
    <3>1. DiscoverSchema(a) => request[a].step = "schema"
      BY DEF DiscoverSchema
    <3> QED
      BY <1>6, <3>1, RequestMoves
  <2>2. pushed' = pushed + 0 /\ UNCHANGED <<staged, Saved, ingestOverlapped>>
    BY <1>6, SavedStays
    DEF DrainSelect, Refused, DiscoverSchema, UpdateSync, IngestFails, tables, IngestTypeOK
  <2> QED
    BY <1>3, <2>1, <2>2
<1>7. ASSUME NEW a \in Admins, DrainDelete(a)
      PROVE  RowsAreApart'
  <2>1. /\ pushed' = pushed /\ staged' = staged \ request[a].rows /\ Saved' = Saved
        /\ ingestOverlapped' = ingestOverlapped /\ request[a].step = "delete"
    BY <1>7, SavedStays DEF DrainDelete
  <2>2. PICK k : IngestGoes(a, k) /\ Active(a) /\ k.rows = request[a].rows /\ k.step = "save"
    BY <1>7, <2>1, RequestMoves
  <2>3. \A r : IsStored(r)' <=> IsStored(r)
    BY <2>1 DEF IsStored
  <2>4. ASSUME ~ingestOverlapped
        PROVE  /\ staged' \subseteq 1 .. pushed'
               /\ \A r : IsStored(r)' => r \in (1 .. pushed') \ staged'
               /\ k # NoIngest => Apart(k)'
               /\ \A d, e \in Datasets : \A x \in Saved'[d], y \in Saved'[e] :
                    x[1] = y[1] => d = e /\ x = y
    <3>1. k.rows \subseteq staged
      BY <2>1, <2>2, <2>4 DEF RowsAreApart
    <3>2. Apart(k)'
      BY <2>1, <2>2, <2>3, <2>4, <3>1 DEF RowsAreApart, Apart
    <3> QED
      BY <2>1, <2>3, <2>4, <3>2 DEF RowsAreApart
  <2> QED
    BY <2>1, <2>2, <2>4, OneStaysApart
<1>8. ASSUME NEW a \in Admins, SaveRecords(a)
      PROVE  RowsAreApart'
  <2>1. /\ pushed' = pushed /\ staged' = staged /\ ingestOverlapped' = ingestOverlapped
        /\ request[a].step = "save"
    BY <1>8 DEF SaveRecords
  <2>2. PICK k : IngestGoes(a, k) /\ Active(a) /\ k.step = "schema"
    BY <1>8, <2>1, RequestMoves
  <2>3. PICK batch : batch = Accepted(request[a].rows) /\ batch \subseteq request[a].rows
    BY DEF Accepted
  <2>4. \A r : IsStored(r)' <=> IsStored(r) \/ r \in batch
    BY <1>8, <2>3, SaveStores
  <2>5. ASSUME ~ingestOverlapped
        PROVE  /\ staged' \subseteq 1 .. pushed'
               /\ \A r : IsStored(r)' => r \in (1 .. pushed') \ staged'
               /\ k # NoIngest => Apart(k)'
               /\ \A d, e \in Datasets : \A x \in Saved'[d], y \in Saved'[e] :
                    x[1] = y[1] => d = e /\ x = y
    <3>1. \A r \in batch : r \in (1 .. pushed) \ staged /\ ~IsStored(r)
      BY <2>1, <2>2, <2>3, <2>5 DEF RowsAreApart
    <3>2. /\ staged' \subseteq 1 .. pushed'
          /\ \A r : IsStored(r)' => r \in (1 .. pushed') \ staged'
      BY <2>1, <2>4, <2>5, <3>1 DEF RowsAreApart
    <3>3. Apart(k)'
      BY <2>2 DEF Apart
    <3>4. ASSUME NEW d \in Datasets, NEW e \in Datasets, NEW x \in Saved'[d], NEW y \in Saved'[e],
                 x[1] = y[1]
          PROVE  d = e /\ x = y
      <4>a. PICK f : f = request[a].dataset
        OBVIOUS
      <4>b. PICK new : LET t == request[a].dataset
                           s == Accepted(request[a].rows) IN
           /\ stored' \in [Datasets -> SUBSET (IngestRows \X Nat)]
           /\ purged' = purged
           /\ Saved' \in [Datasets -> SUBSET (IngestRows \X Nat)]
           /\ \A g \in Datasets : Saved'[g] = IF g = t THEN Saved[t] \cup new ELSE Saved[g]
           /\ \A v \in new : v[1] \in s
           /\ \A r \in s : \E v \in new : v[1] = r
           /\ \A v, w \in new : v[1] = w[1] => v = w
           /\ IsFiniteSet(Saved'[t]) /\ Numbered(Saved'[t])
           /\ Cardinality(Saved'[t]) = Cardinality(Saved[t]) + Cardinality(s)
        BY <1>8, SaveAdds, Zenon
      <4>1. /\ \A g \in Datasets : Saved'[g] = IF g = f THEN Saved[f] \cup new ELSE Saved[g]
            /\ \A v \in new : v[1] \in batch
            /\ \A v, w \in new : v[1] = w[1] => v = w
        BY <2>3, <4>a, <4>b
      <4>2. /\ x \in Saved[d] \/ (x \in new /\ d = f)
            /\ y \in Saved[e] \/ (y \in new /\ e = f)
        BY <4>1
      <4>3. /\ x \in Saved[d] => IsStored(x[1])
            /\ y \in Saved[e] => IsStored(y[1])
        BY DEF IsStored
      <4>4. /\ x \in new => ~IsStored(x[1])
            /\ y \in new => ~IsStored(y[1])
        BY <3>1, <4>1
      <4>5. CASE x \in Saved[d] /\ y \in Saved[e]
        BY <2>5, <3>4, <4>5 DEF RowsAreApart
      <4>6. CASE x \in new /\ y \in new /\ d = f /\ e = f
        BY <3>4, <4>1, <4>6
      <4> QED
        BY <3>4, <4>2, <4>3, <4>4, <4>5, <4>6
    <3> QED
      BY <3>2, <3>3, <3>4
  <2> QED
    BY <2>1, <2>2, <2>5, OneStaysApart
<1> QED
  BY <1>1, <1>2, <1>4, <1>5, <1>6, <1>7, <1>8 DEF IngestNext

-----------------------------------------------------------------------------
(* The ingest of enterprise rows: the theorem *)

\* The types, the numbering of the copies, where the rows are and what the counts say.
IngestInductive ==
    IngestTypeOK /\ StoreIsNumbered /\ Counts /\ RowsAreKept /\ RowsAreApart

\* An empty store is as it should be.
LEMMA IngestStarts == IngestInit => IngestInductive
<1> SUFFICES ASSUME IngestInit PROVE IngestInductive
  OBVIOUS
<1>1. IngestTypeOK
  <2>1. request \in [Admins -> Requests]
    BY DEF IngestInit, Requests
  <2>2. datasets \in [Datasets -> [registered : BOOLEAN, row_count : Nat]]
    BY DEF IngestInit
  <2>3. pushed \in 0 .. MaxRow
    BY RowsAssumption DEF IngestInit
  <2> QED
    BY <2>1, <2>2, <2>3 DEF IngestInit, IngestTypeOK
<1>2. StoreIsNumbered
  <2>1. \A d \in Datasets : Saved[d] = {}
    BY DEF IngestInit, Saved
  <2> QED
    BY <2>1, FS_EmptySet DEF StoreIsNumbered, Numbered
<1>3. Counts
  <2>1. \A d \in Datasets : Cardinality(Saved[d]) = 0 /\ datasets[d].row_count = 0
    <3>1. \A d \in Datasets : Saved[d] = {}
      BY DEF IngestInit, Saved
    <3> QED
      BY <3>1, FS_EmptySet DEF IngestInit
  <2> QED
    BY <2>1 DEF IngestInit, Counts, CountsHold, CountsAreExact, Active
<1>4. RowsAreKept
  BY DEF IngestInit, RowsAreKept
<1>5. RowsAreApart
  <2>1. \A d \in Datasets : Saved[d] = {}
    BY DEF IngestInit, Saved
  <2> QED
    BY <2>1 DEF IngestInit, RowsAreApart, IsStored, Active
<1> QED
  BY <1>1, <1>2, <1>3, <1>4, <1>5 DEF IngestInductive

\* The invariant says where rows are, and what the counts are.
LEMMA RowsAreCounted == IngestInductive => RowsAreAccountedFor
<1> SUFFICES ASSUME IngestInductive PROVE RowsAreAccountedFor
  OBVIOUS
<1>1. RowCountIsSound
  BY DEF IngestInductive, Counts, CountsHold, CountsAreExact, RowCountIsSound, Active
<1>2. ASSUME NEW r \in 1 .. pushed, ingestFaults = 0, r \notin Empty
      PROVE  Places(r) # {}
  <2>1. r \in staged \/ (\E a \in Admins : Held(a, r)) \/ IsStored(r)
    BY <1>2 DEF IngestInductive, RowsAreKept
  <2>2. ASSUME NEW a \in Admins, Held(a, r)
        PROVE  a \in Places(r)
    BY <2>2 DEF Places, Held, Active
  <2>3. ASSUME NEW d \in Datasets, NEW x \in Saved[d], x[1] = r
        PROVE  <<d, x>> \in Places(r)
    BY <2>3 DEF Places, Copies
  <2>4. r \in staged => "staged" \in Places(r)
    BY DEF Places
  <2> QED
    BY <2>1, <2>2, <2>3, <2>4 DEF IsStored
<1>3. ASSUME NEW r \in 1 .. pushed, ~ingestOverlapped, NEW p \in Places(r), NEW q \in Places(r)
      PROVE  p = q
  <2>1. ASSUME NEW z \in Places(r)
        PROVE  \/ z = "staged" /\ r \in staged
               \/ z \in Admins /\ Held(z, r)
               \/ \E d \in Datasets : \E x \in Saved[d] : z = <<d, x>> /\ x[1] = r
    BY <2>1 DEF Places, Held, Active, Copies
  <2>2. /\ r \in staged => ~IsStored(r) /\ \A a \in Admins : ~Held(a, r)
        /\ IsStored(r) => \A a \in Admins : ~Held(a, r)
        /\ \A a, b \in Admins : Held(a, r) /\ Held(b, r) => a = b
        /\ \A d, e \in Datasets : \A x \in Saved[d], y \in Saved[e] :
             x[1] = y[1] => d = e /\ x = y
    BY <1>3 DEF IngestInductive, RowsAreApart, Counts, CountsAreExact, Held
  <2>3. (\E d \in Datasets : \E x \in Saved[d] : x[1] = r) => IsStored(r)
    BY DEF IsStored
  <2> QED
    BY <2>1, <2>2, <2>3
<1>4. RowsAreConserved
  BY <1>2, <1>3 DEF RowsAreConserved
<1> QED
  BY <1>1, <1>4 DEF RowsAreAccountedFor

(***************************************************************************)
(* However pushes, drains, fetches, saves and purges interleave and fail:  *)
(* without a fault no valid row gets lost before it is saved, while        *)
(* ingests are alone none is in two places, and a row count, from which no *)
(* purge takes anything back, never says more than was ever saved          *)
(* (drain_enterprise_webhook_rows, ingest_dataset,                         *)
(* purge_enterprise_records_for_retention).                                *)
(***************************************************************************)
THEOREM RowsStayAccountedFor == IngestSpec => []RowsAreAccountedFor
<1>1. IngestInductive /\ [IngestNext]_ingestVars => IngestInductive'
  <2> SUFFICES ASSUME IngestInductive, [IngestNext]_ingestVars PROVE IngestInductive'
    OBVIOUS
  <2> USE DEF IngestInductive
  <2>1. IngestTypeOK' /\ StoreIsNumbered'
    BY IngestTypesKept
  <2>2. Counts'
    BY CountsKept
  <2>3. RowsAreKept'
    BY RowsKept
  <2>4. RowsAreApart'
    BY ApartKept DEF Counts
  <2> QED
    BY <2>1, <2>2, <2>3, <2>4
<1> QED
  BY <1>1, IngestStarts, RowsAreCounted, PTL DEF IngestSpec

-----------------------------------------------------------------------------
(* The retention of records: the policy that governs *)

\* A set of numbers has a least one.
LEMMA LeastOfSome ==
    ASSUME NEW some \in SUBSET Nat, some # {}
    PROVE  First(some) \in some /\ \A j \in some : First(some) <= j
<1> DEFINE below(n) == 0 .. n - 1
           belows == {below(n) : n \in some}
           smaller == StrictSubsetOrdering(Nat)
<1>1. IsWellFoundedOn(smaller, FiniteSubsetsOf(Nat))
  BY FS_StrictSubsetOrderingWellFounded
<1>2. \A n \in some : IsFiniteSet(below(n)) /\ below(n) \in SUBSET Nat
  BY FS_Interval
<1>3. belows \subseteq FiniteSubsetsOf(Nat) /\ belows # {}
  BY <1>2 DEF FiniteSubsetsOf
<1> HIDE DEF smaller
<1>4. PICK x \in belows : \A y \in belows : ~ (<<y, x>> \in smaller)
  <2> HIDE DEF belows
  <2> QED
    BY <1>1, <1>3, WFMin
<1>5. PICK n \in some : x = below(n)
  OBVIOUS
<1>6. ASSUME NEW m \in some, m < n
      PROVE  FALSE
  <2>1. below(m) \subseteq below(n) /\ m \in below(n) /\ m \notin below(m)
    BY <1>6
  <2>2. <<below(m), below(n)>> \in StrictSubsetOrdering(Nat)
    <3> HIDE DEF below
    <3> QED
      BY <2>1, <1>2 DEF StrictSubsetOrdering
  <2> QED
    BY <2>2, <1>4, <1>5 DEF smaller
<1>7. \A j \in some : n <= j
  BY <1>6
<1> QED
  BY <1>7 DEF First

(***************************************************************************)
(* The search of resolve_retention_days, for an organization and one of its*)
(* datasets, ends at the policy that no other one outranks.                *)
(***************************************************************************)
LEMMA SearchFindsGoverning ==
    ASSUME policies \in Seq(Policies), NEW d \in OwnedDatasets
    PROVE  Resolve(d.org, d.class) = Governing(d)
<1> DEFINE own == Fitting(Visible(d.org), d.org, d.class)
           platform == Fitting(Visible(d.org), Platform, d.class)
           fit == {i \in DOMAIN policies :
                     policies[i].org \in {d.org, Platform} /\ policies[i].class = d.class}
           best == {i \in fit : \A j \in fit : ~Outranks(j, i, d)}
<1>1. own \in SUBSET Nat /\ platform \in SUBSET Nat
  BY DEF Fitting, Visible
<1>2. fit = own \cup platform
  BY DEF Fitting, Visible
<1>3. \A i \in own : policies[i].org = d.org
  BY DEF Fitting
<1>4. \A i \in platform : policies[i].org = Platform
  BY DEF Fitting
<1>5. Governing(d) = IF best = {} THEN Forever ELSE policies[CHOOSE i \in best : TRUE].days
  BY DEF Governing
<1>6. Resolve(d.org, d.class) = IF own # {} THEN policies[First(own)].days
                                ELSE IF platform # {} THEN policies[First(platform)].days
                                ELSE Forever
  BY DEF Resolve
<1> HIDE DEF own, platform, fit
<1>7. CASE own # {}
  <2>1. First(own) \in own /\ \A j \in own : First(own) <= j
    BY <1>1, <1>7, LeastOfSome
  <2>2. best = {First(own)}
    <3>1. ASSUME NEW i \in best
          PROVE  i = First(own)
      <4>1. i \in fit /\ ~Outranks(First(own), i, d)
        BY <1>2, <2>1
      <4>2. i \in own
        <5>1. CASE Platform = d.org
          <6>1. platform = own
            BY <5>1 DEF own, platform
          <6> QED
            BY <1>2, <4>1, <6>1
        <5>2. CASE Platform # d.org
          BY <1>2, <1>3, <1>4, <2>1, <4>1, <5>2 DEF Outranks
        <5> QED
          BY <5>1, <5>2
      <4>3. ~(First(own) < i) /\ First(own) <= i /\ i \in Nat /\ First(own) \in Nat
        BY <1>1, <1>3, <2>1, <4>1, <4>2 DEF Outranks
      <4> QED
        BY <4>3
    <3>2. ASSUME NEW j \in fit, Outranks(j, First(own), d)
          PROVE  FALSE
      <4>1. policies[First(own)].org = d.org
        BY <1>3, <2>1
      <4>2. policies[j].org = d.org /\ j < First(own)
        BY <3>2, <4>1 DEF Outranks
      <4>3. CASE j \in own
        BY <1>1, <2>1, <4>2, <4>3
      <4>4. CASE j \notin own
        <5>1. Platform = d.org /\ j \in platform
          BY <1>2, <1>4, <4>2, <4>4
        <5>2. platform = own
          BY <5>1 DEF own, platform
        <5> QED
          BY <4>4, <5>1, <5>2
      <4> QED
        BY <4>3, <4>4
    <3>3. First(own) \in best
      BY <1>2, <2>1, <3>2
    <3> QED
      BY <3>1, <3>3
  <2> HIDE DEF best
  <2> QED
    BY <1>5, <1>6, <1>7, <2>2
<1>8. CASE own = {} /\ platform # {}
  <2>1. First(platform) \in platform /\ \A j \in platform : First(platform) <= j
    BY <1>1, <1>8, LeastOfSome
  <2>2. fit = platform
    BY <1>2, <1>8
  <2>3. best = {First(platform)}
    <3>1. \A i, j \in platform : policies[i].org = policies[j].org
      BY <1>4
    <3>2. Platform # d.org
      BY <1>8 DEF own, platform
    <3>3. \A i, j \in platform : Outranks(j, i, d) <=> j < i
      BY <1>4, <3>2 DEF Outranks
    <3>4. ASSUME NEW i \in best
          PROVE  i = First(platform)
      <4>1. i \in platform /\ ~(First(platform) < i)
        BY <2>1, <2>2, <3>3
      <4>2. First(platform) <= i /\ i \in Nat /\ First(platform) \in Nat
        BY <1>1, <2>1, <4>1
      <4> QED
        BY <4>1, <4>2
    <3>5. First(platform) \in best
      <4>1. \A j \in platform : ~(j < First(platform))
        <5> SUFFICES ASSUME NEW j \in platform
                     PROVE  ~(j < First(platform))
          OBVIOUS
        <5>1. First(platform) <= j /\ j \in Nat /\ First(platform) \in Nat
          BY <1>1, <2>1
        <5> QED
          BY <5>1
      <4> QED
        BY <2>1, <2>2, <3>3, <4>1
    <3> QED
      BY <3>4, <3>5
  <2> HIDE DEF best
  <2> QED
    BY <1>5, <1>6, <1>8, <2>3
<1>9. CASE own = {} /\ platform = {}
  BY <1>2, <1>5, <1>6, <1>9
<1> QED
  BY <1>7, <1>8, <1>9

\* What is resolved is a period, or forever.
LEMMA ResolvedIsDays ==
    ASSUME policies \in Seq(Policies), NEW org, NEW class
    PROVE  Resolve(org, class) \in Days
<1> DEFINE own == Fitting(Visible(org), org, class)
           platform == Fitting(Visible(org), Platform, class)
<1>1. own \in SUBSET DOMAIN policies /\ platform \in SUBSET DOMAIN policies
  BY DEF Fitting, Visible
<1>2. DOMAIN policies \subseteq Nat
  OBVIOUS
<1>3. \A i \in DOMAIN policies : policies[i].days \in Days
  <2>1. \A i \in DOMAIN policies : policies[i] \in Policies
    OBVIOUS
  <2> QED
    BY <2>1 DEF Policies
<1>4. Resolve(org, class) = IF own # {} THEN policies[First(own)].days
                            ELSE IF platform # {} THEN policies[First(platform)].days
                            ELSE Forever
  BY DEF Resolve
<1> HIDE DEF own, platform
<1>5. own # {} => First(own) \in DOMAIN policies
  BY <1>1, <1>2, LeastOfSome
<1>6. platform # {} => First(platform) \in DOMAIN policies
  BY <1>1, <1>2, LeastOfSome
<1> QED
  BY <1>3, <1>4, <1>5, <1>6, RetentionAssumption

\* What governs a dataset is a period, or forever.
LEMMA GoverningIsDays ==
    ASSUME policies \in Seq(Policies), NEW d \in OwnedDatasets
    PROVE  Governing(d) \in Days
BY SearchFindsGoverning, ResolvedIsDays

-----------------------------------------------------------------------------
(* The retention of records: the purges *)

(***************************************************************************)
(* A purge for an organization that has its cutoff: every dataset that it  *)
(* goes for was promised a period, and the cutoff is not after its end.    *)
(***************************************************************************)
PurgesArePromised ==
    \A p \in Purgers : purge[p].step \in {"list", "purge"} /\ purge[p].org # Platform =>
        /\ purge[p].todo \subseteq Matching(purge[p].org, purge[p].class)
        /\ \A d \in Matching(purge[p].org, purge[p].class) :
             /\ purge[p].promised[d] # Forever
             /\ purge[p].cutoff <= today - purge[p].promised[d]

\* The types, and what the purges rely on.
RetentionInductive == RetentionTypeOK /\ PurgesArePromised

\* What PurgesArePromised says of one job, on day t.
Promised(j, t) ==
    j.step \in {"list", "purge"} /\ j.org # Platform =>
        /\ j.todo \subseteq Matching(j.org, j.class)
        /\ \A d \in Matching(j.org, j.class) :
             j.promised[d] # Forever /\ j.cutoff <= t - j.promised[d]

\* A purger's new job is a job, and keeps its promise; the other's job is the same.
JobMoves(p, t) ==
    /\ purge' \in [Purgers -> Jobs]
    /\ Promised(purge'[p], t)
    /\ \A q \in Purgers : q # p => purge'[q] = purge[q]
    /\ cycle' \in Seq(OwnedDatasets)

\* A job is moved: what remains to be shown of it.
LEMMA MovedJob ==
    ASSUME RetentionTypeOK, NEW p \in Purgers, NEW j \in Jobs, Promised(j, today),
           purge' = [purge EXCEPT ![p] = j], cycle' \in Seq(OwnedDatasets)
    PROVE  JobMoves(p, today)
BY DEF RetentionTypeOK, JobMoves

\* A job that is ended or begins has no cutoff yet.
LEMMA YoungJobs ==
    /\ NoPurge \in Jobs /\ Promised(NoPurge, today)
    /\ \A org \in Orgs \cup {Platform}, class \in Classes :
         LET j == [step |-> "resolve", org |-> org, class |-> class]
         IN  j \in Jobs /\ Promised(j, today)
BY DEF Jobs, NoPurge, Promised

\* The end of a pair, of the last one too.
LEMMA DoneMoves ==
    ASSUME RetentionTypeOK, NEW p \in Purgers, Done(p)
    PROVE  JobMoves(p, today)
<1>1. CASE p = "worker" /\ Len(cycle) > 1
  <2>1. cycle \in Seq(OwnedDatasets) /\ cycle[2] \in OwnedDatasets /\ Tail(cycle) \in Seq(OwnedDatasets)
    BY <1>1 DEF RetentionTypeOK
  <2>2. cycle[2].org \in Orgs /\ cycle[2].class \in Classes
    BY <2>1, RetentionAssumption
  <2>3. PICK j : /\ j = [step |-> "resolve", org |-> cycle[2].org, class |-> cycle[2].class]
                 /\ purge' = [purge EXCEPT ![p] = j]
    BY <1>1 DEF Done, Order
  <2>4. j \in Jobs /\ Promised(j, today)
    BY <2>2, <2>3, YoungJobs
  <2>5. cycle' = Tail(cycle)
    BY <1>1 DEF Done
  <2> QED
    BY <2>1, <2>3, <2>4, <2>5, MovedJob
<1>2. CASE ~(p = "worker" /\ Len(cycle) > 1)
  <2>1. purge' = [purge EXCEPT ![p] = NoPurge] /\ cycle' \in {<<>>, cycle}
    BY <1>2 DEF Done
  <2>2. cycle' \in Seq(OwnedDatasets)
    <3>1. cycle \in Seq(OwnedDatasets) /\ <<>> \in Seq(OwnedDatasets)
      BY EmptySeq DEF RetentionTypeOK
    <3> QED
      BY <2>1, <3>1
  <2> QED
    BY <2>1, <2>2, YoungJobs, MovedJob
<1> QED
  BY <1>1, <1>2

\* A job that has its cutoff is of this form.
LEMMA JobsAreTold ==
    ASSUME RetentionTypeOK, NEW p \in Purgers
    PROVE  /\ purge[p] \in Jobs
           /\ purge[p].step = "resolve" =>
                purge[p].org \in Orgs \cup {Platform} /\ purge[p].class \in Classes
           /\ purge[p].step \in {"list", "purge"} =>
                purge[p] \in [step : {"list", "purge"}, org : Orgs \cup {Platform},
                              class : Classes, cutoff : Int, todo : SUBSET OwnedDatasets,
                              promised : [OwnedDatasets -> Days]]
BY DEF RetentionTypeOK, Jobs, NoPurge

\* The cutoff follows the policy that governs what the purge will go for.
LEMMA ResolveMoves ==
    ASSUME RetentionTypeOK, NEW p \in Purgers, ResolvePolicy(p)
    PROVE  JobMoves(p, today)
<1>1. purge[p].org \in Orgs \cup {Platform} /\ purge[p].class \in Classes
  BY JobsAreTold DEF ResolvePolicy
<1>2. PICK days \in Days : days = Resolve(purge[p].org, purge[p].class)
  BY ResolvedIsDays DEF RetentionTypeOK
<1>3. CASE days = Forever
  BY <1>2, <1>3, DoneMoves DEF ResolvePolicy
<1>4. CASE days # Forever
  <2> DEFINE j == [step |-> "list", org |-> purge[p].org, class |-> purge[p].class,
                   cutoff |-> today - days, todo |-> {},
                   promised |-> [d \in OwnedDatasets |-> Governing(d)]]
  <2>1. purge' = [purge EXCEPT ![p] = j] /\ cycle' = cycle
    BY <1>2, <1>4 DEF ResolvePolicy, RetentionTypeOK
  <2>2. [d \in OwnedDatasets |-> Governing(d)] \in [OwnedDatasets -> Days]
    BY GoverningIsDays DEF RetentionTypeOK
  <2>3. days \in Int /\ today \in Int
    BY <1>4, RetentionAssumption DEF RetentionTypeOK
  <2>4. j \in Jobs
    BY <1>1, <2>2, <2>3 DEF Jobs
  <2>5. ASSUME purge[p].org # Platform, NEW d \in Matching(purge[p].org, purge[p].class)
        PROVE  Governing(d) = days
    <3>1. d \in OwnedDatasets /\ d.org = purge[p].org /\ d.class = purge[p].class
      BY <2>5 DEF Matching
    <3> QED
      BY <1>2, <3>1, SearchFindsGoverning DEF RetentionTypeOK
  <2>6. Promised(j, today)
    <3>1. Matching(purge[p].org, purge[p].class) \subseteq OwnedDatasets
      BY DEF Matching
    <3>2. purge[p].org # Platform => \A d \in Matching(purge[p].org, purge[p].class) :
            j.promised[d] = days
      BY <2>5, <3>1
    <3> QED
      BY <1>4, <2>3, <3>2 DEF Promised
  <2> QED
    BY <2>1, <2>4, <2>6, MovedJob DEF RetentionTypeOK
<1> QED
  BY <1>3, <1>4

\* The datasets that are listed are those that match.
LEMMA ListMoves ==
    ASSUME RetentionInductive, NEW p \in Purgers, ListDatasets(p)
    PROVE  JobMoves(p, today)
<1> DEFINE todo == Matching(purge[p].org, purge[p].class)
<1>1. CASE todo = {}
  BY <1>1, DoneMoves DEF ListDatasets, RetentionInductive
<1>2. CASE todo # {}
  <2>1. PICK k : k = purge[p]
    OBVIOUS
  <2>2. PICK j : j = [k EXCEPT !.step = "purge", !.todo = todo]
    OBVIOUS
  <2>3. purge' = [purge EXCEPT ![p] = j] /\ cycle' = cycle
    BY <1>2, <2>1, <2>2 DEF ListDatasets, RetentionInductive, RetentionTypeOK
  <2>4. /\ k \in [step : {"list", "purge"}, org : Orgs \cup {Platform},
                  class : Classes, cutoff : Int, todo : SUBSET OwnedDatasets,
                  promised : [OwnedDatasets -> Days]]
        /\ k.step = "list"
    BY <2>1, JobsAreTold DEF ListDatasets, RetentionInductive
  <2>5. todo \in SUBSET OwnedDatasets
    BY DEF Matching
  <2>6. /\ j \in Jobs /\ j.org = k.org /\ j.class = k.class /\ j.cutoff = k.cutoff
        /\ j.promised = k.promised /\ j.todo = todo
    BY <2>2, <2>4, <2>5 DEF Jobs
  <2>7. Promised(k, today)
    BY <2>1 DEF RetentionInductive, PurgesArePromised, Promised
  <2>8. Promised(j, today)
    BY <2>1, <2>4, <2>6, <2>7 DEF Promised
  <2> QED
    BY <2>3, <2>6, <2>8, MovedJob DEF RetentionInductive, RetentionTypeOK
<1> QED
  BY <1>1, <1>2

\* One dataset after the other.
LEMMA PurgeMoves ==
    ASSUME RetentionInductive, NEW p \in Purgers, Purge(p)
    PROVE  JobMoves(p, today)
<1>1. PICK d \in purge[p].todo :
        \/ Done(p)
        \/ purge' = [purge EXCEPT ![p].todo = @ \ {d}] /\ UNCHANGED cycle
  BY DEF Purge
<1>2. CASE Done(p)
  BY <1>2, DoneMoves DEF RetentionInductive
<1>3. CASE purge' = [purge EXCEPT ![p].todo = @ \ {d}] /\ UNCHANGED cycle
  <2>1. PICK k : k = purge[p]
    OBVIOUS
  <2>2. PICK j : j = [k EXCEPT !.todo = k.todo \ {d}]
    OBVIOUS
  <2>3. purge' = [purge EXCEPT ![p] = j] /\ cycle' = cycle
    BY <1>3, <2>1, <2>2 DEF RetentionInductive, RetentionTypeOK
  <2>4. k \in [step : {"list", "purge"}, org : Orgs \cup {Platform},
               class : Classes, cutoff : Int, todo : SUBSET OwnedDatasets,
               promised : [OwnedDatasets -> Days]]
    BY <2>1, JobsAreTold DEF Purge, RetentionInductive
  <2>5. /\ j \in Jobs /\ j.org = k.org /\ j.class = k.class /\ j.cutoff = k.cutoff
        /\ j.step = k.step /\ j.promised = k.promised /\ j.todo = k.todo \ {d}
    BY <2>2, <2>4 DEF Jobs
  <2>6. Promised(k, today)
    BY <2>1 DEF RetentionInductive, PurgesArePromised, Promised
  <2>7. Promised(j, today)
    BY <2>5, <2>6 DEF Promised
  <2> QED
    BY <2>3, <2>5, <2>7, MovedJob DEF RetentionInductive, RetentionTypeOK
<1> QED
  BY <1>1, <1>2, <1>3

\* The days go by, and promises are kept all the more.
LEMMA PromisesLast ==
    ASSUME RetentionInductive, NEW p \in Purgers, today' \in Int, today <= today'
    PROVE  Promised(purge[p], today')
<1>1. PICK k : k = purge[p]
  OBVIOUS
<1>2. Promised(k, today)
  BY <1>1 DEF RetentionInductive, PurgesArePromised, Promised
<1>3. SUFFICES ASSUME k.step \in {"list", "purge"}, k.org # Platform
               PROVE  \A d \in Matching(k.org, k.class) : k.cutoff <= today' - k.promised[d]
  BY <1>1, <1>2, <1>3 DEF Promised
<1>4. k.cutoff \in Int /\ k.promised \in [OwnedDatasets -> Days]
  BY <1>1, <1>3, JobsAreTold DEF RetentionInductive
<1>5. TAKE d \in Matching(k.org, k.class)
<1>6. d \in OwnedDatasets
  BY DEF Matching
<1>7. k.promised[d] \in Int /\ today \in Int
  BY <1>2, <1>3, <1>4, <1>6, RetentionAssumption DEF RetentionInductive, RetentionTypeOK, Promised
<1>8. k.cutoff <= today - k.promised[d]
  BY <1>2, <1>3 DEF Promised
<1> QED
  BY <1>4, <1>7, <1>8

\* Promises are of jobs one by one.
LEMMA PromisesOfAll ==
    ASSUME \A q \in Purgers : Promised(purge'[q], today')
    PROVE  PurgesArePromised'
BY DEF PurgesArePromised, Promised

\* A step that moves one job keeps the invariant, if it keeps the other types.
LEMMA OneJobMoves ==
    ASSUME RetentionInductive, NEW p \in Purgers, JobMoves(p, today), today' = today,
           records' \subseteq Records, policies' \in Seq(Policies)
    PROVE  RetentionInductive'
<1>1. RetentionTypeOK'
  BY DEF RetentionInductive, RetentionTypeOK, JobMoves
<1>2. \A q \in Purgers : Promised(purge'[q], today')
  <2>1. \A q \in Purgers : Promised(purge[q], today)
    BY DEF RetentionInductive, PurgesArePromised, Promised
  <2> QED
    BY <2>1 DEF JobMoves
<1> QED
  BY <1>1, <1>2, PromisesOfAll DEF RetentionInductive

\* Policies are added in front and deleted from anywhere.
LEMMA PoliciesStayPolicies ==
    ASSUME policies \in Seq(Policies)
    PROVE  /\ \A policy \in PolicyChoices : CreatePolicy(policy) => policies' \in Seq(Policies)
           /\ \A i \in DOMAIN policies : DeletePolicy(i) => policies' \in Seq(Policies)
<1>1. ASSUME NEW policy \in PolicyChoices, CreatePolicy(policy)
      PROVE  policies' \in Seq(Policies)
  <2>1. <<policy>> \in Seq(Policies)
    BY RetentionAssumption DEF Policies
  <2> QED
    BY <1>1, <2>1, ConcatProperties DEF CreatePolicy
<1>2. ASSUME NEW i \in DOMAIN policies, DeletePolicy(i)
      PROVE  policies' \in Seq(Policies)
  <2>1. i \in 1 .. Len(policies)
    OBVIOUS
  <2>2. SubSeq(policies, 1, i - 1) \in Seq(Policies)
    BY <2>1, SubSeqProperties
  <2>3. SubSeq(policies, i + 1, Len(policies)) \in Seq(Policies)
    BY <2>1, SubSeqProperties
  <2> QED
    BY <1>2, <2>2, <2>3, ConcatProperties DEF DeletePolicy, RemoveAt
<1> QED
  BY <1>1, <1>2

\* Every step keeps the invariant.
LEMMA RetentionKept ==
    ASSUME RetentionInductive, [RetentionNext]_retentionVars
    PROVE  RetentionInductive'
<1>0. RetentionTypeOK
  BY DEF RetentionInductive
<1>1. today \in Int /\ records \subseteq Records /\ policies \in Seq(Policies)
  BY <1>0 DEF RetentionTypeOK
<1>2. ASSUME UNCHANGED <<purge, cycle>>, today' \in 0 .. MaxClock, today <= today',
             records' \subseteq Records, policies' \in Seq(Policies)
      PROVE  RetentionInductive'
  <2>1. RetentionTypeOK'
    BY <1>0, <1>2 DEF RetentionTypeOK
  <2>2. \A q \in Purgers : Promised(purge[q], today')
    BY <1>2, PromisesLast
  <2>3. \A q \in Purgers : Promised(purge'[q], today')
    BY <1>2, <2>2
  <2> QED
    BY <2>1, <2>3, PromisesOfAll DEF RetentionInductive
<1>3. today \in 0 .. MaxClock /\ today <= today
  BY <1>0, <1>1 DEF RetentionTypeOK
<1>4. CASE Tick
  <2>1. today' \in 0 .. MaxClock /\ today <= today'
    BY <1>3, <1>4, RetentionAssumption DEF Tick
  <2> QED
    BY <1>1, <1>2, <1>4, <2>1 DEF Tick
<1>5. ASSUME NEW d \in OwnedDatasets, NewRecord(d)
      PROVE  RetentionInductive'
  <2>1. [dataset |-> d, day |-> today] \in Records
    BY <1>3 DEF Records
  <2> QED
    BY <1>1, <1>2, <1>3, <1>5, <2>1 DEF NewRecord
<1>6. ASSUME NEW policy \in PolicyChoices, CreatePolicy(policy)
      PROVE  RetentionInductive'
  <2>1. policies' \in Seq(Policies)
    BY <1>1, <1>6, PoliciesStayPolicies
  <2> QED
    BY <1>1, <1>2, <1>3, <1>6, <2>1 DEF CreatePolicy
<1>7. ASSUME NEW i \in DOMAIN policies, DeletePolicy(i)
      PROVE  RetentionInductive'
  <2>1. policies' \in Seq(Policies)
    BY <1>1, <1>7, PoliciesStayPolicies
  <2> QED
    BY <1>1, <1>2, <1>3, <1>7, <2>1 DEF DeletePolicy
<1>8. ASSUME NEW p \in Purgers, NEW j \in Jobs, Promised(j, today),
             purge' = [purge EXCEPT ![p] = j], cycle' \in Seq(OwnedDatasets),
             UNCHANGED <<today, records, policies>>
      PROVE  RetentionInductive'
  BY <1>0, <1>1, <1>8, MovedJob, OneJobMoves
<1>9. ASSUME NEW org \in Orgs \cup {Platform}, NEW class \in Classes, OrderPurge(org, class)
      PROVE  RetentionInductive'
  <2>1. PICK j : /\ j = [step |-> "resolve", org |-> org, class |-> class]
                 /\ purge' = [purge EXCEPT !["admin"] = j]
    BY <1>9 DEF OrderPurge, Order
  <2>2. j \in Jobs /\ Promised(j, today)
    BY <2>1, YoungJobs
  <2>3. cycle' \in Seq(OwnedDatasets) /\ "admin" \in Purgers
    BY <1>0, <1>9 DEF OrderPurge, RetentionTypeOK, Purgers
  <2> QED
    BY <1>8, <1>9, <2>1, <2>2, <2>3 DEF OrderPurge
<1>10. CASE BeginCycle
  <2>1. Pairs[1] \in OwnedDatasets
    BY <1>10, RetentionAssumption DEF BeginCycle
  <2>2. Pairs[1].org \in Orgs /\ Pairs[1].class \in Classes
    BY <2>1, RetentionAssumption
  <2>3. PICK j : /\ j = [step |-> "resolve", org |-> Pairs[1].org, class |-> Pairs[1].class]
                 /\ purge' = [purge EXCEPT !["worker"] = j]
    BY <1>10 DEF BeginCycle, Order
  <2>4. j \in Jobs /\ Promised(j, today)
    BY <2>2, <2>3, YoungJobs
  <2>5. cycle' \in Seq(OwnedDatasets) /\ "worker" \in Purgers
    BY <1>10, RetentionAssumption DEF BeginCycle, Purgers
  <2> QED
    BY <1>8, <1>10, <2>3, <2>4, <2>5 DEF BeginCycle
<1>11. ASSUME NEW p \in Purgers, ResolvePolicy(p)
       PROVE  RetentionInductive'
  <2>1. JobMoves(p, today)
    BY <1>0, <1>11, ResolveMoves
  <2> QED
    BY <1>1, <1>11, <2>1, OneJobMoves DEF ResolvePolicy
<1>12. ASSUME NEW p \in Purgers, ListDatasets(p)
       PROVE  RetentionInductive'
  <2>1. JobMoves(p, today)
    BY <1>12, ListMoves
  <2> QED
    BY <1>1, <1>12, <2>1, OneJobMoves DEF ListDatasets
<1>13. ASSUME NEW p \in Purgers, Purge(p)
       PROVE  RetentionInductive'
  <2>1. JobMoves(p, today)
    BY <1>13, PurgeMoves
  <2>2. records' \subseteq records
    BY <1>13 DEF Purge
  <2>3. UNCHANGED <<today, policies>>
    BY <1>13 DEF Purge
  <2> QED
    BY <1>1, <2>1, <2>2, <2>3, OneJobMoves
<1>14. ASSUME NEW p \in Purgers, PurgeFails(p)
       PROVE  RetentionInductive'
  <2>1. cycle' \in Seq(OwnedDatasets)
    <3>1. cycle \in Seq(OwnedDatasets) /\ <<>> \in Seq(OwnedDatasets)
      BY <1>0, EmptySeq DEF RetentionTypeOK
    <3>2. cycle' \in {<<>>, cycle}
      BY <1>14 DEF PurgeFails
    <3> QED
      BY <3>1, <3>2
  <2> QED
    BY <1>8, <1>14, <2>1, YoungJobs DEF PurgeFails
<1>15. CASE UNCHANGED retentionVars
  BY <1>1, <1>2, <1>3, <1>15 DEF retentionVars
<1> QED
  BY <1>4, <1>5, <1>6, <1>7, <1>9, <1>10, <1>11, <1>12, <1>13, <1>14, <1>15
  DEF RetentionNext, PurgeStep

\* Nothing is promised yet when a store is empty.
LEMMA RetentionStarts == RetentionInit => RetentionInductive
<1> SUFFICES ASSUME RetentionInit
             PROVE  RetentionInductive
  OBVIOUS
<1>1. policies \in Seq(Policies) /\ cycle \in Seq(OwnedDatasets)
  BY EmptySeq DEF RetentionInit
<1>2. RetentionTypeOK
  BY <1>1, YoungJobs, RetentionAssumption DEF RetentionInit, RetentionTypeOK
<1>3. PurgesArePromised
  BY DEF RetentionInit, PurgesArePromised, NoPurge
<1> QED
  BY <1>2, <1>3 DEF RetentionInductive

\* A record that a step deletes is one that its purge may delete.
LEMMA DeletionsFollow ==
    ASSUME RetentionInductive, [RetentionNext]_retentionVars,
           \A p \in Purgers : purge[p].step = "purge" => purge[p].org # Platform,
           NEW r \in records \ records'
    PROVE  \E p \in Purgers : MayDelete(p, Orgs, r)
<1>1. PICK p \in Purgers : Purge(p)
  <2>1. CASE UNCHANGED retentionVars
    BY <2>1 DEF retentionVars
  <2>2. CASE RetentionNext
    BY <2>2 DEF RetentionNext, PurgeStep, Tick, NewRecord, CreatePolicy, DeletePolicy, OrderPurge,
                BeginCycle, ResolvePolicy, ListDatasets, PurgeFails
  <2> QED
    BY <2>1, <2>2
<1>2. PICK k : k = purge[p]
  OBVIOUS
<1>3. /\ k \in [step : {"list", "purge"}, org : Orgs \cup {Platform},
                class : Classes, cutoff : Int, todo : SUBSET OwnedDatasets,
                promised : [OwnedDatasets -> Days]]
      /\ k.step = "purge" /\ k.org # Platform
  BY <1>1, <1>2, JobsAreTold DEF Purge, RetentionInductive
<1>4. PICK d \in k.todo : r.dataset = d /\ r.day < k.cutoff
  <2>1. PICK d \in purge[p].todo : records' = records \ Expired(d, purge[p].cutoff)
    BY <1>1 DEF Purge
  <2> QED
    BY <1>2, <2>1 DEF Expired
<1>5. Promised(k, today)
  BY <1>2 DEF RetentionInductive, PurgesArePromised, Promised
<1>6. d \in OwnedDatasets /\ k.promised[d] # Forever /\ k.cutoff <= today - k.promised[d]
  BY <1>3, <1>4, <1>5 DEF Promised
<1>7. today \in Int /\ r.day \in Int /\ k.cutoff \in Int /\ k.promised[d] \in Int
  <2>1. r \in Records
    BY DEF RetentionInductive, RetentionTypeOK
  <2>2. r.day \in Int
    BY <2>1 DEF Records
  <2> QED
    BY <1>3, <1>6, <2>2, RetentionAssumption DEF RetentionInductive, RetentionTypeOK
<1>8. r.day + k.promised[d] < today
  BY <1>4, <1>6, <1>7
<1>9. k.org \in Orgs
  BY <1>3
<1> QED
  BY <1>2, <1>3, <1>4, <1>6, <1>8, <1>9 DEF MayDelete

(***************************************************************************)
(* A purge for an organization deletes only records that have outlived the *)
(* policy which governed their dataset when the purge looked: of any       *)
(* number of organizations, policies and purges, however they interleave   *)
(* (apply_retention_policy, resolve_retention_days).                       *)
(***************************************************************************)
THEOREM PurgesFollowPolicy == RetentionSpec => PurgeFollowsPolicy
<1>1. RetentionInductive /\ [RetentionNext]_retentionVars => RetentionInductive'
  BY RetentionKept
<1>2. RetentionInductive /\ [RetentionNext]_retentionVars =>
        [(\A p \in Purgers : purge[p].step = "purge" => purge[p].org # Platform)
         => \A r \in records \ records' : \E p \in Purgers : MayDelete(p, Orgs, r)]_retentionVars
  BY DeletionsFollow
<1> QED
  BY <1>1, <1>2, RetentionStarts, PTL DEF RetentionSpec, PurgeFollowsPolicy
=============================================================================
