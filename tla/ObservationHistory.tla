------------------------- MODULE ObservationHistory -------------------------
(***************************************************************************)
(* The bitemporal store of one observation, say the gas in storage in one  *)
(* week: the upstream corrects the value, the API and the worker fetch and *)
(* save it, and a revision closes the one before it instead of replacing   *)
(* it. A save reads the current revision in one await and writes in        *)
(* another; nothing excludes a second save in between.                     *)
(*                                                                         *)
(* Sources: packages/db/db/repository.py, models.py,                       *)
(* packages/schemas/schemas/observation.py and AppState.                   *)
(***************************************************************************)
EXTENDS Naturals, Sequences

CONSTANTS
    Processes,       \* the API and the workers
    Numberings,      \* the revision numbers a provider gives to a version
    MaxVersion, MaxFetches, MaxFaults   \* bounds

ASSUME NumberingAssumption == Numberings \subseteq [0 .. MaxVersion -> Nat]
ASSUME BoundAssumption == MaxVersion \in Nat /\ MaxFetches \in Nat /\ MaxFaults \in Nat

VARIABLES
    upstream,   \* the version of the value that the provider serves
    numbering,  \* how the provider numbers its versions
    rows,       \* alpha_market_observations, in the order of insertion
    save,       \* per process: the save it is in
    clock, faults,
    overlapped  \* history: two saves have been between read and commit

vars == <<upstream, numbering, rows, save, clock, faults, overlapped>>

Open == 0   \* a valid_to that is NULL; every publication is later

Times == 1 .. MaxFetches
Drafts == [version : 0 .. MaxVersion, revision : Nat, publication : Times]
Rows == [version : 0 .. MaxVersion, revision : Nat, publication : Times,
         valid_to : Times \cup {Open}]

\* `prior` is the row that the read found, 0 when it found none.
Saves == [step : {"idle"}] \cup [step : {"read"}, draft : Drafts]
           \cup [step : {"write"}, draft : Drafts, prior : Nat]
Idle == [step |-> "idle"]

TypeOK ==
    /\ upstream \in 0 .. MaxVersion
    /\ numbering \in Numberings
    /\ rows \in Seq(Rows)
    /\ save \in [Processes -> Saves]
    /\ \A p \in Processes : save[p].step = "write" => save[p].prior \in 0 .. Len(rows)
    /\ clock \in 0 .. MaxFetches
    /\ faults \in Nat
    /\ overlapped \in BOOLEAN

Init ==
    /\ upstream = 0
    /\ numbering \in Numberings
    /\ rows = <<>>
    /\ save = [p \in Processes |-> Idle]
    /\ clock = 0 /\ faults = 0
    /\ overlapped = FALSE

\* The provider corrects its value.
Correct ==
    /\ upstream < MaxVersion
    /\ upstream' = upstream + 1
    /\ UNCHANGED <<numbering, rows, save, clock, faults, overlapped>>

\* A fetch; its publication_time is the time of the fetch.
Fetch(p) ==
    /\ save[p].step = "idle"
    /\ clock < MaxFetches
    /\ clock' = clock + 1
    /\ save' = [save EXCEPT ![p] =
         [step |-> "read",
          draft |-> [version |-> upstream, revision |-> numbering[upstream],
                     publication |-> clock']]]
    /\ UNCHANGED <<upstream, numbering, rows, faults, overlapped>>

\* The current revisions; there should be one at most.
Current == {i \in DOMAIN rows : rows[i].valid_to = Open}

\* Those that ORDER BY revision_number DESC LIMIT 1 may return.
HighestCurrent ==
    {i \in Current : \A j \in Current : rows[j].revision <= rows[i].revision}

\* save_market_observation: the read.
ReadPrior(p) ==
    /\ save[p].step = "read"
    /\ \E i \in IF Current = {} THEN {0} ELSE HighestCurrent :
         save' = [save EXCEPT ![p] =
           [step |-> "write", draft |-> save[p].draft, prior |-> i]]
    /\ overlapped' = (overlapped \/ \E q \in Processes \ {p} : save[q].step = "write")
    /\ UNCHANGED <<upstream, numbering, rows, clock, faults>>

NewRow(d) == [version |-> d.version, revision |-> d.revision,
              publication |-> d.publication, valid_to |-> Open]

\* Mutant: the prior revision stays open.
MutSuperseded(i, d) == Append(rows, NewRow(d))

\* Row i is closed by the draft's publication and the draft is inserted.
Superseded(i, d) ==
    Append(IF i = 0 THEN rows
           ELSE [rows EXCEPT ![i].valid_to = d.publication], NewRow(d))

\* save_market_observation: a revision that is no higher than the one that was
\* read is ignored, another one supersedes it, whatever was committed since.
Commit(p) ==
    /\ save[p].step = "write"
    /\ LET i == save[p].prior
           d == save[p].draft
       IN  rows' = IF i # 0 /\ rows[i].revision >= d.revision THEN rows
                   ELSE Superseded(i, d)
    /\ save' = [save EXCEPT ![p] = Idle]
    /\ UNCHANGED <<upstream, numbering, clock, faults, overlapped>>

\* The save raises or the process dies.
Fail(p) ==
    /\ faults < MaxFaults
    /\ save[p].step # "idle"
    /\ faults' = faults + 1
    /\ save' = [save EXCEPT ![p] = Idle]
    /\ UNCHANGED <<upstream, numbering, rows, clock, overlapped>>

Next ==
    \/ Correct
    \/ \E p \in Processes : Fetch(p) \/ ReadPrior(p) \/ Commit(p) \/ Fail(p)

Spec == Init /\ [][Next]_vars

-----------------------------------------------------------------------------
(* What the code guarantees *)

\* list_market_observations_as_of(as_of = T).
VisibleAt(T) ==
    {i \in DOMAIN rows : /\ rows[i].publication <= T
                         /\ rows[i].valid_to = Open \/ rows[i].valid_to > T}

(***************************************************************************)
(* However saves overlap, arrive out of order or fail, history has no      *)
(* holes: whenever some revision had been published by T, a query as of T  *)
(* returns one (save_market_observation, list_market_observations_as_of).  *)
(***************************************************************************)
NothingForgotten ==
    \A T \in Times : (\E i \in DOMAIN rows : rows[i].publication <= T) => VisibleAt(T) # {}

(***************************************************************************)
(* The highest revision that was ever stored is current, whichever save    *)
(* commits last ("a duplicate or stale write is a no-op").                 *)
(***************************************************************************)
HighestRevisionIsCurrent ==
    \A i \in DOMAIN rows :
      (\A j \in DOMAIN rows : rows[j].revision <= rows[i].revision) => i \in Current

(***************************************************************************)
(* As long as no two saves overlapped, one revision is current at most, so *)
(* a reader gets one value.                                                *)
(***************************************************************************)
OneCurrentUnlessOverlapped ==
    ~overlapped => \A i, j \in Current : i = j

\* However saves of revisions overlap, arrive out of order or fail: no moment is forgotten,
\* the highest revision is current, and alone it is (save_market_observation).
HistoryIsSound == NothingForgotten /\ HighestRevisionIsCurrent /\ OneCurrentUnlessOverlapped

-----------------------------------------------------------------------------
(* What a comment says and the code does not do *)

(***************************************************************************)
(* "Real revision supersession activates automatically once [...] a real   *)
(* provider republishes a corrected historical value"                      *)
(* (_persist_market_observations): a correction that was saved without a   *)
(* fault and without a rival is a current row.                             *)
(***************************************************************************)
CorrectionIsStored ==
    [][\A p \in Processes :
         save[p].step = "write" /\ save'[p] = Idle /\ faults' = faults /\ ~overlapped
         => \E i \in Current' : rows'[i].version >= save[p].draft.version]_vars
=============================================================================
