------------------------------ MODULE AlphaCycle ------------------------------
(***************************************************************************)
(* The Alpha layer at work. A job is a coroutine of one process: a boot    *)
(* research cycle, a cycle on demand (plain, or for an organization), a    *)
(* scenario run, the comparison of the whole library, the memory of a      *)
(* closed trade, the review of a lesson. Jobs interleave at their awaits;  *)
(* the tables are shared, the `recent` lists and the agents' log are those *)
(* of the process.                                                         *)
(*                                                                         *)
(* A row gets its stamp when it is built, and is committed in a later step.*)
(*                                                                         *)
(* Sources: apps/api/api_app/state.py, packages/db/db/repository.py and    *)
(* apps/api/api_app/routers/alpha.py.                                      *)
(***************************************************************************)
EXTENDS AlphaStore

CONSTANTS
    Jobs, Kind, ProcessOf,  \* the jobs, the kind and the process of each
    Market, Org,            \* the front-month contract; the enterprise's organization
    Sights,                 \* what a research cycle may see
    Definitions, Books,     \* scenario definitions and paper books
    Closed,                 \* closed trades with their quadrants
    CacheLimit, ListLimit,  \* 50 in the code
    BriefHours,             \* period_hours
    MaxClock, MaxFaults     \* bounds of the model

Kinds == {"BOOT", "DEMAND", "ENTERPRISE", "SCENARIO", "COMPARE", "MEMORY", "REVIEW"}
Research == {"BOOT", "DEMAND", "ENTERPRISE"}

ASSUME AlphaCycleAssumption ==
    /\ Kind \in [Jobs -> Kinds]
    /\ CacheLimit \in Nat \ {0} /\ ListLimit \in Nat \ {0}
    /\ MaxClock \in Nat /\ MaxFaults \in Nat

VARIABLES
    clock,
    baselines,  \* key -> its snapshot, if it has one
    tables,     \* signals, impacts, views, runs, memories, lessons, briefs, forecasts
    scores,     \* agent -> its last alpha score
    recent,     \* process -> its lists of signals, impacts, views, runs, memories, lessons
    log,        \* process -> agent -> the confidences of its results
    job,        \* job -> where it is and what it holds
    submitted,  \* trade ideas as they are handed to the committee
    history,    \* the sights in the order in which their baselines were committed
    overlapped, \* a cycle read baselines that another one then replaced
    faults

vars == <<clock, baselines, tables, scores, recent, log, job, submitted, history, overlapped,
          faults>>

Processes == {ProcessOf[j] : j \in Jobs}
Agents == {"SUPPLY", "DEMAND", "STORAGE", "WEATHER", "FORECASTING", "RELATIVE_VALUE"}
Pcs == {"idle", "baselines", "detected", "signal", "impact", "quant", "view", "submit",
        "brief", "query", "compose", "run", "memory", "lesson", "reviewed", "done", "failed"}

\* What a job holds: the sight of its cycle, the baselines that it read, the rows that it
\* has built and not yet committed.
NoSight == [readings |-> [k \in DOMAIN Rise |-> {}], usage |-> [k \in {} |-> 0], split |-> {},
            leaning |-> 0, street |-> {}, outlook |-> {}, quant |-> {}, relative |-> {},
            idea |-> {}]
Idle == [pc |-> "idle", sight |-> NoSight, base |-> [k \in Keys |-> {}], held |-> <<>>]

NoRows == [signals |-> <<>>, impacts |-> <<>>, views |-> <<>>, runs |-> <<>>,
           memories |-> <<>>, lessons |-> <<>>, briefs |-> <<>>, forecasts |-> <<>>]

Init ==
    /\ clock = 0
    /\ baselines = [k \in Keys |-> {}]
    /\ tables = NoRows
    /\ scores = [a \in Agents |-> {}]
    /\ recent = [p \in Processes |-> NoRows]
    /\ log = [p \in Processes |-> [a \in Agents |-> <<>>]]
    /\ job = [j \in Jobs |-> Idle]
    /\ submitted = <<>>
    /\ history = <<>>
    /\ overlapped = FALSE
    /\ faults = 0

\* A row as it is built now: the platform's, for a start.
Stamp(id, row) ==
    [column \in DOMAIN row \cup {"id", "org", "market", "at"} |->
       CASE column = "id" -> id [] column = "org" -> {} [] column = "market" -> Market
         [] column = "at" -> clock [] OTHER -> row[column]]

At(j, pc) == job[j].pc = pc
Goto(j, pc) == job' = [job EXCEPT ![j].pc = pc]
Holding(j, pc, rows) == job' = [job EXCEPT ![j].pc = pc, ![j].held = rows]

\* The writes of the repository: one transaction each. The baselines and the scores are
\* merged by their key, all else is appended.
MergeBaselines(snapshots) == baselines' = snapshots @@ baselines
MergeScores(new) == scores' = new @@ scores
InsertSignal(row)    == tables' = [tables EXCEPT !.signals = Append(@, row)]
InsertImpact(row)    == tables' = [tables EXCEPT !.impacts = Append(@, row)]
InsertForecasts(rows) == tables' = [tables EXCEPT !.forecasts = @ \o rows]
InsertView(row)      == tables' = [tables EXCEPT !.views = Append(@, row)]
InsertRun(row)       == tables' = [tables EXCEPT !.runs = Append(@, row)]
InsertMemory(row)    == tables' = [tables EXCEPT !.memories = Append(@, row)]
InsertLesson(row)    == tables' = [tables EXCEPT !.lessons = Append(@, row)]
InsertBrief(row)     == tables' = [tables EXCEPT !.briefs = Append(@, row)]
Reviewed(rows, lesson) ==
    [i \in DOMAIN rows |-> IF rows[i].id = lesson.id THEN lesson ELSE rows[i]]
UpdateLesson(lesson) == tables' = [tables EXCEPT !.lessons = Reviewed(@, lesson)]

\* A row is shown in the process's own list.
Show(j, table, row) ==
    recent' = [recent EXCEPT ![ProcessOf[j]][table] = LastOf(Append(@, row), CacheLimit)]

-----------------------------------------------------------------------------
(* A research cycle *)

\* The agents have answered: their results go to the log. A cycle on demand runs neither
\* the LNG, power and pipeline agents nor the quantitative ones.
BootOnly == {"LNG", "POWER_MARKET", "PIPELINE"}
Seen(j, sight) ==
    IF Kind[j] = "BOOT" THEN sight
    ELSE [sight EXCEPT !.readings = [k \in DOMAIN Rise |-> IF k \in BootOnly THEN {} ELSE @[k]],
                       !.quant = {}, !.relative = {}]
Logged(entries, readings) ==
    [a \in Agents |->
       IF a \notin DOMAIN Rise \/ readings[a] = {} THEN entries[a]
       ELSE LastOf(Append(entries[a], (CHOOSE x \in readings[a] : TRUE).confidence), 20)]

\* A process boots once; its other jobs come after that.
Booted(p) == \A j \in Jobs : Kind[j] = "BOOT" /\ ProcessOf[j] = p => At(j, "done")

StartResearch(j) ==
    /\ At(j, "idle") /\ Kind[j] \in Research
    /\ Kind[j] # "BOOT" => Booted(ProcessOf[j])
    /\ \E sight \in Sights :
         /\ job' = [job EXCEPT ![j].pc = "baselines", ![j].sight = Seen(j, sight)]
         /\ log' = [log EXCEPT ![ProcessOf[j]] = Logged(@, sight.readings)]
    /\ UNCHANGED <<clock, baselines, tables, scores, recent, submitted, history, overlapped,
                   faults>>

\* get_signal_baselines, and detect on what it returned.
ReadBaselines(j) ==
    /\ At(j, "baselines")
    /\ LET found == DetectedSignals(baselines, job[j].sight)
       IN  job' = [job EXCEPT ![j].pc = "detected", ![j].base = baselines,
                              ![j].held = [i \in DOMAIN found |->
                                             Stamp(<<j, i>>, found[i])]]
    /\ UNCHANGED <<clock, baselines, tables, scores, recent, log, submitted, history,
                   overlapped, faults>>

\* Where a cycle goes with no signal left to save.
AfterSignals(j) == IF Kind[j] = "BOOT" THEN "quant" ELSE "submit"

\* Mutant: a key that has a baseline keeps it.
MutSaveBaselines(j) ==
    /\ At(j, "detected")
    /\ MergeBaselines([k \in {x \in Keys : baselines[x] = {}} |->
                         DetectedBaselines(job[j].base, job[j].sight)[k]])
    /\ history' = Append(history, job[j].sight)
    /\ overlapped' = (overlapped \/ baselines # job[j].base)
    /\ Goto(j, IF job[j].held = <<>> THEN AfterSignals(j) ELSE "signal")
    /\ UNCHANGED <<clock, tables, scores, recent, log, submitted, faults>>

\* save_signal_baselines writes every key, before any signal is saved.
SaveBaselines(j) ==
    /\ At(j, "detected")
    /\ MergeBaselines(DetectedBaselines(job[j].base, job[j].sight))
    /\ history' = Append(history, job[j].sight)
    /\ overlapped' = (overlapped \/ baselines # job[j].base)
    /\ Goto(j, IF job[j].held = <<>> THEN AfterSignals(j) ELSE "signal")
    /\ UNCHANGED <<clock, tables, scores, recent, log, submitted, faults>>

\* Mutant: only the last signal of a cycle is analysed.
MutSaveSignal(j) ==
    /\ At(j, "signal")
    /\ LET signal == Head(job[j].held)
           last == Len(job[j].held) = 1
       IN  /\ InsertSignal(signal)
           /\ recent' = [recent EXCEPT ![ProcessOf[j]].signals = Append(@, signal)]
           /\ IF last THEN Holding(j, "impact", <<Stamp(signal.id, Analysis(signal))>>)
              ELSE Holding(j, "signal", Tail(job[j].held))
    /\ UNCHANGED <<clock, baselines, scores, log, submitted, history, overlapped, faults>>

\* The impact of a signal is built as soon as the signal is saved. The lists are cut
\* only after the last one.
SaveSignal(j) ==
    /\ At(j, "signal")
    /\ LET signal == Head(job[j].held)
       IN  /\ InsertSignal(signal)
           /\ recent' = [recent EXCEPT ![ProcessOf[j]].signals = Append(@, signal)]
           /\ Holding(j, "impact", <<Stamp(signal.id, Analysis(signal))>> \o Tail(job[j].held))
    /\ UNCHANGED <<clock, baselines, scores, log, submitted, history, overlapped, faults>>

SaveImpact(j) ==
    LET impact == Head(job[j].held)
        last == Len(job[j].held) = 1
        Cut(rows) == IF last THEN LastOf(rows, CacheLimit) ELSE rows
    IN  /\ At(j, "impact")
        /\ InsertImpact(impact)
        /\ recent' = [recent EXCEPT ![ProcessOf[j]].signals = Cut(@),
                                    ![ProcessOf[j]].impacts = Cut(Append(@, impact))]
        /\ Holding(j, IF last THEN AfterSignals(j) ELSE "signal", Tail(job[j].held))
        /\ UNCHANGED <<clock, baselines, scores, log, submitted, history, overlapped, faults>>

\* _run_quant_research and _run_alpha_consensus: the forecasts and the scores of their
\* agents are saved, the views are built. Enough price history is taken for granted.
ScoreNow(p, sight, a) ==
    {AlphaScore(a, log'[p][a], 100, IF sight.quant = {} THEN <<>>
                                    ELSE (CHOOSE f \in sight.quant : TRUE).models)}
RunQuant(j) ==
    /\ At(j, "quant")
    /\ LET sight == job[j].sight
           p == ProcessOf[j]
           forecasts == Extracted(sight.readings, sight.street, sight.outlook, sight.quant,
                                  sight.relative)
           storage == SelectSeq(forecasts, LAMBDA f : f.target = "STORAGE_BCF")
           contributing == {forecasts[i].agent : i \in DOMAIN forecasts}
           view(fs, target) == {Stamp(<<j, target>>, v) : v \in Consensus(fs, scores', target)}
           views == Listed(view(forecasts, "PRICE")) \o Listed(view(storage, "STORAGE_BCF"))
       IN  /\ log' = [log EXCEPT ![p].FORECASTING =
                        IF sight.quant = {} THEN @
                        ELSE Append(@, (CHOOSE f \in sight.quant : TRUE).confidence)]
           /\ InsertForecasts([i \in DOMAIN forecasts |-> Stamp(<<j, i>>, forecasts[i])])
           /\ MergeScores([a \in contributing |-> ScoreNow(p, sight, a)])
           /\ Holding(j, IF views = <<>> THEN "submit" ELSE "view", views)
    /\ UNCHANGED <<clock, baselines, recent, submitted, history, overlapped, faults>>

\* _persist_consensus_view.
PersistView(j) ==
    /\ At(j, "view")
    /\ InsertView(Head(job[j].held))
    /\ Show(j, "views", Head(job[j].held))
    /\ Holding(j, IF Len(job[j].held) = 1 THEN "submit" ELSE "view", Tail(job[j].held))
    /\ UNCHANGED <<clock, baselines, scores, log, submitted, history, overlapped, faults>>

\* _corroborate_trade_with_alpha_intelligence: against the process's recent signals and
\* its last view of the market's direction.
LastView(views) ==
    {views[i] : i \in {k \in DOMAIN views :
                         /\ views[k].target = "PRICE"
                         /\ \A n \in k + 1 .. Len(views) : views[n].target # "PRICE"}}
Cited(p, side) == Corroboration(side, recent[p].signals, LastView(recent[p].views))
Submit(j) ==
    /\ At(j, "submit")
    /\ submitted' = submitted \o
         Listed({[job |-> j, side |-> side, says |-> Cited(ProcessOf[j], side),
                    org |-> IF Kind[j] = "ENTERPRISE" THEN {Org} ELSE {}] :
                     side \in job[j].sight.idea})
    /\ Goto(j, IF Kind[j] = "BOOT" THEN "brief" ELSE "done")
    /\ UNCHANGED <<clock, baselines, tables, scores, recent, log, history, overlapped, faults>>

\* generate_intelligence_brief: its period is fixed, then come five queries, each of
\* which sees the tables of its own moment; the brief made of them is saved and shown.
BeginBrief(j) ==
    /\ At(j, "brief")
    /\ Holding(j, "query", <<[at |-> clock, start |-> clock - BriefHours,
                             found |-> [t \in {} |-> <<>>]]>>)
    /\ UNCHANGED <<clock, baselines, tables, scores, recent, log, submitted, history,
                   overlapped, faults>>
ReadForBrief(j) ==
    /\ At(j, "query")
    /\ LET draft == Head(job[j].held)
           table == BriefOrder[Cardinality(DOMAIN draft.found) + 1]
           found == (table :> BriefQuery(table, tables[table], Unscoped, Market,
                                         draft.start, ListLimit)) @@ draft.found
       IN  IF Cardinality(DOMAIN found) < Len(BriefOrder)
           THEN Holding(j, "query", <<[draft EXCEPT !.found = found]>>)
           ELSE Holding(j, "compose",
                        <<Stamp(j, Brief(found.signals, found.impacts, found.views,
                                         found.runs, found.lessons))>>)
    /\ UNCHANGED <<clock, baselines, tables, scores, recent, log, submitted, history,
                   overlapped, faults>>
SaveBrief(j) ==
    /\ At(j, "compose")
    /\ InsertBrief(Head(job[j].held))
    /\ Show(j, "briefs", Head(job[j].held))
    /\ Holding(j, "done", <<>>)
    /\ UNCHANGED <<clock, baselines, scores, log, submitted, history, overlapped, faults>>

-----------------------------------------------------------------------------
(* Scenarios *)

\* A run belongs to the organization of the user who asked for it, if there is one. A
\* definition with an unknown base is refused; nothing is saved.
StartScenario(j) ==
    /\ At(j, "idle") /\ Kind[j] = "SCENARIO" /\ Booted(ProcessOf[j])
    /\ \E definition \in Definitions, book \in Books, org \in {{}, {Org}} :
         LET runs == {[Stamp(<<j, 0>>, r) EXCEPT !.org = org] : r \in ScenarioRun(definition, book)}
         IN  Holding(j, IF runs = {} THEN "done" ELSE "run", Listed(runs))
    /\ UNCHANGED <<clock, baselines, tables, scores, recent, log, submitted, history,
                   overlapped, faults>>

StartComparison(j) ==
    /\ At(j, "idle") /\ Kind[j] = "COMPARE" /\ Booted(ProcessOf[j])
    /\ \E book \in Books, org \in {{}, {Org}} :
         LET runs == StandingRuns(book)
         IN  Holding(j, "run", [i \in DOMAIN runs |->
                                  [Stamp(<<j, i>>, runs[i]) EXCEPT !.org = org]])
    /\ UNCHANGED <<clock, baselines, tables, scores, recent, log, submitted, history,
                   overlapped, faults>>

\* A single run is shown when it is saved; those of a comparison all at the end.
SaveRun(j) ==
    LET saved == Append(tables.runs, Head(job[j].held))
        own == SelectSeq(saved, LAMBDA r : r.id[1] = j)
        last == Len(job[j].held) = 1
    IN  /\ At(j, "run")
        /\ InsertRun(Head(job[j].held))
        /\ recent' = [recent EXCEPT ![ProcessOf[j]].runs =
                        IF last THEN LastOf(@ \o own, CacheLimit) ELSE @]
        /\ Holding(j, IF last THEN "done" ELSE "run", Tail(job[j].held))
        /\ UNCHANGED <<clock, baselines, scores, log, submitted, history, overlapped, faults>>

-----------------------------------------------------------------------------
(* Memory *)

\* close_trade has its post-trade analysis: _build_decision_memory.
StartMemory(j) ==
    /\ At(j, "idle") /\ Kind[j] = "MEMORY" /\ Booted(ProcessOf[j])
    /\ \E trade \in Closed :
         Holding(j, "memory", <<Stamp(j, DecisionMemory(trade.trade, trade.quadrant))>>)
    /\ UNCHANGED <<clock, baselines, tables, scores, recent, log, submitted, history,
                   overlapped, faults>>
SaveMemory(j) ==
    /\ At(j, "memory")
    /\ InsertMemory(Head(job[j].held))
    /\ Show(j, "memories", Head(job[j].held))
    /\ LET lessons == {Stamp(j, l) : l \in LessonFor(Head(job[j].held))}
       IN  Holding(j, IF lessons = {} THEN "done" ELSE "lesson", Listed(lessons))
    /\ UNCHANGED <<clock, baselines, scores, log, submitted, history, overlapped, faults>>
SaveLesson(j) ==
    /\ At(j, "lesson")
    /\ InsertLesson(Head(job[j].held))
    /\ Show(j, "lessons", Head(job[j].held))
    /\ Holding(j, "done", <<>>)
    /\ UNCHANGED <<clock, baselines, scores, log, submitted, history, overlapped, faults>>

\* Mutant: the reviewer is not recorded.
MutReviewLesson(j) ==
    /\ At(j, "idle") /\ Kind[j] = "REVIEW" /\ Booted(ProcessOf[j])
    /\ \E i \in DOMAIN tables.lessons, status \in {"APPROVED", "REJECTED"} :
         LET lesson == [tables.lessons[i] EXCEPT !.status = status]
         IN  /\ UpdateLesson(lesson)
             /\ Holding(j, "reviewed", <<lesson>>)
    /\ UNCHANGED <<clock, baselines, scores, recent, log, submitted, history, overlapped,
                   faults>>
\* review_lesson_proposal: the row is updated, then the process's copy of it, if it has
\* one. A reviewed lesson may be reviewed again.
ReviewLesson(j) ==
    /\ At(j, "idle") /\ Kind[j] = "REVIEW" /\ Booted(ProcessOf[j])
    /\ \E i \in DOMAIN tables.lessons, status \in {"APPROVED", "REJECTED"} :
         LET lesson == [tables.lessons[i] EXCEPT !.status = status, !.reviewer = {j}]
         IN  /\ UpdateLesson(lesson)
             /\ Holding(j, "reviewed", <<lesson>>)
    /\ UNCHANGED <<clock, baselines, scores, recent, log, submitted, history, overlapped,
                   faults>>
ShowReview(j) ==
    /\ At(j, "reviewed")
    /\ recent' = [recent EXCEPT ![ProcessOf[j]].lessons = Reviewed(@, Head(job[j].held))]
    /\ Holding(j, "done", <<>>)
    /\ UNCHANGED <<clock, baselines, tables, scores, log, submitted, history, overlapped,
                   faults>>

-----------------------------------------------------------------------------
Running(j) == job[j].pc \notin {"idle", "done", "failed"}

\* A call of the repository raises: the job ends, what it has committed stays.
Fail(j) ==
    /\ Running(j) /\ faults < MaxFaults
    /\ Goto(j, "failed")
    /\ faults' = faults + 1
    /\ UNCHANGED <<clock, baselines, tables, scores, recent, log, submitted, history, overlapped>>

Tick ==
    /\ clock < MaxClock
    /\ clock' = clock + 1
    /\ UNCHANGED <<baselines, tables, scores, recent, log, job, submitted, history, overlapped,
                   faults>>

JobStep(j) ==
    \/ StartResearch(j) \/ ReadBaselines(j) \/ SaveBaselines(j)
    \/ SaveSignal(j) \/ SaveImpact(j) \/ RunQuant(j) \/ PersistView(j)
    \/ Submit(j) \/ BeginBrief(j) \/ ReadForBrief(j) \/ SaveBrief(j)
    \/ StartScenario(j) \/ StartComparison(j) \/ SaveRun(j)
    \/ StartMemory(j) \/ SaveMemory(j) \/ SaveLesson(j)
    \/ ReviewLesson(j) \/ ShowReview(j)
    \/ Fail(j)

Next == Tick \/ \E j \in Jobs : JobStep(j)
Spec == Init /\ [][Next]_vars

-----------------------------------------------------------------------------
(* Properties *)

AllIdle == \A j \in Jobs : ~Running(j)

\* The type invariant: where the jobs are, what the rows of the tables are, and how long
\* the lists may get. A lesson has a reviewer exactly when it has been reviewed.
AlphaTypeOK ==
    /\ clock \in 0 .. MaxClock /\ faults \in 0 .. MaxFaults
    /\ \A j \in Jobs : job[j].pc \in Pcs
    /\ \A k \in Keys : \A b \in baselines[k] : BaselineRow(b)
    /\ \A a \in Agents : AgentAlphaScoreRow(scores[a])
    /\ \A i \in DOMAIN tables.signals : SignalRow(tables.signals[i])
    /\ \A i \in DOMAIN tables.impacts : ImpactRow(tables.impacts[i])
    /\ \A i \in DOMAIN tables.forecasts : ForecastRow(tables.forecasts[i])
    /\ \A i \in DOMAIN tables.views : ViewRow(tables.views[i])
    /\ \A i \in DOMAIN tables.runs : ScenarioRunRow(tables.runs[i])
    /\ \A i \in DOMAIN tables.memories : MemoryRow(tables.memories[i])
    /\ \A i \in DOMAIN tables.lessons : LessonRow(tables.lessons[i])
    /\ \A i \in DOMAIN tables.briefs : BriefRow(tables.briefs[i])
    /\ \A p \in Processes, t \in {"views", "runs", "memories", "lessons", "briefs"} :
         Len(recent[p][t]) <= CacheLimit

\* The readings of a key, in the order of the cycles that had one.
ReadingsOf(k) ==
    LET having == SelectSeq(history, LAMBDA s : s.readings[k] # {})
    IN  [i \in DOMAIN having |-> CHOOSE x \in having[i].readings[k] : TRUE]

\* What should have been reported of a metric: each reading that is material against the
\* one before it and the window of those up to it.
MaterialAt(xs, i) ==
    LET before == LastOf(SubSeq(xs, 1, i - 1), WindowSize)
    IN  /\ i > 1
        /\ Materiality(Snapshot(xs[i - 1].value, [n \in DOMAIN before |-> before[n].value],
                                <<>>), xs[i]) >= Threshold
Reported(k) ==
    LET rows == SelectSeq(tables.signals, LAMBDA r : r.key = k)
    IN  [i \in DOMAIN rows |-> <<rows[i].previous, rows[i].current>>]
Expected(k) ==
    LET xs == ReadingsOf(k)
        material == SelectSeq([i \in DOMAIN xs |-> i], LAMBDA i : MaterialAt(xs, i))
    IN  [n \in DOMAIN material |-> <<{xs[material[n] - 1].value}, xs[material[n]].value>>]

\* Every material change between two cycles that followed each other is reported, once:
\* when no two cycles overlapped and none broke off (the baselines are
\* replaced before the signals are saved, so a cycle that breaks off has swallowed its
\* changes; _run_alpha_signal_detection).
MaterialChangesAreReported ==
    AllIdle /\ ~overlapped /\ faults = 0 =>
        \A k \in DOMAIN Rise : ToBag(Reported(k)) = ToBag(Expected(k))

\* A stored signal has exactly one impact analysis, and no analysis is without its
\* signal, whatever the interleaving: but for the signal whose job is just between the
\* two, or has failed there (_run_alpha_signal_detection).
AwaitsImpact(id) == \E j \in Jobs : job[j].pc \in {"impact", "failed"} /\ id[1] = j
EverySignalIsExplained ==
    /\ \A i \in DOMAIN tables.signals :
         LET own == {n \in DOMAIN tables.impacts :
                       tables.impacts[n].signal = tables.signals[i].id}
         IN  Cardinality(own) = 1 \/ (own = {} /\ AwaitsImpact(tables.signals[i].id))
    /\ \A n \in DOMAIN tables.impacts :
         \E i \in DOMAIN tables.signals : tables.signals[i].id = tables.impacts[n].signal

\* Nothing from after a moment leaks into the replay of that moment: the answer for a
\* past moment never changes, unless a row with a stamp of that moment was still on its
\* way (compute_as_of_replay). A brief is no such row: no replay reads it.
OnItsWay(moment) ==
    \E j \in Jobs :
      /\ Running(j) /\ ~At(j, "query") /\ ~At(j, "compose")
      /\ \E i \in DOMAIN job[j].held : job[j].held[i].at <= moment
ReplayIsStable ==
    [][\A moment \in 0 .. MaxClock :
         moment < clock /\ ~OnItsWay(moment) =>
           AsOf(tables', Unscoped, Market, moment, ListLimit)
             = AsOf(tables, Unscoped, Market, moment, ListLimit)]_vars

\* A brief has the impact of each signal that it reports, although other cycles save
\* signals and impacts between its queries: whatever signals one query returned, the
\* other has their impacts, but for one that is not saved by then, if there are no more
\* impacts than a query returns; and the brief has those of its signals
\* (generate_intelligence_brief, compose).
Explains(impacts, id) == \E n \in DOMAIN impacts : impacts[n].signal = id
BothRead(draft) == {"signals", "impacts"} \subseteq DOMAIN draft.found
BriefExplainsItsSignals ==
    \A j \in Jobs : ReadForBrief(j) =>
      LET draft == Head(job[j].held)
          next == Head(job'[j].held)
      IN  IF job'[j].pc = "query"
          THEN BothRead(next) /\ ~BothRead(draft) /\ Len(tables.impacts) <= ListLimit =>
                 \A i \in DOMAIN next.found.signals :
                   LET id == next.found.signals[i].id
                   IN  AwaitsImpact(id) \/ Explains(next.found.impacts, id)
          ELSE \A i \in DOMAIN next.signals :
                 Explains(draft.found.impacts, next.signals[i].id) =>
                   Explains(next.impacts, next.signals[i].id)

\* A trade idea is annotated with every leaning signal of its own cycle: for it if they
\* agree, against it if not; unless later signals have pushed them out of the list
\* (_corroborate_trade_with_alpha_intelligence).
Own(j) == SelectSeq(tables.signals, LAMBDA r : r.id[1] = j /\ r.direction # "NEUTRAL")
Since(j) ==
    LET mine == {i \in DOMAIN tables.signals : tables.signals[i].id[1] = j}
    IN  Cardinality({i \in DOMAIN tables.signals :
                       /\ ProcessOf[tables.signals[i].id[1]] = ProcessOf[j]
                       /\ \E n \in mine : n <= i})
OwnSignalsAreCited ==
    \A j \in Jobs :
        At(j, "submit") /\ job'[j].pc \in {"brief", "done"} /\ Since(j) <= CacheLimit =>
          \A n \in Len(submitted) + 1 .. Len(submitted') :
            LET says == submitted'[n].says
            IN  \A i \in DOMAIN Own(j) :
                  Own(j)[i] \in {says.catalysts[x] : x \in DOMAIN says.catalysts}
                                  \cup {says.risks[x] : x \in DOMAIN says.risks}

\* A cycle's reports leave nothing out: its brief (generate_intelligence_brief) and its trade
\* idea (_corroborate_trade_with_alpha_intelligence), as the two formulas above say.
ReportsAreComplete == [][BriefExplainsItsSignals /\ OwnSignalsAreCited]_vars

\* What chat_agent.py says of the process's lists: recent impacts are there one to one
\* beside recent signals. Two cycles of one process save their signals and their
\* impacts in different orders, and the lists are then cut to different rows.
ImpactsFollowSignals ==
    AllIdle /\ faults = 0 =>
        \A p \in Processes :
          {recent[p].impacts[i].signal : i \in DOMAIN recent[p].impacts}
            = {recent[p].signals[i].id : i \in DOMAIN recent[p].signals}
=============================================================================
