------------------------------ MODULE AlphaStore ------------------------------
(***************************************************************************)
(* The tables of the Alpha layer and what is read from them. A table is    *)
(* the sequence of its rows in the order in which they were committed;     *)
(* every row has an id, the organization it belongs to ({} for the         *)
(* platform) and the moment it is stamped with. Of rows with equal stamps  *)
(* the later one is taken to be the newer.                                 *)
(*                                                                         *)
(* Sources: packages/db/db/repository.py, apps/api/api_app/routers/alpha.py*)
(* and apps/api/api_app/entitlements.py.                                   *)
(***************************************************************************)
EXTENDS AlphaChains

(* The caller *)

\* resolve_organization_scope: a caller's organization, if it could be resolved, and
\* whether the caller may see every organization.
Scope(org, unrestricted) == [org |-> org, unrestricted |-> unrestricted]
Unscoped == Scope({}, TRUE)

\* record_is_visible.
IsVisible(row, scope) == scope.unrestricted \/ row.org = {} \/ row.org = scope.org

\* The clauses that each scoped list has: an organization sees its own rows and the
\* platform's; without one, platform_only restricts to the platform's.
InScope(row, scope) ==
    IF scope.org # {} THEN row.org \in {scope.org, {}} ELSE scope.unrestricted \/ row.org = {}

\* A filter that is not given lets everything through.
Given(option, Allows(_)) == \A x \in option : Allows(x)
Between(row, q) ==
    Given(q.since, LAMBDA t : row.at >= t) /\ Given(q.until, LAMBDA t : row.at <= t)
Anything == [market |-> {}, since |-> {}, until |-> {}, limit |-> 50]

Newest(rows, limit) ==
    First(Sorted(Reverse(rows), LAMBDA r, s : r.at > s.at), limit)
WithId(table, id) == {table[i] : i \in {j \in DOMAIN table : table[j].id = id}}

-----------------------------------------------------------------------------
(* What a row of each table is: the columns that are read again. *)

Percent == 0 .. 100
SignalRow(r) ==
    /\ r.key \in Keys /\ r.direction \in Directions
    /\ r.score \in Threshold .. 1000 /\ {r.novelty, r.confidence} \subseteq Percent
    /\ r.previous = {} \/ r.key \in DOMAIN Rise
BaselineRow(b) ==
    /\ Len(b.window) <= WindowSize /\ Len(b.history) <= WindowSize
    /\ b.window # <<>> => Last(b.window) = b.value
ImpactRow(r) ==
    /\ r.direction \in Directions
    /\ r.moves \in {"SUPPLY", "DEMAND", "STORAGE", "NOTHING"}
    /\ r.chain # <<>> /\ Last(r.chain).to = "RISK"
    /\ \A i \in DOMAIN r.chain : r.chain[i].confidence <= 10000 * r.confidence
ForecastRow(r) == r.direction \in Directions /\ r.confidence \in Percent
AgentAlphaScoreRow(score) == score \subseteq Percent
ViewRow(r) ==
    /\ r.total > 0 /\ r.bull + r.bear + r.neutral = r.total
    /\ r.dispersion \in Percent /\ r.agreement \in {"HIGH", "MEDIUM", "LOW"}
    /\ r.leading # <<>> /\ ToSet(r.leading) \cap ToSet(r.dissenting) = {}
ScenarioRunRow(r) == r.result.margin >= 0 /\ r.result.pnl = FoldFunction(+, 0, r.result.strategies)
MemoryRow(r) == r.type = "DECISION_MEMORY" /\ Cardinality(r.quadrant) <= 1
LessonRow(r) ==
    /\ r.status \in {"PENDING", "APPROVED", "REJECTED"}
    /\ r.reviewer = {} <=> r.status = "PENDING"
BriefRow(r) ==
    \A part \in {"signals", "impacts", "views", "runs", "lessons"} : Len(r[part]) <= TopN

-----------------------------------------------------------------------------
(* Signals: strongest first, then newest *)

\* The rows of a table that fit.
RowsWhere(table, Fits(_)) == Only(table, {r \in ToSet(table) : Fits(r)})

Strongest(rows, limit) ==
    First(Sorted(Newest(rows, Len(rows)), LAMBDA r, s : r.score > s.score), limit)
ListSignals(table, scope, q, least) ==
    Strongest(RowsWhere(table, LAMBDA r : /\ InScope(r, scope) /\ Between(r, q)
                                          /\ Given(q.market, LAMBDA m : r.market = m)
                                          /\ r.score >= least), q.limit)

\* Mutant: the limit is applied before the filters.
MutListImpacts(table, scope, q, signal) ==
    RowsWhere(Newest(table, q.limit), LAMBDA r : /\ InScope(r, scope) /\ Between(r, q)
                                                 /\ Given(signal, LAMBDA s : r.signal = s))
ListImpacts(table, scope, q, signal) ==
    Newest(RowsWhere(table, LAMBDA r : /\ InScope(r, scope) /\ Between(r, q)
                                       /\ Given(signal, LAMBDA s : r.signal = s)), q.limit)
LatestImpactOf(table, signal) == First(Newest(RowsWhere(table, LAMBDA r : r.signal = signal),
                                              Len(table)), 1)

ListViews(table, scope, q, type) ==
    Newest(RowsWhere(table, LAMBDA r : /\ InScope(r, scope) /\ Between(r, q)
                                       /\ Given(q.market, LAMBDA m : r.market = m)
                                       /\ Given(type, LAMBDA t : r.target = t)), q.limit)
LatestViewOfMarket(table, market) ==
    First(Newest(RowsWhere(table, LAMBDA r : r.market = market), Len(table)), 1)

ListScenarioRuns(table, scope, q) ==
    Newest(RowsWhere(table, LAMBDA r : InScope(r, scope) /\ Between(r, q)), q.limit)

ListMemories(table, scope, q, type) ==
    Newest(RowsWhere(table, LAMBDA r : /\ InScope(r, scope) /\ Between(r, q)
                                       /\ Given(q.market, LAMBDA m : r.market = m)
                                       /\ Given(type, LAMBDA t : r.type = t)), q.limit)

ListLessons(table, scope, q, status) ==
    Newest(RowsWhere(table, LAMBDA r : /\ InScope(r, scope)
                                       /\ Given(status, LAMBDA s : r.status = s)), q.limit)

ListBriefs(table, scope, q) ==
    Newest(RowsWhere(table, LAMBDA r : /\ InScope(r, scope)
                                       /\ Given(q.market, LAMBDA m : r.market = m)), q.limit)

\* Forecasts and scores have no organization; an agent has one score, the last.
ListForecasts(table, q) ==
    Newest(RowsWhere(table, LAMBDA r : /\ Between(r, q)
                                       /\ Given(q.market, LAMBDA m : r.market = m)), q.limit)
ScoreOf(scores, agent) == scores[agent]

-----------------------------------------------------------------------------
(* The read routes. A list is of the caller's scope; a single row is read by its id *)
(* and refused as not found when it is not the caller's to see.                     *)

GetVisible(table, id, scope) == {r \in WithId(table, id) : IsVisible(r, scope)}
SignalById(tables, id, scope)      == GetVisible(tables.signals, id, scope)
ImpactById(tables, id, scope)      == GetVisible(tables.impacts, id, scope)
ConsensusById(tables, id, scope)   == GetVisible(tables.views, id, scope)
ScenarioRunById(tables, id, scope) == GetVisible(tables.runs, id, scope)
LessonById(tables, id, scope)      == GetVisible(tables.lessons, id, scope)
MemoryById(tables, id, scope)      == GetVisible(tables.memories, id, scope)
BriefById(tables, id, scope)       == GetVisible(tables.briefs, id, scope)
SinceHours(now, hours) == [Anything EXCEPT !.since = {now - hours}]

RouteSignals(table, scope, now, hours, least) ==
    ListSignals(table, scope, SinceHours(now, hours), least)
RouteImpacts(table, scope, now, hours, signal) ==
    ListImpacts(table, scope, SinceHours(now, hours), signal)
RouteConsensus(table, scope, now, hours, type) ==
    ListViews(table, scope, SinceHours(now, hours), type)
RouteConsensusOfMarket(table, scope, market) ==
    SelectSeq(LatestViewOfMarket(table, market), LAMBDA r : IsVisible(r, scope))
RouteScenarioRuns(table, scope, now, hours) ==
    ListScenarioRuns(table, scope, SinceHours(now, hours))
RouteMemories(table, scope, now, hours, type) ==
    ListMemories(table, scope, SinceHours(now, hours), type)
RouteLessons(table, scope, status) == ListLessons(table, scope, Anything, status)
RouteLatestBrief(table, scope, market) ==
    ListBriefs(table, scope, [Anything EXCEPT !.market = market, !.limit = 1])
RouteBriefs(table, scope, market) ==
    ListBriefs(table, scope, [Anything EXCEPT !.market = market, !.limit = 20])

-----------------------------------------------------------------------------
(* AlphaReplay *)

\* assemble: the answer is the rows of the queries, as they are.
Assembled(signals, impacts, views, runs, memories) ==
    [signals |-> signals, impacts |-> impacts, views |-> views, runs |-> runs,
     memories |-> memories]

\* compute_as_of_replay: every table as it answers for the moment `moment`. The tables
\* are those of the process; `limit` is the 50 of each query.
AsOf(tables, scope, market, moment, limit) ==
    LET q == [market |-> {market}, since |-> {}, until |-> {moment}, limit |-> limit]
    IN  Assembled(ListSignals(tables.signals, scope, q, 0),
                  ListImpacts(tables.impacts, scope, q, {}),
                  ListViews(tables.views, scope, q, {}), ListScenarioRuns(tables.runs, scope, q),
                  ListMemories(tables.memories, scope, q, {}))

\* Mutant: the impacts are read before the signals.
MutBriefOrder == <<"impacts", "signals", "views", "runs", "lessons">>

\* generate_intelligence_brief: its queries one after the other, and what each returns.
BriefOrder == <<"signals", "impacts", "views", "runs", "lessons">>
BriefQuery(table, rows, scope, market, start, limit) ==
    LET q == [market |-> {market}, since |-> {start}, until |-> {}, limit |-> limit]
    IN  CASE table = "signals" -> ListSignals(rows, scope, q, 0)
          [] table = "impacts" -> ListImpacts(rows, scope, q, {})
          [] table = "views"   -> ListViews(rows, scope, q, {})
          [] table = "runs"    -> ListScenarioRuns(rows, scope, q)
          [] table = "lessons" -> ListLessons(rows, scope, q, {"PENDING"})
=============================================================================
