------------------------------ MODULE ChatTools ------------------------------
(***************************************************************************)
(* What the chat answers. A question is routed to a topic by the fragments *)
(* of text found in it; the topic has a permission, checked by ask before  *)
(* its tool runs, and a tool that reads the memory of the process in one   *)
(* piece. The two topics about an organization's own data are elsewhere    *)
(* (Chat, and the enterprise job of AlphaCycle).                           *)
(*                                                                         *)
(* A question is a record: the fragments in it, and the numbers that the   *)
(* tools look for, {} where there is none. A desk is what a process holds. *)
(*                                                                         *)
(* Source: apps/api/api_app/chat_agent.py.                                 *)
(***************************************************************************)
EXTENDS AlphaStore

Question(fragments, percent, hdd, hours, moment) ==
    [fragments |-> fragments, percent |-> percent, hdd |-> hdd, hours |-> hours,
     moment |-> moment]

\* A fragment is also found inside a longer one.
Inside ==
  [x \in {"agree", "scenario", "consensus", "overnight", "replay", "move", "enterprise",
          "argument", "against"} |->
    CASE x = "agree" -> {"disagree"}
      [] x = "scenario" -> {"compare scenario", "every scenario"}
      [] x = "consensus" -> {"alphaconsensus"}
      [] x = "overnight" -> {"overnight brief"}
      [] x = "replay" -> {"alphareplay"}
      [] x = "move" -> {"today's move"}
      [] x = "enterprise" -> {"enterprise data"}
      [] OTHER -> {"arguments against"}]
Found(q) == q.fragments \cup {x \in DOMAIN Inside : Inside[x] \cap q.fragments # {}}
Says(q, fragment) == fragment \in Found(q)
SaysAny(q, fragments) == fragments \cap Found(q) # {}

-----------------------------------------------------------------------------
(* _route: the first topic of which one alternative is found entirely *)

Each(fragments) == {{x} : x \in fragments}
Both(left, right) == {{x, y} : x \in left, y \in right}

Routes == <<
    <<"what_invalidates", Each({"invalidate"})>>,
    <<"most_disagreeing_agent", Each({"disagree"})>>,
    <<"hdd_sensitivity", Both({"sensitiv"}, {"hdd"})>>,
    <<"weather_run_delta", Each({"ecmwf"}) \cup Both({"weather"}, {"run", "model"})>>,
    <<"scenario_comparison",
      Each({"compare scenario", "every scenario", "stress test", "standing library"})>>,
    <<"run_named_scenario", Each({"scenario", "freeport", "offline"})>>,
    <<"show_evidence", Each({"evidence", "data point", "show every"})>>,
    <<"compare_forecast_vs_consensus", Both({"consensus"}, {"eia", "storage"})>>,
    <<"top_risks", Each({"largest risk", "biggest risk", "risk in the portfolio"})>>,
    <<"why_does_it_matter",
      Each({"why does it matter", "why does that matter", "why is that important",
            "why is this important", "alphaimpact"})>>,
    <<"overnight_brief",
      Each({"overnight brief", "morning brief", "daily brief", "intelligence brief"})>>,
    <<"what_changed_overnight", Each({"overnight", "material change", "alphasignal"})>>,
    <<"agent_consensus",
      Each({"agree", "alphaconsensus", "agent alpha score", "do the agents"})>>,
    <<"decision_memory",
      Each({"what have we learned", "lesson", "past decision", "alphamemory",
            "decision memory"})>>,
    <<"enterprise_trade_idea",
      Both({"trade idea"}, {"enterprise", "our organization", "my organization", "for us",
                            "for our"})>>,
    <<"enterprise_data_query",
      Each({"my data", "our data", "enterprise data", "my position", "our position",
            "my proprietary data"})>>,
    <<"replay_snapshot",
      Each({"time machine", "what did we know", "as of", "alphareplay", "replay"})>>,
    <<"what_changed", Each({"what changed", "last six hours", "recent"})>>,
    <<"todays_move", Each({"caused today", "today's move"}) \cup Both({"why did"}, {"move"})>>,
    <<"why_bias",
      Each({"why are we", "why bullish", "why bearish", "argue", "arguments against"})>>,
    <<"general_status", {{}}>> >>

Fragments == UNION UNION {Routes[i][2] : i \in DOMAIN Routes}

Route(q) ==
    LET fits == {i \in DOMAIN Routes : \E words \in Routes[i][2] : words \subseteq Found(q)}
    IN  Routes[CHOOSE i \in fits : \A j \in fits : i <= j][1]

\* _TOOL_PERMISSIONS
ToolPermission(topic) ==
    CASE topic \in {"why_bias", "what_invalidates", "most_disagreeing_agent", "show_evidence"} ->
            "trading_recommendations.view"
      [] topic \in {"hdd_sensitivity", "weather_run_delta"} -> "weather.view"
      [] topic \in {"run_named_scenario", "top_risks"} -> "portfolio.view"
      [] topic = "compare_forecast_vs_consensus" -> "storage.view"
      [] topic = "what_changed_overnight" -> "alpha_signals.view"
      [] topic = "why_does_it_matter" -> "alpha_impacts.view"
      [] topic = "agent_consensus" -> "alpha_consensus.view"
      [] topic = "scenario_comparison" -> "alpha_scenarios.view"
      [] topic = "decision_memory" -> "alpha_memory.view"
      [] topic = "replay_snapshot" -> "alpha_replay.view"
      [] topic = "overnight_brief" -> "alpha_brief.view"
      [] topic = "enterprise_data_query" -> "enterprise_data.query"
      [] topic = "enterprise_trade_idea" -> "enterprise_trading.generate"
      [] topic \in {"what_changed", "general_status"} -> "dashboard.view"
      [] topic = "todays_move" -> "news.view"

-----------------------------------------------------------------------------
(* The tools: the facts they hand on and the records they cite *)

ToolResult(facts, cites) == [facts |-> facts, cites |-> cites]
Nothing == ToolResult(<<>>, {})
Cite(source, rows) == {<<source, rows[i].id>> : i \in DOMAIN rows}
StrongestFirst(rows, n) == First(Sorted(rows, LAMBDA r, s : r.score > s.score), n)

WhyBias(q, d) ==
    IF d.ideas = <<>> THEN Nothing
    ELSE LET trade == Last(d.ideas)
             verdicts == SelectSeq(d.decisions, LAMBDA v : v.id = trade.id)
         IN  ToolResult(
                IF Says(q, "argument") /\ Says(q, "against")
                THEN <<trade.side, [i \in DOMAIN verdicts |-> verdicts[i].against], trade.risks>>
                ELSE <<trade.side, trade.catalysts, [i \in DOMAIN verdicts |-> verdicts[i].for]>>,
                {<<"trade_idea", trade.id>>})

WhatInvalidates(d) ==
    IF d.ideas = <<>> THEN Nothing
    ELSE ToolResult(<<Last(d.ideas).stop>>, {<<"trade_idea", Last(d.ideas).id>>})

ShowEvidence(d) ==
    IF d.ideas = <<>> THEN Nothing
    ELSE ToolResult(<<Last(d.ideas).evidence>>, {<<"source", x>> : x \in Last(d.ideas).evidence})

MostDisagreeing(d) ==
    IF d.decisions = <<>> THEN Nothing
    ELSE ToolResult(<<Last(d.decisions).against>>, {<<"committee", Last(d.decisions).id>>})

\* Without a number of its own the question is about ten fewer heating degree days.
HddSensitivity(q) == ToolResult(<<OrElse(q.hdd, -10)>>, {<<"constant", "RESCOM_BCF_PER_HDD">>})

\* The last result of an agent's type: _weather_run_delta, _compare_forecast_vs_consensus.
LatestOf(d, type) ==
    LET own == SelectSeq(d.results, LAMBDA r : r.type = type)
    IN  IF own = <<>> THEN Nothing ELSE ToolResult(<<Last(own).says>>, {<<"result", Last(own).id>>})

\* _extract_price_shock_pct: a direction word gives the sign; both mean down.
Down == {"down", "drop", "lower", "collapse", "fall", "decrease", "decline"}
Up == {"up", "spike", "higher", "rally", "rise", "increase"}
PriceShock(q) ==
    {p \in {IF SaysAny(q, Down) THEN -x ELSE x : x \in q.percent} : SaysAny(q, Down \cup Up)}

\* "hurricane" is no scenario of the library, so that its name is refused.
NamedScenario(q) ==
    IF Says(q, "freeport") \/ (Says(q, "lng") /\ Says(q, "offline")) THEN "freeport_lng_outage"
    ELSE IF Says(q, "polar") THEN "polar_vortex"
    ELSE IF Says(q, "hurricane") THEN "hurricane"
    ELSE IF Says(q, "pipeline") THEN "pipeline_disruption"
    ELSE "freeport_lng_outage"

RunNamedScenario(q, d) ==
    LET id == NamedScenario(q)
        moves == PriceShock(q)
        variables == IF moves = {} THEN <<>>
                     ELSE <<Variable("PRICE_SHOCK_PCT", CHOOSE p \in moves : TRUE)>>
        runs == ScenarioRun([name |-> id, bases |-> <<id>>, variables |-> variables], d.book)
    IN  IF runs = {} THEN Nothing ELSE ToolResult(Listed(runs), {<<"scenario", id>>})

ScenarioComparison(d) ==
    LET all == Comparison(StandingRuns(d.book))
    IN  ToolResult(<<all.ranked[1], Last(all.ranked)>>, {<<"scenario", "SCENARIOS">>})

\* portfolio_risk_summary: the equity curve is a constant of the code.
EquityCurve == <<1000, 1005, 998, 1012, 1009>>
Returns == <<50, -70, 140, -30>>
TopRisks(d) ==
    ToolResult(Summary(d.book, Returns, EquityCurve), {<<"summary", "portfolio_risk_summary">>})

WhatChangedOvernight(d) ==
    LET top == StrongestFirst(d.signals, 5)
    IN  IF top = <<>> THEN Nothing ELSE ToolResult(<<top, Len(d.signals)>>, Cite("signal", top))

\* The impact of the strongest signal, else the last impact there is.
WhyDoesItMatter(d) ==
    LET top == StrongestFirst(d.signals, 1)
        own == SelectSeq(d.impacts, LAMBDA a : top # <<>> /\ a.signal = top[1].id)
    IN  IF d.impacts = <<>> THEN Nothing
        ELSE LET said == IF own = <<>> THEN Last(d.impacts) ELSE own[1]
             IN  ToolResult(<<said>>, Cite("impact", <<said>>))

\* _agent_consensus_view and _overnight_brief: the last row.
LastRow(source, rows) ==
    IF rows = <<>> THEN Nothing ELSE ToolResult(<<Last(rows)>>, Cite(source, <<Last(rows)>>))
AgentConsensusView(d) == LastRow("view", d.views)
OvernightBrief(d) == LastRow("brief", d.briefs)

DecisionMemory5(d) ==
    LET top == LastOf(d.memories, 5)
        pending == SelectSeq(d.lessons, LAMBDA l : l.status = "PENDING")
    IN  IF top = <<>> THEN Nothing
        ELSE ToolResult(<<Reverse(top), Len(pending), Len(d.memories)>>, Cite("memory", top))

\* A date that cannot be read, or none, is now.
ReplaySnapshot(q, d) ==
    LET as == AsOf(d.tables, Unscoped, "NG", OrElse(q.moment, d.now), 50)
    IN  ToolResult([t \in DOMAIN as |-> Len(as[t])], {<<"replay", OrElse(q.moment, d.now)>>})

WhatChanged(q, d) ==
    LET recent == SelectSeq(d.results, LAMBDA r : r.at >= d.now - OrElse(q.hours, 6))
    IN  IF recent = <<>> THEN Nothing
        ELSE ToolResult([i \in DOMAIN LastOf(recent, 5) |-> LastOf(recent, 5)[i].says],
                        {<<"log", "recent">>})

TodaysMove(d) ==
    LET top == StrongestFirst(d.news, 3)
    IN  IF top = <<>> THEN Nothing ELSE ToolResult(top, Cite("news", top))

\* Mutant: the status also tells the exposure.
MutGeneralStatus(d) ==
    ToolResult(<<d.curve, Len(d.ideas), d.halted, GrossExposure(d.book)>>,
               {<<"summary", "market">>})

GeneralStatus(d) ==
    ToolResult(<<d.curve, Len(d.ideas), d.halted>>, {<<"summary", "market">>})

\* _dispatch
Answer(q, d) ==
    LET topic == Route(q) IN
    CASE topic = "what_invalidates" -> WhatInvalidates(d)
      [] topic = "most_disagreeing_agent" -> MostDisagreeing(d)
      [] topic = "hdd_sensitivity" -> HddSensitivity(q)
      [] topic = "weather_run_delta" -> LatestOf(d, "WEATHER")
      [] topic = "run_named_scenario" -> RunNamedScenario(q, d)
      [] topic = "show_evidence" -> ShowEvidence(d)
      [] topic = "compare_forecast_vs_consensus" -> LatestOf(d, "STORAGE")
      [] topic = "top_risks" -> TopRisks(d)
      [] topic = "why_does_it_matter" -> WhyDoesItMatter(d)
      [] topic = "what_changed_overnight" -> WhatChangedOvernight(d)
      [] topic = "agent_consensus" -> AgentConsensusView(d)
      [] topic = "scenario_comparison" -> ScenarioComparison(d)
      [] topic = "decision_memory" -> DecisionMemory5(d)
      [] topic = "replay_snapshot" -> ReplaySnapshot(q, d)
      [] topic = "overnight_brief" -> OvernightBrief(d)
      [] topic = "what_changed" -> WhatChanged(q, d)
      [] topic = "todays_move" -> TodaysMove(d)
      [] topic = "why_bias" -> WhyBias(q, d)
      [] topic = "general_status" -> GeneralStatus(d)
      [] OTHER -> Nothing

-----------------------------------------------------------------------------
(* What a permission covers *)

\* The parts of the desk that a permission is about. The comparison of all scenarios runs
\* on the paper book although its permission is not the portfolio's.
CoveredBy(permission) ==
    CASE permission = "trading_recommendations.view" -> {"ideas", "decisions"}
      [] permission \in {"weather.view", "storage.view"} -> {"results"}
      [] permission \in {"portfolio.view", "alpha_scenarios.view"} -> {"book"}
      [] permission = "alpha_signals.view" -> {"signals"}
      [] permission = "alpha_impacts.view" -> {"signals", "impacts"}
      [] permission = "alpha_consensus.view" -> {"views"}
      [] permission = "alpha_memory.view" -> {"memories", "lessons"}
      [] permission = "alpha_replay.view" -> {"tables", "now"}
      [] permission = "alpha_brief.view" -> {"briefs"}
      [] permission = "dashboard.view" -> {"results", "now", "ideas", "curve", "halted"}
      [] permission = "news.view" -> {"news"}
      [] OTHER -> {}
=============================================================================
