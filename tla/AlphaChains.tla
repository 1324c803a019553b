----------------------------- MODULE AlphaChains -----------------------------
(***************************************************************************)
(* What follows from a signal, a scenario or a closed trade: the causal    *)
(* chain of an impact analysis, the stress of the paper book and its       *)
(* ranking, the post-trade verdict with the lesson drawn from it, and the  *)
(* brief that puts them together.                                          *)
(*                                                                         *)
(* Prices and returns are whole cents. Shocks are percent, a volatility    *)
(* multiplier is in hundredths, accuracies are in thousandths.             *)
(*                                                                         *)
(* Sources: services/alpha/alpha_service/impact_engine.py,                 *)
(* scenario_engine.py, memory_builder.py, brief_engine.py,                 *)
(* services/risk/risk_service/scenarios.py, metrics.py and                 *)
(* services/paper-execution/paper_execution_service/post_trade.py.         *)
(***************************************************************************)
EXTENDS AlphaViews

SumOver(items, value(_)) == Total([i \in DOMAIN items |-> value(items[i])])
Sorted(items, precedes(_, _)) ==
    LET order == SortSeq([i \in DOMAIN items |-> i],
                         LAMBDA i, j : \/ precedes(items[i], items[j])
                                       \/ ~precedes(items[j], items[i]) /\ i < j)
    IN  [i \in DOMAIN items |-> items[order[i]]]
First(items, n) == SubSeq(items, 1, Least(n, Len(items)))

-----------------------------------------------------------------------------
(* impact_engine.py *)

Fundamentals == {"STORAGE", "WEATHER", "SUPPLY", "DEMAND", "LNG", "POWER_MARKET", "PIPELINE"}

\* _SKELETON_BY_SIGNAL_TYPE, by the detector key of the signal.
Skeleton(key) ==
    LET tail == <<"PORTFOLIO", "RISK">>
        trade == <<"STRATEGY">> \o tail
    IN  CASE key \in Fundamentals ->
               <<"PHYSICAL", "SUPPLY_DEMAND", "STORAGE", "REGIONAL", "PRICE_CURVE">> \o trade
          [] key = "MARKET" -> <<"PRICE_CURVE">> \o trade
          [] key = "AGENT_DISAGREEMENT" -> trade
          [] OTHER -> tail

\* _STAGE_DECAY_FACTOR ** i, in ten-thousandths.
Decay == <<10000, 9200, 8464, 7787, 7164, 6591, 6064, 5578>>

\* _build_chain: each stage follows from the one before it, the first from the
\* signal, less confident with each.
Chain(signal) ==
    LET stages == Skeleton(signal.key)
    IN  [i \in DOMAIN stages |->
           [from |-> IF i = 1 THEN signal.key ELSE stages[i - 1], to |-> stages[i],
            confidence |-> signal.confidence * Decay[i], magnitude |-> signal.score * Decay[i]]]

\* analyze: which balance the change moves, if it moves one.
Moves(key) ==
    CASE key \in {"SUPPLY", "PIPELINE"} -> "SUPPLY"
      [] key \in {"DEMAND", "WEATHER", "POWER_MARKET", "LNG"} -> "DEMAND"
      [] key = "STORAGE" -> "STORAGE"
      [] OTHER -> "NOTHING"
Analysis(signal) ==
    [signal |-> signal.id, direction |-> signal.direction, magnitude |-> signal.score,
     confidence |-> signal.confidence, moves |-> Moves(signal.key), chain |-> Chain(signal)]

-----------------------------------------------------------------------------
(* risk_service/metrics.py: a position has a quantity, a price and an average price *)

MarketValue(p) == p.quantity * p.price
GrossExposure(positions) == SumOver(positions, LAMBDA p : Absolute(MarketValue(p)))
NetExposure(positions) == SumOver(positions, MarketValue)
UnrealizedPnl(positions) == SumOver(positions, LAMBDA p : (p.price - p.average) * p.quantity)

\* historical_var and expected_shortfall at 95%: the last and the average of the tail.
TailSize(n) == Most(1, n \div 20)
HistoricalVar(returns) ==
    IF returns = <<>> THEN 0
    ELSE Most(0, -Sorted(returns, LAMBDA x, y : x < y)[TailSize(Len(returns))])
ExpectedShortfall(returns) ==
    IF returns = <<>> THEN 0
    ELSE LET n == TailSize(Len(returns))
         IN  Most(0, Quotient(-Total(First(Sorted(returns, LAMBDA x, y : x < y), n)), n))

\* max_drawdown, in percent of the peak.
MaxDrawdown(curve) ==
    LET worst[i \in 0 .. Len(curve)] ==     \* the peak and the worst fall so far
            IF i = 0 THEN [peak |-> IF curve = <<>> THEN 0 ELSE curve[1], fall |-> 0]
            ELSE LET peak == Most(worst[i - 1].peak, curve[i])
                     fall == IF peak = 0 THEN 0 ELSE Quotient(100 * (peak - curve[i]), peak)
                 IN  [peak |-> peak, fall |-> Most(worst[i - 1].fall, fall)]
    IN  worst[Len(curve)].fall

\* concentration_hhi and largest_position_share, in percent.
ConcentrationHhi(positions) ==
    LET total == GrossExposure(positions)
    IN  IF total = 0 THEN 0
        ELSE (100 * SumOver(positions, LAMBDA p : MarketValue(p) * MarketValue(p)))
               \div (total * total)
LargestShare(positions) ==
    LET total == GrossExposure(positions)
        Larger(acc, p) == Most(acc, Absolute(MarketValue(p)))
    IN  IF total = 0 THEN 0 ELSE (100 * FoldLeft(Larger, 0, positions)) \div total

\* summarize: without the greeks, which add up like the net exposure.
Summary(positions, returns, curve) ==
    [gross |-> GrossExposure(positions), net |-> NetExposure(positions),
     pnl |-> UnrealizedPnl(positions), var |-> HistoricalVar(returns),
     shortfall |-> ExpectedShortfall(returns), drawdown |-> MaxDrawdown(curve),
     hhi |-> ConcentrationHhi(positions), largest |-> LargestShare(positions)]

-----------------------------------------------------------------------------
(* risk_service/scenarios.py *)

Shock(price, demand, supply, volatility) ==
    [price |-> price, demand |-> demand, supply |-> supply, volatility |-> volatility]

\* The standing library, in its order; demand and supply in tenths of Bcf a day.
Library == <<
    <<"polar_vortex", Shock(30, 80, 0, 180)>>,
    <<"weather_warm_15", Shock(-15, -50, 0, 100)>>,
    <<"weather_cold_15", Shock(15, 50, 0, 100)>>,
    <<"major_hurricane", Shock(20, 0, -40, 200)>>,
    <<"freeport_lng_outage", Shock(-18, -21, 0, 100)>>,
    <<"production_outage_2bcf", Shock(10, 0, -20, 100)>>,
    <<"production_outage_5bcf", Shock(28, 0, -50, 160)>>,
    <<"record_production", Shock(-12, 0, 30, 100)>>,
    <<"lng_feedgas_decline", Shock(-8, -15, 0, 100)>>,
    <<"pipeline_disruption", Shock(12, 0, -15, 100)>>,
    <<"storage_surprise_plus_20", Shock(-6, 0, 0, 100)>>,
    <<"storage_surprise_minus_20", Shock(6, 0, 0, 100)>>,
    <<"ttf_collapse", Shock(-10, -10, 0, 100)>>,
    <<"ttf_spike", Shock(14, 10, 0, 100)>> >>
ScenarioIds == {Library[i][1] : i \in DOMAIN Library}
GetScenario(id) == (CHOOSE entry \in {Library[i] : i \in DOMAIN Library} : entry[1] = id)[2]

\* run_scenario: the change of value of each position under the shock, in hundredths
\* of a cent, and what follows for the book.
PnlDelta(shock, p) == p.price * shock.price * p.quantity
RunScenario(shock, positions) ==
    LET returns == [i \in DOMAIN positions |->
                      Quotient(100 * UnrealizedPnl(<<positions[i]>>), positions[i].price)]
        Heavier(acc, p) ==
            IF Absolute(PnlDelta(shock, p)) > acc[1]
            THEN <<Absolute(PnlDelta(shock, p)), p.instrument>> ELSE acc
    IN  [pnl |-> SumOver(positions, LAMBDA p : PnlDelta(shock, p)),
         strategies |-> [x \in {positions[i].instrument : i \in DOMAIN positions} |->
                           SumOver(SelectSeq(positions, LAMBDA p : p.instrument = x),
                                   LAMBDA p : PnlDelta(shock, p))],
         margin |-> GrossExposure(positions) * Absolute(shock.price),
         var |-> HistoricalVar(returns) * (shock.volatility - 100),
         largest |-> FoldLeft(Heavier, <<0, "n/a">>, positions)[2]]

-----------------------------------------------------------------------------
(* scenario_engine.py *)

NoShock == Shock(0, 0, 0, 100)

\* Shocks add up, multipliers multiply.
Stacked(a, b) ==
    Shock(a.price + b.price, a.demand + b.demand, a.supply + b.supply,
          (a.volatility * b.volatility) \div 100)

\* A ScenarioVariable of a factor type moves one dimension.
Variable(factor, value) ==
    CASE factor = "PRICE_SHOCK_PCT" -> Shock(value, 0, 0, 100)
      [] factor = "DEMAND_SHOCK_BCF_D" -> Shock(0, value, 0, 100)
      [] factor = "SUPPLY_SHOCK_BCF_D" -> Shock(0, 0, value, 100)
      [] factor = "VOLATILITY_MULTIPLIER" -> Shock(0, 0, 0, value)

\* Mutant: the last base scenario replaces those before it.
MutCompose(bases, variables) ==
    IF \E i \in DOMAIN bases : bases[i] \notin ScenarioIds THEN {}
    ELSE {FoldLeft(Stacked, FoldLeft(LAMBDA acc, id : GetScenario(id), NoShock, bases), variables)}

\* compose: nothing when a base scenario is unknown (the router answers 400).
Compose(bases, variables) ==
    IF \E i \in DOMAIN bases : bases[i] \notin ScenarioIds THEN {}
    ELSE {FoldLeft(Stacked, FoldLeft(LAMBDA acc, id : Stacked(acc, GetScenario(id)),
                                     NoShock, bases),
                   variables)}

\* run: `definition` has a name, its bases and its variables.
ScenarioRun(definition, positions) ==
    {[name |-> definition.name, result |-> RunScenario(shock, positions)] :
       shock \in Compose(definition.bases, definition.variables)}

\* run_standing_library and compare: the whole library, worst first.
StandingRuns(positions) ==
    [i \in DOMAIN Library |->
       [name |-> Library[i][1], result |-> RunScenario(Library[i][2], positions)]]
Ranked(runs) == Sorted(runs, LAMBDA r, s : r.result.pnl < s.result.pnl)
Comparison(runs) ==
    IF runs = <<>> THEN [worst |-> {}, best |-> {}, ranked |-> <<>>]
    ELSE [worst |-> {Ranked(runs)[1].name}, best |-> {Ranked(runs)[Len(runs)].name},
          ranked |-> Ranked(runs)]

-----------------------------------------------------------------------------
(* post_trade.py: `trade` has a side, an expected return and loss, a target and a stop *)

Sign(trade) == IF trade.side = "LONG" THEN 1 ELSE -1
ActualReturn(trade, entry, exit) == Sign(trade) * (exit - entry)
SameDirection(trade, actual) == (actual >= 0) = (trade.expected >= 0)

ThesisAccuracy(trade, actual) ==
    LET gap == Least(1000, (1000 * Absolute(actual - trade.expected))
                             \div Most(Absolute(trade.expected), 1))
    IN  Clamped((IF SameDirection(trade, actual) THEN 1000 ELSE 200) - (3 * gap) \div 10, 0, 1000)

\* A breached stop counts before a reached target.
TimingAccuracy(trade, exit) ==
    IF Sign(trade) * (exit - trade.stop) < 0 THEN 300
    ELSE IF Sign(trade) * (exit - trade.target) >= 0 THEN 1000 ELSE 700

RiskAccuracy(trade, actual) ==
    IF actual >= 0 THEN 1000
    ELSE Clamped(2000 - (1000 * Absolute(actual)) \div Most(trade.loss, 1), 0, 1000)

GoodConsensus == 60      \* GOOD_DECISION_CONSENSUS_THRESHOLD

\* Decision and outcome are judged apart.
Quadrant(consensus, verdict, actual) ==
    [decision |-> IF consensus >= GoodConsensus /\ verdict = "ALLOW" THEN "GOOD" ELSE "BAD",
     outcome |-> IF actual > 0 THEN "GOOD" ELSE "BAD"]

\* evaluate_post_trade. A forecast is turned into the direction of the trade.
PostTrade(trade, consensus, verdict, entry, exit, forecast) ==
    LET actual == ActualReturn(trade, entry, exit)
    IN  [error |-> actual - trade.expected, thesis |-> ThesisAccuracy(trade, actual),
         timing |-> TimingAccuracy(trade, exit), risk |-> RiskAccuracy(trade, actual),
         quadrant |-> Quadrant(consensus, verdict, actual),
         quant |-> {[predicted |-> Sign(trade) * f.move,
                     error |-> actual - Sign(trade) * f.move,
                     up |-> IF trade.side = "LONG" THEN f.up ELSE 100 - f.up] : f \in forecast}]

-----------------------------------------------------------------------------
(* memory_builder.py *)

DecisionMemory(trade, quadrant) ==
    [type |-> "DECISION_MEMORY", trade |-> trade, quadrant |-> {quadrant}]

\* propose: the lesson is the template of the quadrant; without an outcome there is
\* none to learn from.
LessonFor(memory) ==
    {[memory |-> memory.trade, template |-> q, status |-> "PENDING", reviewer |-> {}] :
       q \in memory.quadrant}

-----------------------------------------------------------------------------
(* brief_engine.py *)

TopN == 5

\* compose: the strongest signals, their impacts, the widest disagreements, the worst
\* scenarios and the lessons that wait for a review.
Brief(signals, impacts, views, runs, lessons) ==
    LET top == First(Sorted(signals, LAMBDA s, t : s.score > t.score), TopN)
        ids == {top[i].id : i \in DOMAIN top}
    IN  [signals |-> top,
         impacts |-> First(SelectSeq(impacts, LAMBDA a : a.signal \in ids), TopN),
         views |-> First(Sorted(views, LAMBDA v, w : v.dispersion > w.dispersion), TopN),
         runs |-> First(Sorted(runs, LAMBDA r, s : r.result.pnl < s.result.pnl), TopN),
         lessons |-> First(SelectSeq(lessons, LAMBDA l : l.status = "PENDING"), TopN)]

\* What its headline is about.
Headline(brief) ==
    IF brief.signals # <<>> THEN <<"SIGNAL", brief.signals[1].id>>
    ELSE IF brief.views # <<>> THEN <<"CONSENSUS", brief.views[1].id>> ELSE <<"NOTHING">>
=============================================================================
