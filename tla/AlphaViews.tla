------------------------------ MODULE AlphaViews ------------------------------
(***************************************************************************)
(* What the agents' results say together: the forecasts that are extracted *)
(* from them, the trust that each agent has earned, the consensus weighted *)
(* by both, the market-bias indicator, and how signals and consensus are   *)
(* annotated on a trade idea.                                              *)
(*                                                                         *)
(* Shares and scores are exact: a view keeps the sums of raw weights whose *)
(* quotients are the probabilities. Points of the bias are in tenths.      *)
(*                                                                         *)
(* Sources: services/alpha/alpha_service/forecast_extractor.py,            *)
(* agent_alpha_score.py, consensus_engine.py, market_bias.py and           *)
(* trading_integration.py.                                                 *)
(***************************************************************************)
EXTENDS SignalRules

(* forecast_extractor.py *)

\* _direction_from_delta.
DirectionFromDelta(delta, rise) ==
    IF delta = 0 THEN "NEUTRAL" ELSE IF delta > 0 THEN rise ELSE Opposite[rise]

Forecast(agent, target, value, direction, confidence) ==
    [agent |-> agent, target |-> target, value |-> value, direction |-> direction,
     confidence |-> confidence]

\* A trend agent's forecast.
TrendForecast(agent, target, rise, readings) ==
    {Forecast(agent, target, x.value, DirectionFromDelta(x.value, rise), x.confidence) :
       x \in readings[agent]}

\* The price forecast leans by its probability of a rise; a relative value is bullish
\* when the contract is cheap.
PriceForecasts(quant) ==
    {Forecast("FORECASTING", "PRICE", p.value, DirectionFromDelta(p.up - 50, "BULLISH"),
              p.confidence) : p \in quant}
RelativeDirection(verdict) ==
    CASE verdict = "CHEAP" -> "BULLISH" [] verdict = "RICH" -> "BEARISH" [] OTHER -> "NEUTRAL"
RelativeForecasts(relative) ==
    {Forecast("RELATIVE_VALUE", "RELATIVE_VALUE_MISPRICING", 0, RelativeDirection(r.verdict),
              r.confidence) : r \in relative}

\* ForecastExtractor.extract, in its order: only agents whose output has a direction.
Extracted(readings, street, outlook, quant, relative) ==
    LET storage == {Forecast("STORAGE", "STORAGE_BCF", x.value,
                             DirectionFromDelta(s - x.value, "BULLISH"), x.confidence) :
                      x \in readings["STORAGE"], s \in street}
        weather == {Forecast("WEATHER", "DEMAND_BCF_D", x.value, d, x.confidence) :
                      x \in readings["WEATHER"], d \in outlook}
        supply == TrendForecast("SUPPLY", "PRODUCTION_BCF_D", "BEARISH", readings)
        demand == TrendForecast("DEMAND", "DEMAND_BCF_D", "BULLISH", readings)
    IN  Listed(storage) \o Listed(weather) \o Listed(supply) \o Listed(demand)
          \o Listed(PriceForecasts(quant)) \o Listed(RelativeForecasts(relative))

-----------------------------------------------------------------------------
(* agent_alpha_score.py *)

NeutralScore == 50

\* A standard deviation in percent, rounded down, of percents.
Deviation(s) ==
    LET n == Len(s)
        spread == n * Total([i \in 1 .. n |-> s[i] * s[i]]) - Total(s) * Total(s)
    IN  CHOOSE d \in 0 .. 50 : d * d * n * n <= spread /\ (d + 1) * (d + 1) * n * n > spread

\* _score_confidence_consistency, from the agent's recent confidences and the share of
\* its results that cite a source.
ConsistencyScore(confidences, cited) ==
    IF confidences = <<>> THEN NeutralScore
    ELSE LET mean == Total(confidences) \div Len(confidences)
             consistency == IF Len(confidences) < 2 THEN 100
                            ELSE Most(0, 100 - Least(100, 2 * Deviation(confidences)))
         IN  Clamped((5 * mean + 3 * consistency + 2 * cited) \div 10, 0, 100)

\* _score_backtested: directional accuracy weighted by each model's contribution.
BacktestedScore(models) ==
    LET used == SelectSeq(models, LAMBDA m : m.tested /\ m.weight > 0)
        weight == Total([i \in DOMAIN used |-> used[i].weight])
    IN  IF weight = 0 THEN {}
        ELSE {Total([i \in DOMAIN used |-> used[i].weight * used[i].accuracy]) \div weight}

\* AgentAlphaScoreEngine.score.
AlphaScore(agent, confidences, cited, models) ==
    IF agent = "FORECASTING" /\ BacktestedScore(models) # {}
    THEN OrElse(BacktestedScore(models), NeutralScore)
    ELSE ConsistencyScore(confidences, cited)

-----------------------------------------------------------------------------
(* consensus_engine.py *)

\* Score times confidence of each forecast; equal weights when all of that is nothing.
\* `scores` has an optional score for each agent.
RawWeights(forecasts, scores) ==
    LET weights == [i \in DOMAIN forecasts |->
                      OrElse(scores[forecasts[i].agent], NeutralScore) * forecasts[i].confidence]
    IN  IF Total(weights) > 0 THEN weights ELSE [i \in DOMAIN forecasts |-> 1]

\* The weight behind direction d.
Camp(forecasts, weights, d) ==
    Total([i \in DOMAIN forecasts |-> IF forecasts[i].direction = d THEN weights[i] ELSE 0])

Agreement(largest, total) ==
    IF 10 * largest >= 7 * total THEN "HIGH"
    ELSE IF 10 * largest >= 5 * total THEN "MEDIUM" ELSE "LOW"

\* The agents of one side, heaviest first, ties in the order of the forecasts.
Side(forecasts, weights, directions) ==
    LET all == SelectSeq([i \in DOMAIN forecasts |-> i],
                         LAMBDA i : forecasts[i].direction \in directions)
        order == SortSeq(all, LAMBDA i, j : \/ weights[i] > weights[j]
                                            \/ weights[i] = weights[j] /\ i < j)
    IN  [k \in DOMAIN order |-> forecasts[order[k]].agent]

\* The weighted value when all forecasts are of one target.
ConsensusValue(forecasts, weights, target) ==
    IF \A i \in DOMAIN forecasts : forecasts[i].target = target
    THEN {Quotient(Total([i \in DOMAIN forecasts |-> forecasts[i].value * weights[i]]),
                   Total(weights))}
    ELSE {}

\* ConsensusEngine.compute: no forecast, no view.
Consensus(forecasts, scores, target) ==
    IF forecasts = <<>> THEN {}
    ELSE LET weights == RawWeights(forecasts, scores)
             bull == Camp(forecasts, weights, "BULLISH")
             bear == Camp(forecasts, weights, "BEARISH")
             neutral == Camp(forecasts, weights, "NEUTRAL")
             largest == Most(bull, Most(bear, neutral))
             majority == IF bull = largest THEN "BULLISH"
                         ELSE IF bear = largest THEN "BEARISH" ELSE "NEUTRAL"
         IN  {[target |-> target, bull |-> bull, bear |-> bear, neutral |-> neutral,
               total |-> Total(weights),
               confidence |-> Total([i \in DOMAIN forecasts |->
                                       forecasts[i].confidence * weights[i]])
                                \div Total(weights),
               dispersion |-> (100 * (Total(weights) - largest)) \div Total(weights),
               agreement |-> Agreement(largest, Total(weights)),
               value |-> ConsensusValue(forecasts, weights, target),
               leading |-> Side(forecasts, weights, {majority}),
               dissenting |-> Side(forecasts, weights, Directions \ {majority})]}

-----------------------------------------------------------------------------
(* market_bias.py *)

\* Each driver is absent, or has points in tenths.
WeatherDriver(heating, cooling) == Clamped(20 * heating + 15 * cooling, -200, 200)
StorageDriver(current, average) == Clamped(average - current, -200, 200)

\* _balance_trend in sevenths: the last week against the one before it, when there are
\* two weeks.
Trend(days) ==
    IF Len(days) < 14 THEN {}
    ELSE {Total(LastOf(days, 7)) - Total(SubSeq(days, Len(days) - 13, Len(days) - 7))}

\* Mutant: more production is bullish.
MutProductionDriver(days) == {Clamped(Quotient(30 * t, 7), -150, 150) : t \in Trend(days)}
ProductionDriver(days) == {Clamped(Quotient(-30 * t, 7), -150, 150) : t \in Trend(days)}
DemandDriver(days)     == {Clamped(Quotient(15 * t, 7), -150, 150) : t \in Trend(days)}
LngDriver(days)        == {Clamped(Quotient(30 * t, 7), -100, 100) : t \in Trend(days)}
PowerDriver(days)      == {Clamped(Quotient(20 * t, 7), -100, 100) : t \in Trend(days)}

MomentumDriver(prices) ==
    IF Len(prices) < 2 \/ prices[1] = 0 THEN {}
    ELSE {Clamped(Quotient(500 * (prices[Len(prices)] - prices[1]), prices[1]), -100, 100)}

\* Of a view, as get_latest_consensus_view_for_market finds it.
ConsensusDriver(view) ==
    {Clamped(Quotient(150 * (v.bull - v.bear) * v.confidence, 100 * v.total), -150, 150) :
       v \in view}

\* _label_for_score, of a score in tenths.
BiasLabel(score) ==
    IF score >= 800 THEN "STRONGLY_BULLISH" ELSE IF score >= 600 THEN "BULLISH"
    ELSE IF score >= 400 THEN "NEUTRAL" ELSE IF score >= 200 THEN "BEARISH"
    ELSE "STRONGLY_BEARISH"

\* compute_market_bias: `drivers` is the sequence of the optional drivers.
MarketBias(drivers) ==
    LET present == SelectSeq(drivers, LAMBDA d : d # {})
        score == Clamped(500 + Total([i \in DOMAIN present |-> OrElse(present[i], 0)]), 0, 1000)
    IN  IF present = <<>> THEN [label |-> "INSUFFICIENT_DATA", score |-> {}]
        ELSE [label |-> BiasLabel(score), score |-> {score}]

-----------------------------------------------------------------------------
(* trading_integration.py *)

Aligned == [LONG |-> "BULLISH", SHORT |-> "BEARISH"]

\* The signals that are strong enough and point in direction d.
Pointing(signals, d) ==
    SelectSeq(signals, LAMBDA s : s.score >= Threshold /\ s.direction = d)

\* Where a view leans, if it does.
Lean(v) == IF v.bull > v.bear THEN "BULLISH" ELSE IF v.bear > v.bull THEN "BEARISH" ELSE "NEUTRAL"

\* Mutant: the signals against the trade are left out.
MutCorroboration(trade, signals, view) ==
    IF trade \notin DOMAIN Aligned
    THEN [catalysts |-> <<>>, risks |-> <<>>, supporting |-> {}, cautions |-> {}]
    ELSE [catalysts |-> Pointing(signals, Aligned[trade]), risks |-> <<>>,
          supporting |-> {v \in view : Lean(v) = Aligned[trade]},
          cautions |-> {v \in view : Lean(v) = Opposite[Aligned[trade]]}]

\* AlphaCorroborationEngine.corroborate: what is added to a trade idea. A spread gets
\* nothing.
Corroboration(trade, signals, view) ==
    IF trade \notin DOMAIN Aligned
    THEN [catalysts |-> <<>>, risks |-> <<>>, supporting |-> {}, cautions |-> {}]
    ELSE [catalysts |-> Pointing(signals, Aligned[trade]),
          risks |-> Pointing(signals, Opposite[Aligned[trade]]),
          supporting |-> {v \in view : Lean(v) = Aligned[trade]},
          cautions |-> {v \in view : Lean(v) = Opposite[Aligned[trade]]}]
=============================================================================
