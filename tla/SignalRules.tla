----------------------------- MODULE SignalRules -----------------------------
(***************************************************************************)
(* AlphaSignal: what one research cycle reports. A detector key has a      *)
(* baseline (last value, window of values, whether each cycle fired); a    *)
(* reading is scored against it and becomes a signal at the threshold.     *)
(*                                                                         *)
(* Percentages, scores and confidences are whole numbers out of 100,       *)
(* rounded down; the materiality score is kept in tenths. What may be None *)
(* is a set of at most one element.                                        *)
(*                                                                         *)
(* Sources: services/alpha/alpha_service/materiality.py and                *)
(* signal_detector.py.                                                     *)
(***************************************************************************)
EXTENDS Integers, Sequences, FiniteSets, SequencesExt

Directions == {"BULLISH", "BEARISH", "NEUTRAL"}
Opposite == [BULLISH |-> "BEARISH", BEARISH |-> "BULLISH", NEUTRAL |-> "NEUTRAL"]

\* The one element of an optional value, or `default`.
OrElse(option, default) == IF option = {} THEN default ELSE CHOOSE x \in option : TRUE

\* The same as a sequence.
Listed(option) == IF option = {} THEN <<>> ELSE <<CHOOSE x \in option : TRUE>>

Absolute(x) == IF x < 0 THEN -x ELSE x
Least(x, y) == IF x < y THEN x ELSE y
Most(x, y) == IF x > y THEN x ELSE y
Clamped(x, low, high) == Most(low, Least(high, x))

\* x / y rounded towards zero; y may be negative.
Quotient(x, y) ==
    LET q == Absolute(x) \div Absolute(y) IN IF (x < 0) = (y < 0) THEN q ELSE -q

\* The last n elements of s: s[-n:].
LastOf(s, n) == IF Len(s) <= n THEN s ELSE SubSeq(s, Len(s) - n + 1, Len(s))

\* The elements of s that are in S, in their order: SelectSeq for a set, as a function
\* that a proof can follow.
Only(s, S) ==
    LET upto[n \in 0 .. Len(s)] ==
            IF n = 0 THEN <<>>
            ELSE IF s[n] \in S THEN Append(upto[n - 1], s[n]) ELSE upto[n - 1]
    IN  upto[Len(s)]

Total(s) == FoldLeft(LAMBDA acc, x : acc + x, 0, s)

-----------------------------------------------------------------------------
(* materiality.py *)

Threshold == 600     \* DEFAULT_MATERIALITY_THRESHOLD, in tenths

Quality == [LICENSED |-> 100, PUBLIC |-> 80, USER_PROVIDED |-> 70, SIMULATED |-> 60]

\* |percent_change| / 0.20, at most 100; without a percent change, medium.
Magnitude(change, previous) ==
    IF previous = 0 THEN 50 ELSE Least(100, (500 * Absolute(change)) \div Absolute(previous))

\* |z| / 4 from its square; no z, no rarity.
Rarity(zSquare) ==
    IF zSquare = {} THEN 0
    ELSE LET square == CHOOSE z \in zSquare : TRUE    \* numerator, denominator
         IN  CHOOSE r \in 0 .. 100 :
               /\ r * r * square[2] <= 625 * square[1]
               /\ r = 100 \/ (r + 1) * (r + 1) * square[2] > 625 * square[1]

\* MaterialityEngine.score, in tenths of a point.
Score(magnitude, rarity, confidence, quality) ==
    4 * magnitude + 3 * rarity + 2 * Clamped(confidence, 0, 100) + quality

-----------------------------------------------------------------------------
(* signal_detector.py *)

WindowSize == 20
MinSamples == 3
MinAgents == 3

\* The detector keys of the readings, in the order of detect; the direction that a
\* rise of each one stands for.
Metrics == <<"MARKET", "STORAGE", "WEATHER", "SUPPLY", "DEMAND", "LNG",
             "POWER_MARKET", "PIPELINE", "PORTFOLIO">>
Rise == [MARKET |-> "BULLISH", STORAGE |-> "BEARISH", WEATHER |-> "BULLISH",
         SUPPLY |-> "BEARISH", DEMAND |-> "BULLISH", LNG |-> "BULLISH",
         POWER_MARKET |-> "BULLISH", PIPELINE |-> "BULLISH", PORTFOLIO |-> "NEUTRAL"]
Limits == <<"DAILY_LOSS", "DRAWDOWN">>
Keys == {Metrics[i] : i \in DOMAIN Metrics} \cup {Limits[i] : i \in DOMAIN Limits}
          \cup {"AGENT_DISAGREEMENT"}

\* What the detector knows of a key.
Snapshot(value, window, history) == [value |-> value, window |-> window, history |-> history]

\* _novelty_score: the share of recent cycles in which the key did not fire.
Novelty(history) ==
    IF history = <<>> THEN 100
    ELSE 100 - (100 * Len(SelectSeq(history, LAMBDA fired : fired))) \div Len(history)

\* The square of _zscore, as a fraction: with sums instead of means.
ZSquare(window, current) ==
    LET n == Len(window)
        sum == Total(window)
        spread == n * Total([i \in 1 .. n |-> window[i] * window[i]]) - sum * sum
    IN  IF n < MinSamples \/ spread = 0 THEN {}
        ELSE {<<(n * current - sum) * (n * current - sum), spread>>}

\* The score of reading x against baseline b.
Materiality(b, x) ==
    Score(Magnitude(x.value - b.value, b.value), Rarity(ZSquare(b.window, x.value)),
          x.confidence, x.quality)

\* Which way a change of a metric points; no change counts as a fall.
Direction(key, change) ==
    IF change > 0 THEN Rise[key] ELSE Opposite[Rise[key]]

Signal(key, previous, current, score, history, direction, confidence) ==
    [key |-> key, previous |-> previous, current |-> current, score |-> score,
     novelty |-> Novelty(history), direction |-> direction, confidence |-> confidence]

Fired(b, passed) == LastOf(Append(b.history, passed), WindowSize)

\* _consider: the new baseline of a metric ...
Considered(b, x) ==
    IF b = {} THEN Snapshot(x.value, <<x.value>>, <<>>)
    ELSE LET old == CHOOSE s \in b : TRUE
         IN  Snapshot(x.value, LastOf(Append(old.window, x.value), WindowSize),
                      Fired(old, Materiality(old, x) >= Threshold))

\* ... and its signal, if it is material. A first observation has nothing to be
\* compared with.
MetricSignal(key, b, x) ==
    {Signal(key, {s.value}, x.value, Materiality(s, x), s.history,
            Direction(key, x.value - s.value), x.confidence) :
       s \in {t \in b : Materiality(t, x) >= Threshold}}

\* A reading of an agent's output: `confidence or 0.5`, SIMULATED.
AgentReading(value, confidence) ==
    [value |-> value, confidence |-> IF confidence = 0 THEN 50 ELSE confidence,
     quality |-> Quality["SIMULATED"]]
PriceReading(value, class) == [value |-> value, confidence |-> 90, quality |-> Quality[class]]
ExposureReading(value) == [value |-> value, confidence |-> 100, quality |-> Quality["SIMULATED"]]

\* The direction that each fundamental agent leans to in this cycle. `street` is
\* the market's consensus of the storage figure, `outlook` the weather agent's
\* price_direction; a trend of zero is no rise.
Leans(readings, street, outlook) ==
    [STORAGE |-> IF readings["STORAGE"] = {} \/ street = {} THEN {}
                 ELSE {IF \E x \in readings["STORAGE"], s \in street : x.value < s
                       THEN "BULLISH" ELSE "BEARISH"},
     WEATHER |-> outlook \ {"NEUTRAL"},
     SUPPLY  |-> {IF x.value > 0 THEN "BEARISH" ELSE "BULLISH" : x \in readings["SUPPLY"]},
     DEMAND  |-> {IF x.value > 0 THEN "BULLISH" ELSE "BEARISH" : x \in readings["DEMAND"]}]

\* _detect_agent_disagreement: the smaller camp's share, out of 100, when enough
\* agents lean and both camps have somebody.
Disagreement(leans) ==
    LET camp(d) == Cardinality({a \in DOMAIN leans : d \in leans[a]})
        all == camp("BULLISH") + camp("BEARISH")
        minority == Least(camp("BULLISH"), camp("BEARISH"))
    IN  IF all < MinAgents \/ minority = 0 THEN {} ELSE {(100 * minority) \div all}

\* The share counts as a percent change.
DisagreementScore(share, confidence) ==
    Score(Least(100, 5 * share), 0, confidence, Quality["SIMULATED"])

\* _detect_risk_limit_approach, from 70% on; its score is the usage itself.
Approached(usage) == usage >= 70
UsageScore(usage) == 10 * Clamped(usage, 0, 100)

\* A baseline without a window, for the keys that are not compared with the past.
Noted(b, value, fired) ==
    Snapshot(value, <<>>, Fired(OrElse(b, Snapshot(0, <<>>, <<>>)), fired))
HistoryOf(b) == OrElse(b, Snapshot(0, <<>>, <<>>)).history

\* What a cycle sees: readings, the leans' share of disagreement with the agents'
\* average confidence, and the usage of each risk limit.
\* detect: the baselines that it returns; a key without a reading keeps its own.
DetectedBaselines(baselines, seen) ==
    [k \in Keys |->
       CASE k \in DOMAIN Rise ->
              IF seen.readings[k] = {} THEN baselines[k]
              ELSE {Considered(baselines[k], x) : x \in seen.readings[k]}
         [] k \in DOMAIN seen.usage ->
              {Noted(baselines[k], seen.usage[k], Approached(seen.usage[k]))}
         [] OTHER ->
              IF seen.split = {} THEN baselines[k]
              ELSE {Noted(baselines[k], s, DisagreementScore(s, seen.leaning) >= Threshold) :
                      s \in seen.split}]

\* The signals of one key.
KeySignals(k, b, seen) ==
    CASE k \in DOMAIN Rise -> UNION {MetricSignal(k, b, x) : x \in seen.readings[k]}
      [] k \in DOMAIN seen.usage ->
           {Signal(k, {}, u, UsageScore(u), HistoryOf(b), "NEUTRAL", 100) :
              u \in {v \in {seen.usage[k]} : Approached(v)}}
      [] OTHER ->
           {Signal(k, {}, s, DisagreementScore(s, seen.leaning), HistoryOf(b), "NEUTRAL",
                   seen.leaning) :
              s \in {t \in seen.split : DisagreementScore(t, seen.leaning) >= Threshold}}

\* detect: its signals, in the order in which they are saved.
DetectedSignals(baselines, seen) ==
    LET order == Metrics \o <<"AGENT_DISAGREEMENT">> \o Limits
        found(k) == KeySignals(k, baselines[k], seen)
        firing == Only(order, {k \in Keys : found(k) # {}})
    IN  [i \in DOMAIN firing |-> CHOOSE s \in found(firing[i]) : TRUE]
=============================================================================
