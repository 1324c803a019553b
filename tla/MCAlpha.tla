------------------------------ MODULE MCAlpha ------------------------------
(***************************************************************************)
(* The Alpha layer on small instances: a few plans of jobs for the cycles, *)
(* and a grid of inputs for the calculations and for the chat's answers.   *)
(***************************************************************************)
EXTENDS AlphaCycle, ChatTools

CONSTANTS Plans     \* of which one runs

VARIABLES
    part,   \* "jobs", or "grid" until the calculation is done
    plan,   \* the plan that runs
    world   \* the inputs of the calculations

-----------------------------------------------------------------------------
(* Jobs *)

MCJobs == {"bootApi", "bootWorker", "demand", "enterprise", "scenario", "compare",
           "close", "review", "again"}
MCKind ==
    [j \in MCJobs |->
       CASE j \in {"bootApi", "bootWorker"} -> "BOOT" [] j = "demand" -> "DEMAND"
         [] j = "enterprise" -> "ENTERPRISE" [] j = "scenario" -> "SCENARIO"
         [] j = "compare" -> "COMPARE" [] j = "close" -> "MEMORY" [] OTHER -> "REVIEW"]
MCProcessOf == [j \in MCJobs |-> IF j = "bootWorker" THEN "worker" ELSE "api"]

\* A sight: the price and the production trend vary; the agents' other answers go along.
MCSight(price, trend) ==
    [readings |-> [k \in DOMAIN Rise |->
                     CASE k = "MARKET" -> {PriceReading(price, "SIMULATED")}
                       [] k = "SUPPLY" -> {AgentReading(trend, 100)}
                       [] k = "STORAGE" -> {AgentReading(50, 60)}
                       [] k = "LNG" -> {AgentReading(12, 0)}
                       [] OTHER -> {}],
     usage |-> [l \in {"DAILY_LOSS", "DRAWDOWN"} |->
                  IF l = "DRAWDOWN" /\ price = 30 /\ trend = 1 THEN 75 ELSE 0],
     split |-> {}, leaning |-> 0, street |-> {53}, outlook |-> {},
     quant |-> {[value |-> price, up |-> 60, confidence |-> 70,
                 models |-> <<[tested |-> TRUE, weight |-> 2, accuracy |-> 55],
                              [tested |-> FALSE, weight |-> 1, accuracy |-> 90]>>]},
     relative |-> {[verdict |-> "CHEAP", confidence |-> 50]},
     idea |-> IF trend < 0 THEN {"LONG"} ELSE IF price = 30 THEN {"SHORT"} ELSE {}]
MCSights == {MCSight(20, -1), MCSight(30, -1), MCSight(30, 1)}

MCDefinitions == {[name |-> "cold", bases |-> <<"polar_vortex">>,
                   variables |-> <<Variable("PRICE_SHOCK_PCT", 5)>>],
                  [name |-> "unknown", bases |-> <<"nothing_like_it">>, variables |-> <<>>]}
MCBooks == {<<[instrument |-> "M1", quantity |-> 2, price |-> 30, average |-> 20]>>}
MCClosed == {[trade |-> "t1", quadrant |-> Quadrant(70, "ALLOW", -3)]}

\* Jobs that run together, whether time passes, and whether one of them may break off.
Plan(jobs, ticks, faulty) == [jobs |-> jobs, ticks |-> ticks, faulty |-> faulty]
MCPlans ==
    {Plan({"bootApi", "demand", "enterprise"}, TRUE, FALSE),
     Plan({"bootApi", "demand"}, TRUE, TRUE),
     Plan({"bootApi", "bootWorker"}, FALSE, FALSE),
     Plan({"bootApi", "scenario", "close", "review", "again"}, TRUE, TRUE),
     Plan({"bootApi", "compare"}, TRUE, FALSE)}

-----------------------------------------------------------------------------
(* The grid: a market and its mirror image, and a stressed book *)

Maybe(S) == {{}} \cup {{x} : x \in S}
Markets ==
    [of : {"market"}, supply : {-2, 0, 3}, demand : {-1, 4}, storage : {-3, 0, 5},
     outlook : Maybe({"BULLISH", "BEARISH"}), up : {35, 60}, verdict : {"CHEAP", "FAIR"},
     exit : {27, 30, 36}]
Mirror(w) ==
    [w EXCEPT !.supply = -@, !.demand = -@, !.storage = -@,
              !.outlook = {Opposite[d] : d \in @}, !.up = 100 - @,
              !.verdict = CASE @ = "CHEAP" -> "RICH" [] @ = "RICH" -> "CHEAP" [] OTHER -> @,
              !.exit = 60 - @]

ForecastsIn(w) ==
    LET x == [SUPPLY |-> w.supply, DEMAND |-> w.demand, STORAGE |-> 50 - w.storage, WEATHER |-> 1]
    IN  Extracted([k \in DOMAIN x |-> {AgentReading(x[k], 60)}], {50}, w.outlook,
                  {[value |-> 30, up |-> w.up, confidence |-> 70]},
                  {[verdict |-> w.verdict, confidence |-> 45]})
ViewIn(w) ==
    Consensus(ForecastsIn(w), [[a \in Agents |-> {}] EXCEPT !["WEATHER"] = {80}], "PRICE")
Fortnight(first, second) == [i \in 1 .. 14 |-> IF i <= 7 THEN first ELSE second]
BiasIn(w) ==
    LET days(x) == Fortnight(50, 50 + x)
    IN  MarketBias(<<{WeatherDriver(w.demand, w.storage)}, {StorageDriver(100, 100 + 9 * w.storage)},
                     ProductionDriver(days(w.supply)), DemandDriver(days(w.demand)),
                     LngDriver(days(w.storage)), PowerDriver(days(w.demand)),
                     MomentumDriver(<<20, 20 + w.demand>>), ConsensusDriver(ViewIn(w))>>)
Leaning(w) ==
    <<[key |-> "SUPPLY", score |-> 700, direction |-> Direction("SUPPLY", w.supply)],
      [key |-> "DEMAND", score |-> 500, direction |-> Direction("DEMAND", w.demand)]>>

\* A trade whose target and stop are 4 and 2 away from its entry at 30.
TradeIn(side) ==
    [side |-> side, expected |-> 3, loss |-> 2,
     target |-> 30 + 4 * Sign([side |-> side]), stop |-> 30 - 2 * Sign([side |-> side])]
Closing(w, side) ==
    PostTrade(TradeIn(side), 65, "ALLOW", 30, w.exit,
              {[move |-> w.demand, up |-> w.up]})

Books2 ==
    {<<[instrument |-> "M1", quantity |-> m, price |-> 30, average |-> a],
       [instrument |-> "M2", quantity |-> n, price |-> 20, average |-> 25],
       [instrument |-> "M1", quantity |-> 1, price |-> 31, average |-> 30]>> :
       m \in {-3, 2}, n \in {-4, 5}, a \in {24, 36}}
Stresses ==
    [of : {"stress"}, book : Books2 \cup {<<>>},
     bases : {<<>>, <<"polar_vortex">>, <<"ttf_collapse", "major_hurricane">>},
     more : {<<"record_production">>, <<"production_outage_5bcf", "storage_surprise_plus_20">>},
     value : {-20, 7}]

\* Questions of two fragments, and those of a scenario with a move.
Asked(fragments) ==
    {[of |-> "question", words |-> {x, y}] : x \in fragments, y \in fragments}
Questions ==
    Asked(Fragments) \cup
      {[of |-> "question", words |-> {"scenario", x, y}] :
         x \in {"freeport", "polar", "hurricane", "pipeline"},
         y \in {"drop", "spike", "lng"}}

\* Two desks of which every part differs.
Desk(n) ==
    LET rows(source) == [i \in 1 .. n |-> [id |-> <<source, i>>, score |-> 10 * i, org |-> {},
                                          market |-> "NG", at |-> 2]]
    IN  [ideas |-> [i \in 1 .. n |-> [id |-> i, side |-> "LONG", catalysts |-> n, risks |-> n,
                                      stop |-> n, evidence |-> {<<"evidence", n>>}]],
         decisions |-> <<[id |-> n, for |-> n, against |-> n]>>,
         results |-> <<[id |-> n, type |-> "WEATHER", says |-> n, at |-> 3],
                       [id |-> n, type |-> "STORAGE", says |-> n, at |-> 9]>>,
         book |-> <<[instrument |-> "M1", quantity |-> n, price |-> 30, average |-> 20]>>,
         signals |-> rows("signal"),
         impacts |-> <<[id |-> n, signal |-> <<"signal", n>>, says |-> n],
                       [id |-> 9, signal |-> <<"signal", 1>>, says |-> n]>>,
         views |-> rows("view"), memories |-> rows("memory"),
         lessons |-> [i \in 1 .. n |-> [id |-> i, status |-> "PENDING"]],
         briefs |-> rows("brief"), news |-> rows("news"), curve |-> 20 + n, halted |-> n = 1,
         tables |-> [NoRows EXCEPT !.signals = rows("signal")], now |-> 7 + 5 * n]
Records(d) ==
    LET of(source, rows) == {<<source, rows[i].id>> : i \in DOMAIN rows}
    IN  of("trade_idea", d.ideas) \cup of("committee", d.decisions) \cup of("result", d.results)
          \cup of("signal", d.signals) \cup of("impact", d.impacts) \cup of("view", d.views)
          \cup of("memory", d.memories) \cup of("brief", d.briefs) \cup of("news", d.news)

-----------------------------------------------------------------------------
mcVars == <<part, plan, world, vars>>

MCInit ==
    /\ Init
    /\ part \in {"jobs", "grid"}
    /\ IF part = "jobs" THEN plan \in Plans ELSE plan = Plan({}, FALSE, FALSE)
    /\ IF part = "grid" THEN world \in Markets \cup Stresses \cup Questions ELSE world = [of |-> "nothing"]
Work ==
    /\ part = "jobs"
    /\ Tick \/ \E j \in plan.jobs : JobStep(j)
    /\ clock' = clock \/ plan.ticks
    /\ faults' = faults \/ plan.faulty
    /\ UNCHANGED <<part, plan, world>>
Calculate ==
    /\ part = "grid"
    /\ part' = "done"
    /\ UNCHANGED <<plan, world, vars>>
MCNext == Work \/ Calculate
MCSpec == MCInit /\ [][MCNext]_mcVars

-----------------------------------------------------------------------------
(* Properties of the calculations *)

Swapped(v) == [v EXCEPT !.bull = v.bear, !.bear = v.bull]
Shares(views) ==
    {[bull |-> v.bull, bear |-> v.bear, total |-> v.total, confidence |-> v.confidence,
      dispersion |-> v.dispersion, agreement |-> v.agreement] : v \in views}

\* What is bullish is bearish in the mirror image of a market: the forecasts of every
\* agent, the shares of the consensus, the score of the market bias, the signals and
\* views cited for a long and against a short, and the verdict on a long closed there
\* and on a short closed here.
Mirrored(w) ==
    LET m == Mirror(w)
        long == Corroboration("LONG", Leaning(w), ViewIn(w))
        short == Corroboration("SHORT", Leaning(m), ViewIn(m))
    IN  /\ [i \in DOMAIN ForecastsIn(w) |-> Opposite[ForecastsIn(w)[i].direction]]
             = [i \in DOMAIN ForecastsIn(m) |-> ForecastsIn(m)[i].direction]
        /\ Shares(ViewIn(m)) = {Swapped(v) : v \in Shares(ViewIn(w))}
        /\ BiasIn(m).score = {1000 - x : x \in BiasIn(w).score}
        /\ w.supply # 0 => /\ Len(long.catalysts) = Len(short.catalysts)
                           /\ Len(long.risks) = Len(short.risks)
        /\ Shares(short.supporting) = {Swapped(v) : v \in Shares(long.supporting)}
        /\ Shares(short.cautions) = {Swapped(v) : v \in Shares(long.cautions)}
        /\ Closing(w, "LONG") = Closing(m, "SHORT")

\* What the four readers of a change x of a metric make of it: the signal detector, the
\* forecast, the camp in a disagreement of agents, and the driver of the bias.
Pointed(points) == DirectionFromDelta(OrElse(points, 0), "BULLISH")
ReadersOf(w, x) ==
    LET days == Fortnight(50, 50 + x)
        forecast(a) == {ForecastsIn(w)[i].direction :
                          i \in {n \in DOMAIN ForecastsIn(w) : ForecastsIn(w)[n].agent = a}}
        leans == Leans([k \in DOMAIN Rise |->
                          {AgentReading(IF k = "STORAGE" THEN 50 - x ELSE x, 60)}], {50}, {})
    IN  [SUPPLY  |-> forecast("SUPPLY") \cup leans.SUPPLY
                       \cup {Direction("SUPPLY", x), Pointed(ProductionDriver(days))},
         DEMAND  |-> forecast("DEMAND") \cup leans.DEMAND
                       \cup {Direction("DEMAND", x), Pointed(DemandDriver(days))},
         STORAGE |-> forecast("STORAGE") \cup leans.STORAGE
                       \cup {Direction("STORAGE", -x), Pointed({StorageDriver(100 - x, 100)})},
         WEATHER |-> {Direction("WEATHER", x), Pointed({WeatherDriver(x, x)})},
         LNG     |-> {Direction("LNG", x), Pointed(LngDriver(days))},
         POWER   |-> {Direction("POWER_MARKET", x), Pointed(PowerDriver(days))},
         MARKET  |-> {Direction("MARKET", x), Pointed(MomentumDriver(<<20, 20 + x>>))}]

\* The market is read one way: a market and its mirror image are read as opposites, and
\* every part that reads the same change of a metric calls it by the same direction
\* (signal_detector, forecast_extractor, market_bias, consensus_engine,
\* trading_integration, post_trade).
MarketIsReadOneWay ==
    part = "grid" /\ world.of = "market" =>
        /\ Mirrored(world)
        /\ \A x \in {world.supply} \ {0} :
             LET readers == ReadersOf([world EXCEPT !.demand = x, !.storage = x], x)
             IN  \A metric \in DOMAIN readers : Cardinality(readers[metric]) = 1

\* The stress of a book is coherent: two scenarios together cost what each costs alone,
\* each instrument's share adds up to the whole, the largest contributor is one, the
\* library is ranked from the worst to the best, the net exposure is within the gross, the
\* expected shortfall is no less than the value at risk, the largest share bounds the
\* concentration, and a longer equity curve has no smaller drawdown (scenario_engine,
\* risk_service).
StressIsCoherent ==
    part = "grid" /\ world.of = "stress" =>
        LET pnl(bases, variables) ==
                (CHOOSE r \in ScenarioRun([name |-> "x", bases |-> bases, variables |-> variables],
                                          world.book) : TRUE).result
            move == <<Variable("PRICE_SHOCK_PCT", world.value)>>
            whole == pnl(world.bases \o world.more, move)
            runs == StandingRuns(world.book)
            ranking == Comparison(runs).ranked
            moves == [i \in 1 .. 40 |-> ((i * world.value) % 13) - 6]
            equity == [i \in 1 .. 6 |-> 50 + ((i * world.value) % 11)]
            book == Summary(world.book, moves, equity)
        IN  /\ whole.pnl = pnl(world.bases, <<>>).pnl + pnl(world.more, move).pnl
            /\ whole.pnl = FoldFunction(+, 0, whole.strategies)
            /\ whole.margin >= 0
            /\ whole.largest = "n/a" <=> whole.margin = 0
            /\ \A i \in 1 .. Len(ranking) - 1 : ranking[i].result.pnl <= ranking[i + 1].result.pnl
            /\ ToBag(ranking) = ToBag(runs)
            /\ Absolute(book.net) <= book.gross
            /\ book.shortfall >= book.var
            /\ book.hhi <= book.largest
            /\ \A n \in 1 .. 5 : MaxDrawdown(SubSeq(equity, 1, n)) <= book.drawdown

\* An answer depends on nothing but what the permission of its topic is about: whatever
\* the words route a question to, a change of any other part of the desk leaves the answer
\* as it was; it names a source if it says anything, and the records that it cites exist;
\* but for the comparison of all scenarios, what depends on the book is the portfolio's
\* ("a question that reads portfolio positions/P&L requires portfolio.view",
\* chat_agent._TOOL_PERMISSIONS and ask).
AnswersKeepToTheirPermission ==
    part = "grid" /\ world.of = "question" =>
        LET q == Question(world.words, {20}, {}, {}, {})
            permission == ToolPermission(Route(q))
            here == Answer(q, Desk(1))
        IN  /\ \A f \in DOMAIN Desk(1) :
                 Answer(q, [Desk(1) EXCEPT ![f] = Desk(2)[f]]) # here => f \in CoveredBy(permission)
            /\ here = Nothing \/ here.cites # {}
            /\ \A cite \in here.cites :
                 cite \in Records(Desk(1))
                   \/ cite[1] \in {"source", "constant", "scenario", "summary", "replay", "log"}
            /\ Answer(q, [Desk(1) EXCEPT !.book = Desk(2).book]) # here =>
                 permission = "portfolio.view" \/ Route(q) = "scenario_comparison"
=============================================================================
