------------------------------ MODULE RiskRules ------------------------------
(***************************************************************************)
(* The Risk Governor's rule chain (services/risk/risk_service/governor.py) *)
(* as pure operators.  A context is a record holding the facts the caller  *)
(* resolved before it asked for a verdict; a rule either passes or fails   *)
(* with a verdict of its own; the first rule that fails decides.           *)
(*                                                                         *)
(* Prices and confidences are integers (cents, percent): the rules only    *)
(* compare, subtract and multiply them.                                    *)
(***************************************************************************)
EXTENDS Integers, Sequences

Verdicts == {"ALLOW", "BLOCK", "BLOCK_NEW_RISK", "HALT", "REJECT",
             "REQUIRE_HUMAN"}

\* RULE_CHAIN, in its order.
RuleChain ==
    << "trading_halted", "data_freshness", "critical_provider",
       "position_size", "daily_loss", "drawdown", "strategy_approved",
       "model_version_approved", "confidence_threshold",
       "abnormal_volatility" >>

Positions == 1 .. 10            \* DOMAIN RuleChain

Magnitude(x) == IF x < 0 THEN -x ELSE x

-----------------------------------------------------------------------------
(* The two halves of _rule_position_size.                                  *)

RiskPerTrade(ctx) == Magnitude(ctx.entry - ctx.stop) * ctx.size

Oversized(ctx) ==
    \/ ctx.size > ctx.limits.max_position_size
    \/ RiskPerTrade(ctx) > ctx.limits.max_risk_per_trade

(* An empty set of approved model versions switches that rule off.         *)
UnapprovedModel(ctx) ==
    /\ ctx.approved_models # {}
    /\ ctx.model \notin ctx.approved_models

\* Whether the rule in position n of the chain fails for ctx.
Fails(n, ctx) ==
    \/ n = 1  /\ ctx.trading_halted
    \/ n = 2  /\ ~ctx.data_fresh
    \/ n = 3  /\ ~ctx.provider_up
    \/ n = 4  /\ Oversized(ctx)
    \/ n = 5  /\ ctx.daily_loss >= ctx.limits.max_daily_loss
    \/ n = 6  /\ ctx.drawdown >= ctx.limits.max_drawdown
    \/ n = 7  /\ ~ctx.strategy_approved
    \/ n = 8  /\ UnapprovedModel(ctx)
    \/ n = 9  /\ ctx.confidence < ctx.min_confidence
    \/ n = 10 /\ Magnitude(ctx.zscore) > ctx.max_zscore

\* The verdict a failing rule returns; only the provider rule's is configured.
FailureVerdict(n, ctx) ==
    << "HALT", "BLOCK", ctx.on_provider_down, "BLOCK", "BLOCK_NEW_RISK",
       "HALT", "BLOCK", "BLOCK", "REJECT", "REQUIRE_HUMAN" >>[n]

\* n is the first rule of the chain that fails.
FirstFailure(n, ctx) ==
    /\ Fails(n, ctx)
    /\ \A m \in 1 .. (n - 1) : ~Fails(m, ctx)

AllPass(ctx) == \A n \in Positions : ~Fails(n, ctx)

\* What evaluate() returns when no rule raises.
Verdict(ctx) ==
    IF AllPass(ctx)
    THEN "ALLOW"
    ELSE FailureVerdict(CHOOSE n \in Positions : FirstFailure(n, ctx), ctx)
=============================================================================
