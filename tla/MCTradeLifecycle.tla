-------------------------- MODULE MCTradeLifecycle --------------------------
(***************************************************************************)
(* Small instances of TradeLifecycle for TLC.                              *)
(***************************************************************************)
EXTENDS TradeLifecycle, TLC

CONSTANTS t1, t2, i1

MCHandlerSymmetry == Permutations(Handlers)

MCLoose == [max_position_size |-> 500, max_risk_per_trade |-> 500,
            max_daily_loss |-> 75, max_drawdown |-> 15]

\* Nothing lost yet already reaches this drawdown limit: HALT.
MCNoDrawdown == [MCLoose EXCEPT !.max_drawdown = 0]

MCLimitChoices == {MCLoose, MCNoDrawdown}

MCLooseOnly == {MCLoose}

MCLong == [instrument |-> i1, direction |-> "LONG", confidence |-> 60,
           entry |-> 300, stop |-> 298]
MCShort == [MCLong EXCEPT !.direction = "SHORT"]

\* One confident trade.
MCOneIdea == (t1 :> MCLong)

\* Opposite trades on one instrument; the second is below the confidence bar.
MCOpposed == (t1 :> MCLong) @@ (t2 :> [MCShort EXCEPT !.confidence = 50])
=============================================================================
