-------------------------- MODULE MCTradeRefinement --------------------------
(***************************************************************************)
(* The instances of MCTradeLifecycle for checking the refinement.          *)
(***************************************************************************)
EXTENDS MCTradeLifecycle, TradeRefinement
=============================================================================
