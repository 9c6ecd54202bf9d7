-------------------------- MODULE MCTradingProfile --------------------------
(* Histories over three times, at one of which two executions may have been. *)
EXTENDS TradingProfile, TLC

FourPlaces == 1..4
ThreeTimes == 1 :> 1 @@ 2 :> 3 @@ 3 :> 3 @@ 4 :> 8
=============================================================================
