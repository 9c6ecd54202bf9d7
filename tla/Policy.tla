------------------------------- MODULE Policy -------------------------------
(***************************************************************************)
(* The deterministic decision rules: from a score to an action, from an    *)
(* action through the risk gates, from a decision to a position size.      *)
(*                                                                         *)
(* Scores are 0..100, confidences, qualities and weights are percentages.  *)
(* The strategy configuration (strategy_versions.scoring_config_json, or   *)
(* the default of runner.py) is the constant Strategy.                     *)
(***************************************************************************)
EXTENDS Integers

CONSTANT Strategy   \* scoring configuration in force

Rank == [NO_ACTION |-> 0, WATCHLIST |-> 1, SELL |-> 2, REDUCE |-> 3,
         HOLD |-> 4, BUY_CANDIDATE |-> 5, STRONG_BUY |-> 6]

Actions == DOMAIN Rank

Buys    == {"STRONG_BUY", "BUY_CANDIDATE"}
Reduces == {"REDUCE", "SELL"}

ASSUME StrategyTyped ==
  Strategy \in [strong_buy: Nat, buy_candidate: Nat, hold: Nat, reduce: Nat,
                min_quality: Nat, min_quality_strong: Nat, min_confidence: Nat,
                min_fundamentals: Nat, max_weight: Nat,
                low_fundamentals: Actions, missing_news: Actions,
                missing_portfolio: Actions]

ScoreToAction(score, has_position) ==
  IF score >= Strategy.strong_buy         THEN "STRONG_BUY"
  ELSE IF score >= Strategy.buy_candidate THEN "BUY_CANDIDATE"
  ELSE IF score >= Strategy.hold          THEN "HOLD"
  ELSE IF score >= Strategy.reduce        THEN "REDUCE"
  ELSE IF has_position                    THEN "SELL"
  ELSE "NO_ACTION"

-----------------------------------------------------------------------------
(* The seven gates.  i is what they look at: data_quality, fundamentals,   *)
(* confidence, news_missing, portfolio_missing, weight.                    *)

\* A gate that puts a fixed action in the place of a forbidden one.
Replace(a, forbidden, low, by) == IF low /\ a \in forbidden THEN by ELSE a

\* A gate with a configured cap, which counts only if it is weaker.
Cap(a, forbidden, low, cap) ==
  IF low /\ a \in forbidden /\ Rank[cap] < Rank[a] THEN cap ELSE a

\* mutation: the overweight gate forgets to look at the action
ApplyPolicyOverweight(a, i) ==
  IF i.weight > Strategy.max_weight THEN "HOLD" ELSE a

\* mutation: the confidence gate is dropped
ApplyPolicyUnsure(a, i) ==
  LET g1 == Replace(a, Buys, i.data_quality < Strategy.min_quality, "WATCHLIST")
      g2 == Cap(g1, Buys, i.fundamentals < Strategy.min_fundamentals, Strategy.low_fundamentals)
  IN  Replace(g2, Buys, i.weight > Strategy.max_weight, "HOLD")

ApplyPolicy(a, i) ==
  LET g1 == Replace(a, Buys, i.data_quality < Strategy.min_quality, "WATCHLIST")
      g2 == Cap(g1, Buys, i.fundamentals < Strategy.min_fundamentals, Strategy.low_fundamentals)
      g3 == Replace(g2, Buys, i.confidence < Strategy.min_confidence, "WATCHLIST")
      g4 == Replace(g3, {"STRONG_BUY"}, i.data_quality < Strategy.min_quality_strong,
                    "BUY_CANDIDATE")
      g5 == Cap(g4, {"STRONG_BUY"}, i.news_missing, Strategy.missing_news)
      g6 == Cap(g5, {"STRONG_BUY"}, i.portfolio_missing, Strategy.missing_portfolio)
  IN  Replace(g6, Buys, i.weight > Strategy.max_weight, "HOLD")

\* personalized_recommendation: nothing to hold or to reduce without a position
WithoutPosition(a, has_position) ==
  IF has_position       THEN a
  ELSE IF a = "HOLD"    THEN "WATCHLIST"
  ELSE IF a = "REDUCE"  THEN "NO_ACTION"
  ELSE a

-----------------------------------------------------------------------------
(* Sizing, in hundredths of a percent. *)

MaxByRisk == [LOW |-> 500, MEDIUM |-> 800, HIGH |-> 1200]

\* mutation: the investor's own limit is ignored
PositionSizeUncapped(risk, score, confidence, limit) ==
  IF score < 70 \/ confidence < 65 THEN 0 ELSE MaxByRisk[risk]

PositionSize(risk, score, confidence, limit) ==
  LET cap == IF MaxByRisk[risk] < 100 * limit THEN MaxByRisk[risk] ELSE 100 * limit
  IN  IF score < 70 \/ confidence < 65 THEN 0
      ELSE IF confidence >= 85 THEN cap
      ELSE IF confidence >= 75 THEN (3 * cap) \div 4
      ELSE cap \div 2

Trade(action, weight, target, limit) ==
  IF action \in Buys /\ target > 100 * weight THEN "BUY"
  ELSE IF action \in Reduces /\ weight > limit /\ limit > 0 THEN "TRIM"
  ELSE "NONE"
=============================================================================
