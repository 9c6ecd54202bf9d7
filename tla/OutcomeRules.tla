---------------------------- MODULE OutcomeRules ----------------------------
(***************************************************************************)
(* How the forward outcome of a recommendation is measured and classified, *)
(* and which outcomes teach a lesson (backtesting/service.py).             *)
(*                                                                         *)
(* Returns are whole percents, rounded down.  A series of bars is a        *)
(* function from the days that have a bar to the close of the day.         *)
(***************************************************************************)
EXTENDS Integers, FiniteSets, FiniteSetsExt, TLC

CONSTANTS Horizon, \* horizon_days
          None

BuyLike   == {"STRONG_BUY", "BUY_CANDIDATE"}
AvoidLike == {"REDUCE", "SELL", "NO_ACTION"}

Percent(from, to) == ((to - from) * 100) \div from

\* bars a measurement needs: half of the horizon's trading days, at least one
MinNeeded == Max({1, (5 * Horizon) \div 14})

\* _classify_label
ClassifyLabel(action, fwd, rel) ==
  CASE action \in BuyLike ->
         (IF fwd >= 3 \/ rel >= 0 THEN "WIN"
          ELSE IF fwd <= -3 \/ rel <= -5 THEN "LOSS" ELSE "NEUTRAL")
    [] action = "HOLD" ->
         (IF fwd >= 10 THEN "MISSED_UPSIDE" ELSE IF fwd <= -3 THEN "LOSS" ELSE "NEUTRAL")
    [] action \in AvoidLike ->
         (IF fwd <= -5 THEN "AVOIDED_LOSS"
          ELSE IF fwd >= 10 THEN "MISSED_UPSIDE" ELSE "NEUTRAL")
    [] OTHER -> "UNKNOWN"

Unmeasured(status) == [status |-> status, label |-> None, fwd |-> None, rel |-> None,
                       dd |-> None, last |-> None]

Insufficient == Unmeasured("INSUFFICIENT_DATA")
Pending      == Unmeasured("PENDING")

\* compute_forward_outcome: the window is Horizon days from the first bar on
ForwardOutcome(action, bars, bench) ==
  LET first  == Min(DOMAIN bars)
      window == {d \in DOMAIN bars : d <= first + Horizon}
      bw     == {d \in DOMAIN bench : d <= first + Horizon}
      fwd    == Percent(bars[first], bars[Max(window)])
      rel    == IF bw = {} THEN None ELSE fwd - Percent(bench[Min(bw)], bench[Max(bw)])
  IN  IF DOMAIN bars = {} THEN Insufficient
      ELSE IF Cardinality(window) < MinNeeded THEN Insufficient
      ELSE [status |-> "MEASURED",
            label  |-> ClassifyLabel(action, fwd, IF rel = None THEN fwd ELSE rel),
            fwd    |-> fwd,
            rel    |-> rel,
            dd     |-> Min({Percent(bars[first], bars[d]) : d \in window}),
            last   |-> Max(window)]

\* should_generate_learning_event
Warrants(row, action) ==
  /\ row.status = "MEASURED"
  /\ \/ action \in BuyLike /\ row.label = "LOSS"
     \/ action \in {"HOLD"} \cup AvoidLike /\ row.label = "MISSED_UPSIDE"
     \/ row.dd # None /\ row.dd <= -8

\* build_learning_event_fields
EventType(row, action) ==
  CASE action \in BuyLike /\ row.label = "LOSS" -> "UNDERPERFORMED_AFTER_BUY"
    [] action \in {"HOLD"} \cup AvoidLike /\ row.label = "MISSED_UPSIDE" ->
         "MISSED_UPSIDE_AFTER_HOLD"
    [] OTHER -> "STOP_LOSS_LIKE_DRAWDOWN"
=============================================================================
