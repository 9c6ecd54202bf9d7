-------------------------- MODULE AdvisorSimulation --------------------------
(***************************************************************************)
(* run_advisor_backtest: follow the advisor's recommendations with a       *)
(* virtual portfolio, then replay the executed trades day by day for the   *)
(* equity curve.                                                           *)
(*                                                                         *)
(* The pass handles recommendations in the order they were made, and fills *)
(* each at the first price at or after its day; the curve replays the      *)
(* fills in the order of their days.  The two orders differ where a symbol *)
(* has no price for some days.                                             *)
(*                                                                         *)
(* Money and quantities are whole numbers, a division rounds down.  A      *)
(* position keeps its total cost where the code keeps the average.         *)
(***************************************************************************)
EXTENDS Integers, Sequences, FiniteSets, FiniteSetsExt, Functions

CONSTANTS Symbols,
          Days,         \* days with price bars: the window and its buffers
          Start, End,   \* the window
          Tolerance,    \* _PRICE_TOLERANCE_DAYS
          Back,         \* how old a price may be that a holding is valued at
          Tables,       \* price histories: Tables \subseteq [Symbols -> [Days -> Nat]]
          InitialCash,
          Holdings,     \* initial positions: Holdings \subseteq [Symbols -> Nat]
          MinPurchase,  \* _MIN_PURCHASE_CASH
          MaxRecs,      \* bound: recommendations considered
          NoDay

ASSUME ConstantsTyped ==
  /\ IsFiniteSet(Symbols)
  /\ Days \subseteq Nat /\ Start \in Days /\ End \in Days /\ NoDay \notin Nat
  /\ {Tolerance, Back, InitialCash, MinPurchase, MaxRecs} \subseteq Nat
  /\ Tables \subseteq [Symbols -> [Days -> Nat]]
  /\ Holdings \subseteq [Symbols -> Nat]

\* percent of equity a buy goes for
TargetWeight == [STRONG_BUY |-> 20, BUY_CANDIDATE |-> 10, BUY |-> 15]

BuyActions  == DOMAIN TargetWeight
SkipActions == {"HOLD", "WATCHLIST", "NO_ACTION"}

VARIABLES phase,    \* "seed", "pass", "curve", "done" or "rejected"
          bars,     \* bars[s][d]: the close of s on day d, 0 when there is none
          recDay,   \* the day of the last recommendation
          recs,     \* how many recommendations were considered
          cash, pos,\* _SimState of the pass: pos[s] = [qty, cost]
          trades,   \* executed trade rows, in recommendation order
          realized, \* sum of the rows' pnl
          curve,    \* _SimState of the replay: [cash, pos]
          replayed, \* indices of trades already replayed
          day       \* the day of the curve

portfolio == <<cash, pos, trades, realized>>
replay == <<curve, replayed, day>>
vars == <<phase, bars, recDay, recs, portfolio, replay>>

Flat == [s \in Symbols |-> [qty |-> 0, cost |-> 0]]

Init == /\ phase = "seed"
        /\ bars \in Tables
        /\ recDay = Start - 1 /\ recs = 0
        /\ cash = InitialCash /\ pos = Flat /\ trades = <<>> /\ realized = 0
        /\ curve = [cash |-> InitialCash, pos |-> Flat]
        /\ replayed = {} /\ day = NoDay

-----------------------------------------------------------------------------
(* Prices *)

Priced(s) == {d \in Days : bars[s][d] > 0}

\* _find_price forward: the first bar from d on, within the tolerance
FillDay(s, d) == LET D == Priced(s) \cap d..(d + Tolerance)
                 IN  IF D = {} THEN NoDay ELSE Min(D)

\* _find_price backward
LastPrice(s, d) == LET D == Priced(s) \cap (d - Back)..d
                   IN  IF D = {} THEN 0 ELSE bars[s][Max(D)]

\* Holdings are valued at their last price, s at the price of its fill.
Value(x, d, s, price) == pos[x].qty * (IF x = s THEN price ELSE LastPrice(x, d))

Equity(d, s, price) == cash + SumFunction([x \in Symbols |-> Value(x, d, s, price)])

TradingDays == UNION {Priced(s) : s \in Symbols} \cap Start..End

-----------------------------------------------------------------------------
(* Seeding *)

EntryPrice(s) == IF FillDay(s, Start) = NoDay THEN 0 ELSE bars[s][FillDay(s, Start)]

Seeded(h) == [s \in Symbols |-> [qty |-> h[s], cost |-> h[s] * EntryPrice(s)]]

Cost(h) == SumFunction([s \in Symbols |-> Seeded(h)[s].cost])

Unpriced(h) == \E s \in Symbols : h[s] > 0 /\ FillDay(s, Start) = NoDay

Seed(h) ==
  /\ phase = "seed"
  /\ ~Unpriced(h)
  /\ Cost(h) <= InitialCash
  /\ phase' = "pass"
  /\ cash' = cash - Cost(h)
  /\ pos' = Seeded(h)
  /\ curve' = [cash |-> cash - Cost(h), pos |-> Seeded(h)]
  /\ UNCHANGED <<bars, recDay, recs, trades, realized, replayed, day>>

\* ValueError: the holdings cannot be priced or cost more than there is
RejectHoldings(h) ==
  /\ phase = "seed"
  /\ Unpriced(h) \/ Cost(h) > InitialCash
  /\ phase' = "rejected"
  /\ UNCHANGED <<bars, recDay, recs, portfolio, replay>>

-----------------------------------------------------------------------------
(* The pass over the recommendations *)

\* mutation: recommendations are not sorted
ConsiderUnsorted(d) == /\ phase = "pass"
                       /\ recs < MaxRecs
                       /\ recDay' = d /\ recs' = recs + 1
                       /\ UNCHANGED <<phase, bars, replay>>

\* The next recommendation is one of day d.
Consider(d) == /\ phase = "pass"
               /\ recs < MaxRecs
               /\ d >= recDay
               /\ recDay' = d /\ recs' = recs + 1
               /\ UNCHANGED <<phase, bars, replay>>

InWindow(d) == d \in Start..End

\* made outside of the window although its run is in it
OutOfWindow(d) == Consider(d) /\ ~InWindow(d) /\ UNCHANGED portfolio

\* a SKIP row: no action, no price
Skip(s, d, action) ==
  /\ Consider(d)
  /\ InWindow(d)
  /\ action \in SkipActions \/ FillDay(s, d) = NoDay
  /\ UNCHANGED portfolio

Executes(s, d) == Consider(d) /\ InWindow(d) /\ FillDay(s, d) # NoDay

\* a row of advisor_backtest_trades
Record(type, s, d, action, qty, delta, after) ==
  trades' = Append(trades, [type |-> type, symbol |-> s, action |-> action,
                            date |-> FillDay(s, d), price |-> bars[s][FillDay(s, d)],
                            qty |-> qty, cash |-> delta, after |-> after])

\* SELL closes the position, REDUCE sells half of it.
SellShares(s, d, action, qty) ==
  LET price == bars[s][FillDay(s, d)]
      left  == pos[s].qty - qty
      kept  == (pos[s].cost * left) \div pos[s].qty
  IN  /\ cash' = cash + qty * price
      /\ realized' = realized + qty * price - (pos[s].cost - kept)
      /\ pos' = [pos EXCEPT ![s] = [qty |-> left, cost |-> kept]]
      /\ Record(action, s, d, action, qty, qty * price, left)

Sell(s, d) ==
  /\ Executes(s, d)
  /\ IF pos[s].qty > 0 THEN SellShares(s, d, "SELL", pos[s].qty) ELSE UNCHANGED portfolio

Reduce(s, d) ==
  /\ Executes(s, d)
  /\ IF pos[s].qty > 0 THEN SellShares(s, d, "REDUCE", pos[s].qty \div 2)
                       ELSE UNCHANGED portfolio

\* mutation: the holding is not deducted from the target
BuyValueFull(s, d, action) ==
  LET e == Equity(d, s, bars[s][FillDay(s, d)])
  IN  IF (TargetWeight[action] * e) \div 100 < cash THEN (TargetWeight[action] * e) \div 100
                                                    ELSE cash

\* mutation: the cash at hand is not looked at
BuyValueOnCredit(s, d, action) ==
  LET price == bars[s][FillDay(s, d)]
  IN  (TargetWeight[action] * Equity(d, s, price)) \div 100 - pos[s].qty * price

\* up to the target weight, as far as the cash goes
BuyValue(s, d, action) ==
  LET price == bars[s][FillDay(s, d)]
      room  == (TargetWeight[action] * Equity(d, s, price)) \div 100 - pos[s].qty * price
  IN  IF room < cash THEN room ELSE cash

\* within 0.1 percent of the target
AtTarget(s, d, action) ==
  LET price == bars[s][FillDay(s, d)]
      e     == Equity(d, s, price)
  IN  e > 0 /\ 1000 * pos[s].qty * price >= (10 * TargetWeight[action] - 1) * e

Buy(s, d, action) ==
  LET price == bars[s][FillDay(s, d)]
      qty   == BuyValue(s, d, action) \div price
  IN  /\ Executes(s, d)
      /\ IF AtTarget(s, d, action) \/ BuyValue(s, d, action) < MinPurchase
         THEN UNCHANGED portfolio
         ELSE /\ cash' = cash - qty * price
              /\ pos' = [pos EXCEPT ![s] = [qty |-> @.qty + qty, cost |-> @.cost + qty * price]]
              /\ Record("BUY", s, d, action, qty, -(qty * price), pos[s].qty + qty)
              /\ UNCHANGED realized

-----------------------------------------------------------------------------
(* The equity curve *)

NextDay(d) == LET D == {x \in TradingDays : x > d} IN IF D = {} THEN NoDay ELSE Min(D)

\* No more recommendations; without a trading day there is no curve.
StartCurve ==
  /\ phase = "pass"
  /\ day' = IF TradingDays = {} THEN NoDay ELSE Min(TradingDays)
  /\ phase' = IF TradingDays = {} THEN "done" ELSE "curve"
  /\ UNCHANGED <<bars, recDay, recs, portfolio, curve, replayed>>

Due == {i \in DOMAIN trades \ replayed : trades[i].date <= day}

\* mutation: fills of one day replayed backwards
FirstDueReversed ==
  CHOOSE i \in Due : \A j \in Due :
    \/ trades[i].date < trades[j].date
    \/ trades[i].date = trades[j].date /\ i >= j

\* executed_seq is sorted by day, then by recommendation order
FirstDue ==
  CHOOSE i \in Due : \A j \in Due :
    \/ trades[i].date < trades[j].date
    \/ trades[i].date = trades[j].date /\ i <= j

\* What a trade makes of the position p of its symbol.  The cost of what REDUCE
\* leaves is the pass's own.
After(p, t) ==
  CASE t.type = "BUY"    -> [qty |-> p.qty + t.qty, cost |-> p.cost + t.qty * t.price]
    [] t.type = "SELL"   -> [qty |-> 0, cost |-> 0]
    [] t.type = "REDUCE" -> [qty |-> t.after,
                             cost |-> IF p.qty = 0 THEN 0 ELSE (p.cost * t.after) \div p.qty]

Replayed(c, t) == [cash |-> c.cash + t.cash, pos |-> [c.pos EXCEPT ![t.symbol] = After(@, t)]]

ReplayTrade ==
  /\ phase = "curve"
  /\ Due # {}
  /\ curve' = Replayed(curve, trades[FirstDue])
  /\ replayed' = replayed \cup {FirstDue}
  /\ UNCHANGED <<phase, bars, recDay, recs, portfolio, day>>

\* An equity point is recorded; fills after the window stay out.
EndOfDay ==
  /\ phase = "curve"
  /\ Due = {}
  /\ day' = NextDay(day)
  /\ phase' = IF NextDay(day) = NoDay THEN "done" ELSE "curve"
  /\ UNCHANGED <<bars, recDay, recs, portfolio, curve, replayed>>

-----------------------------------------------------------------------------
Follow(s, d) == \/ \E action \in SkipActions \cup BuyActions \cup {"SELL", "REDUCE"} :
                     Skip(s, d, action)
                \/ Sell(s, d)
                \/ Reduce(s, d)
                \/ \E action \in BuyActions : Buy(s, d, action)

Next == \/ \E h \in Holdings : Seed(h) \/ RejectHoldings(h)
        \/ \E d \in (Start - 1)..(End + 1) : \/ OutOfWindow(d)
                                       \/ \E s \in Symbols : Follow(s, d)
        \/ StartCurve \/ ReplayTrade \/ EndOfDay

Spec == Init /\ [][Next]_vars
-----------------------------------------------------------------------------
(* Properties *)

Positions == [Symbols -> [qty: Nat, cost: Nat]]

TradeRows == [type: {"BUY", "SELL", "REDUCE"}, symbol: Symbols,
              action: BuyActions \cup {"SELL", "REDUCE"}, date: Days,
              price: Nat \ {0}, qty: Nat, cash: Int, after: Nat]

\* Type invariant.
TypeOK ==
  /\ phase \in {"seed", "pass", "curve", "done", "rejected"}
  /\ bars \in Tables
  /\ recDay \in Int /\ recs \in 0..MaxRecs
  /\ cash \in Nat /\ pos \in Positions /\ trades \in Seq(TradeRows) /\ realized \in Int
  /\ curve \in [cash: Int, pos: Positions]
  /\ replayed \subseteq DOMAIN trades
  /\ day \in Days \cup {NoDay}

\* Every unit of money is accounted for, and none is spent that is not there:
\* what is left, what the holdings cost and what the sales have gained add up to
\* what the simulation began with.
Accounted ==
  /\ cash >= 0
  /\ cash + SumFunction([s \in Symbols |-> pos[s].cost]) = InitialCash + realized

\* A buy never takes a position above its target weight of the equity it was
\* decided on (the fill price for the symbol, last prices for the rest).
BuysWithinTarget ==
  [][Len(trades') > Len(trades) /\ trades'[Len(trades')].type = "BUY" =>
       LET t == trades'[Len(trades')]
       IN  100 * pos'[t.symbol].qty * t.price
             <= TargetWeight[t.action] * Equity(recDay', t.symbol, t.price)]_vars

\* Fills of one symbol happen in the order of its recommendations, whatever
\* days have no price: the fill of the earlier one is not the later one.
FillsInOrder ==
  \A i, j \in DOMAIN trades :
    i < j /\ trades[i].symbol = trades[j].symbol => trades[i].date <= trades[j].date

\* "same cash_delta, quantities, and position_after for REDUCE so MTM equity
\* matches that pass" (_replay_apply_executed_trade): once everything is
\* replayed the curve holds the portfolio of the pass, although it applied the
\* trades in another order.
CurveMirrorsPass ==
  phase \in {"curve", "done"} /\ replayed = DOMAIN trades =>
    curve = [cash |-> cash, pos |-> pos]

\* "replay executed trades chronologically per date (no lookahead)": the curve
\* never spends money of a sale that is still to come.
NoLookahead == curve.cash >= 0
=============================================================================
