--------------------------- MODULE TradingProfile ---------------------------
(***************************************************************************)
(* The trading profile of an account: executions, imported or entered by   *)
(* hand in any order, are sorted by time, matched first in first out and   *)
(* summarised.                                                             *)
(*                                                                         *)
(* Executions of the same time, which may be no more than a date, come in  *)
(* the order in which the database returns them.  So an execution has a    *)
(* place in the order read, and the place has a time.  Prices and          *)
(* quantities are integers, ratios are compared by multiplying out.        *)
(***************************************************************************)
EXTENDS Integers, Sequences, FiniteSets, SequencesExt, FiniteSetsExt

CONSTANTS Symbols, Quantities, Prices,
          Places,         \* in the order executions are read in
          Time,           \* executed_at of what is read there
          MaxExecutions,  \* bound
          Horizon         \* executions before it are older than months * 31 days

ASSUME HistoryConstants == /\ IsFiniteSet(Symbols)
                           /\ Places \subseteq Int /\ Time \in [Places -> Int]
                           /\ \A x, y \in Places : x < y => Time[x] <= Time[y]
                           /\ Quantities \subseteq Nat \ {0} /\ Prices \subseteq Nat \ {0}
                           /\ MaxExecutions \in Nat /\ Horizon \in Int

Executions == [at : Places, symbol : Symbols, side : {"BUY", "SELL"},
               qty : Quantities, price : Prices]

VARIABLE history   \* ibkr_executions and manual_trades

InitHistory == history = {}

\* an import or a manual trade
Record(ex) == /\ Cardinality(history) < MaxExecutions
              /\ \A other \in history : other.at # ex.at
              /\ history' = history \cup {ex}

\* Nothing orders the executions of one time: they may be read the other way
\* round the next time.
Reread(x, y) == /\ Time[x] = Time[y]
                /\ history' = {[ex EXCEPT !.at = CASE @ = x -> y [] @ = y -> x [] OTHER -> @] :
                                  ex \in history}

NextHistory == \/ \E ex \in Executions : Record(ex)
               \/ \E x, y \in Places : Reread(x, y)

HistorySpec == InitHistory /\ [][NextHistory]_history

-----------------------------------------------------------------------------
(* load_all_executions *)

Since(t) == {ex \in history : Time[ex.at] >= t}

\* mutation: newest first
Newest(E) == CHOOSE ex \in E : \A other \in E : ex.at >= other.at

\* what sorted(executions) goes on with when E is left
Oldest(E) == CHOOSE ex \in E : \A other \in E : ex.at <= other.at

-----------------------------------------------------------------------------
(* _fifo_match: m has the executions its loop has not come to, the one it is *)
(* at and what remains of it to sell, the lots of each symbol and the pairs. *)

Least(x, y) == IF x < y THEN x ELSE y

Pair(lot, sell, qty) == [symbol |-> sell.symbol, qty |-> qty,
                         buy_at |-> lot.at, buy_price |-> lot.price,
                         sell_at |-> sell.at, sell_price |-> sell.price]

Unmatched(E) == [todo |-> E, at |-> <<>>, remaining |-> 0,
                 lots |-> [s \in Symbols |-> <<>>], pairs |-> <<>>]

\* mutation: last in, first out
TakeLifo(m) ==
  LET ex == Oldest(m.todo)  buy == ex.side = "BUY" IN
    [m EXCEPT !.todo = @ \ {ex}, !.at = ex, !.remaining = IF buy THEN 0 ELSE ex.qty,
              !.lots[ex.symbol] = IF buy THEN <<ex>> \o @ ELSE @]

\* the next execution of the loop; what remained of a sale is forgotten
Take(m) ==
  LET ex == Oldest(m.todo)  buy == ex.side = "BUY" IN
    [m EXCEPT !.todo = @ \ {ex}, !.at = ex, !.remaining = IF buy THEN 0 ELSE ex.qty,
              !.lots[ex.symbol] = IF buy THEN Append(@, ex) ELSE @]

\* the condition of the inner loop
Selling(m) == m.remaining > 0 /\ m.lots[m.at.symbol] # <<>>

\* and its body: what remains of the sale takes what it can of the first lot
Sell(m) ==
  LET lot == Head(m.lots[m.at.symbol])
      matched == Least(m.remaining, lot.qty)
  IN [m EXCEPT !.remaining = @ - matched,
               !.pairs = Append(@, Pair(lot, m.at, matched)),
               !.lots[m.at.symbol] = IF matched = lot.qty THEN Tail(@)
                                     ELSE [@ EXCEPT ![1] = [lot EXCEPT !.qty = @ - matched]]]

Loop(m) == IF Selling(m) THEN Sell(m) ELSE IF m.todo # {} THEN Take(m) ELSE m

\* Every round of a loop takes an execution, empties a lot or ends a sale.
Rounds(E) == 2 * Cardinality(E)

FifoMatch(E) ==
  LET match[n \in 0..Rounds(E)] == IF n = 0 THEN Unmatched(E) ELSE Loop(match[n - 1])
  IN match[Rounds(E)]

Pairs(E) == FifoMatch(E).pairs

Quantity(lots) == SumFunction([i \in DOMAIN lots |-> lots[i].qty])

OpenQty(E, s) == Quantity(FifoMatch(E).lots[s])

-----------------------------------------------------------------------------
(* metrics *)

Gain(p) == (p.sell_price - p.buy_price) * p.qty

Wins(p) == p.sell_price > p.buy_price

Summary(E) ==
  LET P == Pairs(E)
      Winners == {i \in DOMAIN P : Wins(P[i])}
      Losers == DOMAIN P \ Winners
      Days(I) == SumFunction([i \in I |-> Time[P[i].sell_at] - Time[P[i].buy_at]])
      Gross(I) == SumFunction([i \in I |-> Gain(P[i])])
  IN [completed |-> Len(P),
      winners |-> Cardinality(Winners), losers |-> Cardinality(Losers),
      gross_wins |-> Gross(Winners), gross_losses |-> 0 - Gross(Losers),
      winner_days |-> Days(Winners), loser_days |-> Days(Losers)]

Of(E, s) == {ex \in E : ex.symbol = s}

Volume(E, s) == SumFunction([ex \in Of(E, s) |-> ex.qty * ex.price])

\* _disposition_effect_score > 0.30, with averages multiplied out
Disposition(m) ==
  /\ m.winners > 0 /\ m.losers > 0 /\ m.loser_days > 0
  /\ 10 * (m.loser_days * m.winners - m.winner_days * m.losers) > 3 * m.loser_days * m.winners

\* mutation: without losses the profit factor is 0
NegativeExpectancyAtOnce(m) == m.completed > 0 /\ (m.gross_losses = 0 \/ m.gross_wins < m.gross_losses)

NegativeExpectancy(m) == m.gross_losses # 0 /\ m.gross_wins < m.gross_losses

\* the sum of squared shares > 0.50
Concentrated(E) == LET volume == SumFunction([s \in Symbols |-> Volume(E, s)]) IN
  /\ volume > 0
  /\ 2 * SumFunction([s \in Symbols |-> Volume(E, s) * Volume(E, s)]) > volume * volume

\* _detect_flags
Flags(E) == LET m == Summary(E) IN
  {f \in {"LOW_WIN_RATE", "DISPOSITION_EFFECT", "HIGH_CONCENTRATION", "NEGATIVE_EXPECTANCY"} :
     \/ f = "LOW_WIN_RATE" /\ m.completed > 0 /\ 10 * m.winners < 4 * m.completed
     \/ f = "DISPOSITION_EFFECT" /\ Disposition(m)
     \/ f = "HIGH_CONCENTRATION" /\ Concentrated(E)
     \/ f = "NEGATIVE_EXPECTANCY" /\ NegativeExpectancy(m)}

\* _per_symbol_stats: its keys
Reported(E) == {Pairs(E)[i].symbol : i \in DOMAIN Pairs(E)}

-----------------------------------------------------------------------------
(* Properties *)

HistoryTyped ==
  /\ history \subseteq Executions
  /\ \A i \in DOMAIN Pairs(history) :
       LET p == Pairs(history)[i] IN p.qty > 0 /\ p.buy_at < p.sell_at
  /\ \A s \in Symbols : OpenQty(history, s) \in Nat
  /\ Reported(history) \subseteq Symbols

Side(E, side) == {ex \in E : ex.side = side}
SharesOf(E) == SumFunction([ex \in E |-> ex.qty])

\* What of the pairs is about executions at the places T.
MatchedAt(E, T) == LET ps == Pairs(E) IN
  SumFunction([i \in {j \in DOMAIN ps : {ps[j].buy_at, ps[j].sell_at} \cap T # {}} |-> ps[i].qty])
MatchedOf(E, s) == LET ps == Pairs(E) IN
  SumFunction([i \in {j \in DOMAIN ps : ps[j].symbol = s} |-> ps[i].qty])

\* What the account holds when sales beyond it are ignored: the most it bought
\* more than it sold since any time, or since any place of the order read.
Net(E) == SharesOf(Side(E, "BUY")) - SharesOf(Side(E, "SELL"))
Held(E) == Max({0} \cup {Net({ex \in E : Time[ex.at] >= Time[t]}) : t \in Places})
HeldAsRead(E) == Max({0} \cup {Net({ex \in E : ex.at >= t}) : t \in Places})

\* No purchase has the time of a sale.
Untied(E) == \A x, y \in E : Time[x.at] = Time[y.at] => x.side = y.side

\* Every share bought is sold in one pair or open, what is open is what the
\* account holds, going by the order read where that is all there is to go by,
\* and no execution is in pairs with more shares than it has.
SharesConserved ==
  /\ \A s \in Symbols :
       /\ SharesOf(Side(Of(history, s), "BUY")) = MatchedOf(history, s) + OpenQty(history, s)
       /\ OpenQty(history, s) = HeldAsRead(Of(history, s))
       /\ Untied(Of(history, s)) => OpenQty(history, s) = Held(Of(history, s))
  /\ \A ex \in history : MatchedAt(history, {ex.at}) <= ex.qty

\* First in, first out: shares bought later are sold only when all of the
\* symbol bought before are, and sales are served in their order.
FirstInFirstOut == LET ps == Pairs(history) IN
  \A i, j \in DOMAIN ps : i < j =>
    /\ ps[i].sell_at <= ps[j].sell_at
    /\ ps[i].symbol = ps[j].symbol => ps[i].buy_at <= ps[j].buy_at

\* Sales are matched with the shares they sold.
SalesMatched == SharesConserved /\ FirstInFirstOut

\* A newer execution never changes the trades there are, whatever order
\* executions are imported in otherwise, as long as those of one time are read
\* in the order they were.
NewExecutionsAppend == [][\A ex \in history' \ history :
    (\A old \in history : Time[old.at] < Time[ex.at])
       => IsPrefix(Pairs(history), Pairs(history'))]_history

\* When an account sold exactly what it bought, in order, the trades' gains add
\* up to the money it made, and NEGATIVE_EXPECTANCY says that it lost.
Closed(s) == /\ OpenQty(history, s) = 0
             /\ SharesOf(Side(Of(history, s), "BUY")) = SharesOf(Side(Of(history, s), "SELL"))
Money(E) == SumFunction([ex \in E |-> IF ex.side = "SELL" THEN ex.qty * ex.price
                                      ELSE 0 - ex.qty * ex.price])
GainsAreMoney == (\A s \in Symbols : Closed(s)) =>
  LET m == Summary(history) IN
    /\ m.gross_wins - m.gross_losses = Money(history)
    /\ ("NEGATIVE_EXPECTANCY" \in Flags(history)) = (Money(history) < 0)

\* "No trade history found for {symbol}"
TradedIsReported == \A s \in Symbols : Of(history, s) # {} => s \in Reported(history)

\* open_qty_by_symbol is what the account holds, also where a purchase has the
\* time of a sale.
OpenIsHeld == \A s \in Symbols : OpenQty(history, s) = Held(Of(history, s))

\* The same executions make the same trades.
TradesRepeat == [][Cardinality(history') = Cardinality(history) =>
                     Len(Pairs(history')) = Len(Pairs(history))]_history

\* "Match BUY->SELL pairs via FIFO": the trades of the months looked at are
\* trades of the account.
WindowKeepsTrades ==
  LET all == Pairs(history)  recent == Pairs(Since(Horizon)) IN
    \A i \in DOMAIN recent : \E j \in DOMAIN all :
      all[j].buy_at = recent[i].buy_at /\ all[j].sell_at = recent[i].sell_at
=============================================================================
