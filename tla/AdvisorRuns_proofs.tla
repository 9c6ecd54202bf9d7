------------------------- MODULE AdvisorRuns_proofs -------------------------
(* Proofs about AdvisorSimulation and BacktestAnalysis, for every set of     *)
(* symbols, history of prices and number of recommendations and requests.    *)
EXTENDS AdvisorRuns, SetLemmas, TLAPS

-----------------------------------------------------------------------------
(* Prices *)

Histories == bars \in [Symbols -> [Days -> Nat]]

\* A fill is on a day with a price, from its day on and within the tolerance,
\* the first such day.
LEMMA Fill ==
  ASSUME Histories, NEW s \in Symbols, NEW d \in Int, FillDay(s, d) # NoDay
  PROVE  /\ FillDay(s, d) \in Days /\ FillDay(s, d) \in Nat
         /\ bars[s][FillDay(s, d)] \in Nat \ {0}
         /\ d <= FillDay(s, d) /\ FillDay(s, d) <= d + Tolerance
         /\ \A x \in Days : bars[s][x] > 0 /\ d <= x /\ x <= d + Tolerance => FillDay(s, d) <= x
<1> DEFINE D == Priced(s) \cap d..(d + Tolerance)
<1>1. D \in SUBSET Nat /\ Tolerance \in Int
  BY ConstantsTyped DEF Priced
<1>2. D # {} /\ FillDay(s, d) = Min(D)
  BY DEF FillDay
<1>3. Min(D) \in D /\ \A y \in D : Min(D) <= y
  <2> HIDE DEF D
  <2> QED BY <1>1, <1>2, MinIsLeast
<1> DEFINE m == Min(D)
<1>4. m \in Priced(s) /\ m \in d..(d + Tolerance)
  BY <1>3
<1>5. \A x \in Priced(s) : x \in d..(d + Tolerance) => m <= x
  BY <1>3
<1>6. Priced(s) \subseteq Days /\ \A x \in Days : x \in Nat /\ bars[s][x] \in Nat
  BY ConstantsTyped DEF Priced, Histories
<1>7. \A x : x \in Priced(s) <=> x \in Days /\ bars[s][x] > 0
  BY DEF Priced
<1> HIDE DEF m
<1>8. m = FillDay(s, d)
  BY <1>2 DEF m
<1> QED BY <1>1, <1>4, <1>5, <1>6, <1>7, <1>8

\* The later the day, the later the fill.
LEMMA FillsMonotone ==
  ASSUME Histories, NEW s \in Symbols, NEW d \in Int, NEW e \in Int, d <= e,
         FillDay(s, d) # NoDay, FillDay(s, e) # NoDay
  PROVE  FillDay(s, d) <= FillDay(s, e)
<1> DEFINE a == FillDay(s, d)
           b == FillDay(s, e)
<1>1. a \in Nat /\ a <= d + Tolerance /\ \A x \in Days : bars[s][x] > 0 /\ d <= x /\ x <= d + Tolerance => a <= x
  BY Fill
<1>2. b \in Days /\ b \in Nat /\ bars[s][b] \in Nat \ {0} /\ e <= b
  BY Fill
<1>3. Tolerance \in Nat
  BY ConstantsTyped
<1> SUFFICES a <= b
  OBVIOUS
<1> HIDE DEF a, b
<1>4. bars[s][b] > 0 /\ d <= b
  BY <1>2
<1>5. CASE b <= d + Tolerance
  BY <1>1, <1>2, <1>4, <1>5
<1>6. CASE ~ (b <= d + Tolerance)
  BY <1>1, <1>2, <1>3, <1>6
<1> QED BY <1>5, <1>6

\* A last price is a price, or 0.
LEMMA LastPriceTyped ==
  ASSUME Histories, NEW s \in Symbols, NEW d \in Int
  PROVE  LastPrice(s, d) \in Nat
<1> DEFINE D == Priced(s) \cap (d - Back)..d
<1>1. D \subseteq Days /\ D \subseteq Nat
  BY ConstantsTyped DEF Priced
<1>2. CASE D = {}
  BY <1>2 DEF LastPrice
<1>3. CASE D # {}
  <2>1. d \in Nat /\ D \in SUBSET (0..d)
    BY <1>1, <1>3
  <2> HIDE DEF D
  <2>2. PICK x \in D : \A y \in D : y <= x
    BY <1>3, <2>1, Highest
  <2>3. \A y \in D : x >= y
    BY <1>1, <2>2
  <2>4. Max(D) \in D
    BY <2>3 DEF Max
  <2>5. Max(D) \in Days
    BY <1>1, <2>4
  <2>6. bars[s][Max(D)] \in Nat
    BY <2>5 DEF Histories
  <2> QED BY <1>3, <2>6 DEF LastPrice, D
<1> QED BY <1>2, <1>3

\* The type invariant, one variable at a time.
LEMMA SimulationTypes ==
  ASSUME TypeOK
  PROVE  /\ Histories
         /\ phase \in {"seed", "pass", "curve", "done", "rejected"}
         /\ bars \in Tables
         /\ recDay \in Int /\ recs \in 0..MaxRecs
         /\ cash \in Nat /\ pos \in Positions /\ trades \in Seq(TradeRows) /\ realized \in Int
         /\ curve \in [cash: Int, pos: Positions]
         /\ replayed \subseteq DOMAIN trades
         /\ day \in Days \cup {NoDay}
<1>1. bars \in Tables
  BY Zenon DEF TypeOK
<1>2. Histories
  BY <1>1, ConstantsTyped DEF Histories
<1> QED BY <1>2, Zenon DEF TypeOK

\* A position has a quantity and a cost, and can be replaced.
LEMMA PositionTyped ==
  ASSUME NEW p \in Positions, NEW s \in Symbols
  PROVE  /\ p[s].qty \in Nat /\ p[s].cost \in Nat /\ p[s] = [qty |-> p[s].qty, cost |-> p[s].cost]
         /\ \A q, c \in Nat :
              LET r == [p EXCEPT ![s] = [qty |-> q, cost |-> c]]
              IN  /\ r \in Positions
                  /\ r[s].qty = q /\ r[s].cost = c /\ r[s] = [qty |-> q, cost |-> c]
                  /\ \A x \in Symbols \ {s} : r[x] = p[x]
BY DEF Positions

\* A division rounds down.
LEMMA Division ==
  ASSUME NEW v \in Int, NEW p \in Nat \ {0}
  PROVE  /\ v \div p \in Int
         /\ p * (v \div p) <= v
         /\ v >= 0 => v \div p \in Nat
OBVIOUS

\* Products.
LEMMA Products ==
  ASSUME NEW a \in Nat, NEW b \in Nat
  PROVE  a * b \in Nat
OBVIOUS

\* What of a cost is left with a part of the shares is no negative amount.
LEMMA ShareOfCost ==
  ASSUME NEW c \in Nat, NEW left \in Nat, NEW q \in Nat \ {0}
  PROVE  (c * left) \div q \in Nat
<1> DEFINE v == c * left
<1>1. v \in Nat
  BY Products
<1> HIDE DEF v
<1>2. v \div q \in Nat
  BY <1>1, Division
<1> QED BY <1>2 DEF v

\* The value of a portfolio is a number.
LEMMA EquityTyped ==
  ASSUME TypeOK, NEW s \in Symbols, NEW d \in Int, NEW price \in Nat
  PROVE  Equity(d, s, price) \in Int
<1> DEFINE f == [x \in Symbols |-> Value(x, d, s, price)]
<1>1. Histories /\ cash \in Int /\ pos \in Positions
  BY SimulationTypes
<1>2. ASSUME NEW x \in Symbols PROVE f[x] \in Int
  <2> DEFINE a == pos[x].qty
             b == IF x = s THEN price ELSE LastPrice(x, d)
  <2>1. a \in Nat
    BY <1>1, PositionTyped
  <2>2. b \in Nat
    BY <1>1, LastPriceTyped
  <2>3. f[x] = a * b
    BY DEF Value
  <2> HIDE DEF a, b
  <2>4. a * b \in Nat
    BY <2>1, <2>2, Products
  <2> QED BY <2>3, <2>4
<1>3. DOMAIN f = Symbols
  OBVIOUS
<1> HIDE DEF f
<1>4. SumOver(f, Symbols) \in Int
  BY <1>2, SumTyped, ConstantsTyped
<1>5. SumFunction(f) = SumOver(f, Symbols)
  BY <1>3 DEF SumFunction, SumOver
<1>6. Equity(d, s, price) = cash + SumFunction(f)
  BY DEF Equity, f
<1> QED BY <1>1, <1>4, <1>5, <1>6

-----------------------------------------------------------------------------
(* The pass: what a recommendation that is followed does *)

\* A recommendation of s on day d is executed with the trade row t, which
\* leaves q shares that cost c.
Trade(s, d, t, q, c) ==
  /\ Consider(d)
  /\ FillDay(s, d) # NoDay
  /\ t \in TradeRows /\ t.symbol = s /\ t.date = FillDay(s, d)
  /\ trades' = Append(trades, t)
  /\ q \in Nat /\ c \in Nat
  /\ pos' = [pos EXCEPT ![s] = [qty |-> q, cost |-> c]]
  /\ cash' = cash + t.cash /\ cash' \in Nat
  /\ realized' = realized + t.cash + c - pos[s].cost
  /\ After(pos[s], t) = [qty |-> q, cost |-> c]
  /\ t.type = "BUY" => 100 * (q * t.price) <= TargetWeight[t.action] * Equity(d, s, t.price)

Executed(s, d) == \E t \in TradeRows : \E q, c \in Nat : Trade(s, d, t, q, c)

\* or nothing is done about it
Passed(d) == Consider(d) /\ UNCHANGED portfolio

Row(type, s, d, action, qty, delta, after) ==
  [type |-> type, symbol |-> s, action |-> action,
   date |-> FillDay(s, d), price |-> bars[s][FillDay(s, d)],
   qty |-> qty, cash |-> delta, after |-> after]

\* A row of a trade that is filled has its type.
LEMMA RowTyped ==
  ASSUME Histories, NEW s \in Symbols, NEW d \in Int, FillDay(s, d) # NoDay,
         NEW type \in {"BUY", "SELL", "REDUCE"},
         NEW action \in BuyActions \cup {"SELL", "REDUCE"},
         NEW qty \in Nat, NEW delta \in Int, NEW after \in Nat
  PROVE  LET t == Row(type, s, d, action, qty, delta, after)
         IN  /\ t \in TradeRows
             /\ t.type = type /\ t.symbol = s /\ t.action = action /\ t.date = FillDay(s, d)
             /\ t.price = bars[s][FillDay(s, d)] /\ t.qty = qty /\ t.cash = delta
             /\ t.after = after
<1>1. FillDay(s, d) \in Days /\ bars[s][FillDay(s, d)] \in Nat \ {0}
  BY Fill
<1> QED BY <1>1 DEF Row, TradeRows

\* After a sale, and after a purchase.
LEMMA AfterIs ==
  ASSUME NEW p, NEW t
  PROVE  /\ t.type = "BUY" => After(p, t) = [qty |-> p.qty + t.qty, cost |-> p.cost + t.qty * t.price]
         /\ t.type = "SELL" => After(p, t) = [qty |-> 0, cost |-> 0]
         /\ t.type = "REDUCE" => After(p, t) = [qty |-> t.after,
                             cost |-> IF p.qty = 0 THEN 0 ELSE (p.cost * t.after) \div p.qty]
BY DEF After

\* Shares are sold: all of them, or half.
LEMMA SaleTrades ==
  ASSUME TypeOK, NEW s \in Symbols, NEW d \in Int, Executes(s, d), pos[s].qty > 0,
         NEW qty \in Nat, qty <= pos[s].qty, NEW type, SellShares(s, d, type, qty),
         \/ type = "SELL" /\ qty = pos[s].qty
         \/ type = "REDUCE"
  PROVE  Executed(s, d)
<1> DEFINE price == bars[s][FillDay(s, d)]
           left  == pos[s].qty - qty
           kept  == (pos[s].cost * left) \div pos[s].qty
           t     == Row(type, s, d, type, qty, qty * price, left)
<1>1. Histories /\ pos \in Positions /\ cash \in Nat /\ realized \in Int
  BY SimulationTypes
<1>2. pos[s].qty \in Nat \ {0} /\ pos[s].cost \in Nat
  <2>1. pos[s].qty \in Nat /\ pos[s].cost \in Nat
    BY <1>1, PositionTyped
  <2> QED BY <2>1
<1>3. left \in Nat
  BY <1>2
<1>4. kept \in Nat
  <2> HIDE DEF left
  <2> QED BY <1>2, <1>3, ShareOfCost
<1>5. FillDay(s, d) # NoDay /\ Consider(d)
  BY DEF Executes
<1>6. price \in Nat \ {0}
  BY <1>1, <1>5, Fill
<1>7. qty * price \in Nat
  <2> HIDE DEF price
  <2> QED BY <1>6, Products
<1>8. type \in {"BUY", "SELL", "REDUCE"} /\ type \in BuyActions \cup {"SELL", "REDUCE"}
  OBVIOUS
<1>9. /\ t \in TradeRows
      /\ t.type = type /\ t.symbol = s /\ t.date = FillDay(s, d)
      /\ t.price = price /\ t.qty = qty /\ t.cash = qty * price /\ t.after = left
  <2> DEFINE x == qty * price
             l == left
  <2>1. x \in Int /\ l \in Nat
    BY <1>3, <1>7
  <2> HIDE DEF x, l
  <2>2. LET r == Row(type, s, d, type, qty, x, l)
        IN  /\ r \in TradeRows
            /\ r.type = type /\ r.symbol = s /\ r.date = FillDay(s, d)
            /\ r.price = bars[s][FillDay(s, d)] /\ r.qty = qty /\ r.cash = x /\ r.after = l
    BY <1>1, <1>5, <1>8, <2>1, RowTyped
  <2> QED BY <2>2 DEF x, l
<1>10. /\ trades' = Append(trades, t)
       /\ pos' = [pos EXCEPT ![s] = [qty |-> left, cost |-> kept]]
       /\ cash' = cash + qty * price
       /\ realized' = realized + qty * price - (pos[s].cost - kept)
  BY DEF SellShares, Record, Row
<1>11. After(pos[s], t) = [qty |-> left, cost |-> kept]
  <2>1. CASE type = "REDUCE"
    <3>1. After(pos[s], t) = [qty |-> t.after,
                 cost |-> IF pos[s].qty = 0 THEN 0 ELSE (pos[s].cost * t.after) \div pos[s].qty]
      BY <1>9, <2>1, AfterIs
    <3> HIDE DEF t
    <3> QED BY <1>2, <1>9, <3>1
  <2>2. CASE type = "SELL"
    <3>1. left = 0
      BY <1>2, <2>2
    <3>2. kept = 0
      <4> HIDE DEF left
      <4>1. pos[s].cost * left = 0
        BY <1>2, <3>1
      <4> QED BY <1>2, <4>1
    <3>3. After(pos[s], t) = [qty |-> 0, cost |-> 0]
      BY <1>9, <2>2, AfterIs
    <3> QED BY <3>1, <3>2, <3>3
  <2> QED BY <2>1, <2>2
<1> HIDE DEF t, left, kept, price
<1>12. Trade(s, d, t, left, kept)
  <2>1. cash' = cash + t.cash /\ cash' \in Nat
    BY <1>1, <1>7, <1>9, <1>10
  <2>2. realized' = realized + t.cash + kept - pos[s].cost
    <3> DEFINE x == qty * price
    <3>1. x \in Nat /\ realized' = realized + x - (pos[s].cost - kept) /\ t.cash = x
      BY <1>7, <1>9, <1>10
    <3> HIDE DEF x
    <3> QED BY <1>1, <1>2, <1>4, <3>1
  <2>3. t.type # "BUY"
    BY <1>9
  <2> QED BY <1>3, <1>4, <1>5, <1>9, <1>10, <1>11, <2>1, <2>2, <2>3 DEF Trade
<1> QED BY <1>3, <1>4, <1>9, <1>12 DEF Executed

\* A target weight is a percentage.
LEMMA WeightTyped ==
  ASSUME NEW action \in BuyActions
  PROVE  TargetWeight[action] \in Nat
BY DEF BuyActions, TargetWeight

\* Shares are bought for what the target weight leaves room for.
LEMMA PurchaseTrades ==
  ASSUME TypeOK, NEW s \in Symbols, NEW d \in Int, NEW action \in BuyActions, Buy(s, d, action)
  PROVE  Executed(s, d) \/ Passed(d)
<1>0. CASE AtTarget(s, d, action) \/ BuyValue(s, d, action) < MinPurchase
  <2>1. UNCHANGED portfolio /\ Consider(d)
    BY <1>0 DEF Buy, Executes
  <2> QED BY <2>1 DEF Passed
<1> SUFFICES ASSUME ~ (AtTarget(s, d, action) \/ BuyValue(s, d, action) < MinPurchase)
             PROVE  Executed(s, d)
  BY <1>0
<1> DEFINE price == bars[s][FillDay(s, d)]
           e     == Equity(d, s, price)
           held  == pos[s].qty * price
           room  == (TargetWeight[action] * e) \div 100 - held
           v     == BuyValue(s, d, action)
           qty   == v \div price
           paid  == qty * price
           q     == pos[s].qty + qty
           c     == pos[s].cost + paid
           t     == Row("BUY", s, d, action, qty, -(paid), q)
<1>1. Histories /\ pos \in Positions /\ cash \in Nat /\ realized \in Int
  BY SimulationTypes
<1>2. pos[s].qty \in Nat /\ pos[s].cost \in Nat
  BY <1>1, PositionTyped
<1>3. FillDay(s, d) # NoDay /\ Consider(d)
  BY DEF Executes, Buy
<1>4. price \in Nat \ {0}
  BY <1>1, <1>3, Fill
<1>5. /\ cash' = cash - paid
      /\ pos' = [pos EXCEPT ![s] = [qty |-> @.qty + qty, cost |-> @.cost + paid]]
      /\ trades' = Append(trades, t)
      /\ UNCHANGED realized
  BY DEF Buy, Record, Row
<1>6. pos' = [pos EXCEPT ![s] = [qty |-> q, cost |-> c]]
  BY <1>1, <1>5 DEF Positions
<1>7. v = IF room < cash THEN room ELSE cash
  BY DEF BuyValue
<1>8. e \in Int
  <2> HIDE DEF price
  <2> QED BY <1>4, EquityTyped DEF e
<1>9. TargetWeight[action] \in Nat
  BY WeightTyped
<1>10. held \in Nat
  <2> HIDE DEF price
  <2> QED BY <1>2, <1>4, Products
<1>11. ~ (v < MinPurchase) /\ MinPurchase \in Nat
  BY ConstantsTyped
<1> DEFINE goal == TargetWeight[action] * e
<1>12. goal \in Int
  <2> HIDE DEF e
  <2> QED BY <1>8, <1>9
<1>13. goal \div 100 \in Int /\ 100 * (goal \div 100) <= goal
  <2> HIDE DEF goal
  <2> QED BY <1>12, Division
<1>14. v \in Nat /\ v <= cash /\ v <= goal \div 100 - held
  <2>1. room = goal \div 100 - held
    OBVIOUS
  <2> HIDE DEF room, goal, held, v
  <2> QED BY <1>1, <1>7, <1>10, <1>11, <1>13, <2>1
<1>15. qty \in Nat /\ paid <= v
  <2> HIDE DEF v, price
  <2>1. v \div price \in Nat /\ price * (v \div price) <= v
    BY <1>4, <1>14, Division
  <2>2. paid = price * (v \div price)
    BY <1>4, <2>1
  <2> QED BY <2>1, <2>2
<1>16. paid \in Nat
  <2> HIDE DEF qty, price
  <2> QED BY <1>4, <1>15, Products
<1>17. q * price = held + paid
  <2> HIDE DEF qty, price
  <2> QED BY <1>2, <1>4, <1>15
<1>18. /\ t \in TradeRows
       /\ t.type = "BUY" /\ t.symbol = s /\ t.action = action /\ t.date = FillDay(s, d)
       /\ t.price = price /\ t.qty = qty /\ t.cash = -(paid) /\ t.after = q
  <2> DEFINE x == -(paid)
             n == qty
             y == q
             a == action
  <2>1. x \in Int /\ n \in Nat /\ y \in Nat /\ a \in BuyActions \cup {"SELL", "REDUCE"}
    <3> HIDE DEF paid, qty
    <3> QED BY <1>2, <1>15, <1>16
  <2>2. t = Row("BUY", s, d, a, n, x, y)
    OBVIOUS
  <2> HIDE DEF x, n, y, a
  <2>3. LET r == Row("BUY", s, d, a, n, x, y)
        IN  /\ r \in TradeRows
            /\ r.type = "BUY" /\ r.symbol = s /\ r.action = a /\ r.date = FillDay(s, d)
            /\ r.price = bars[s][FillDay(s, d)] /\ r.qty = n /\ r.cash = x /\ r.after = y
    BY <1>1, <1>3, <2>1, RowTyped
  <2> HIDE DEF t
  <2> QED BY <2>2, <2>3 DEF x, n, y, a
<1>19. After(pos[s], t) = [qty |-> q, cost |-> c]
  <2> HIDE DEF t
  <2> QED BY <1>18, AfterIs
<1> HIDE DEF t
<1>20. 100 * (q * t.price) <= TargetWeight[t.action] * Equity(d, s, t.price)
  <2>1. q * t.price = held + paid
    BY <1>17, <1>18
  <2>2. TargetWeight[t.action] * Equity(d, s, t.price) = goal
    BY <1>18
  <2> HIDE DEF q, held, paid, goal, v
  <2> QED BY <1>10, <1>12, <1>13, <1>14, <1>15, <1>16, <2>1, <2>2
<1>21. q \in Nat /\ c \in Nat /\ cash' \in Nat /\ cash' = cash + t.cash
  <2>1. cash' = cash - paid /\ t.cash = -(paid)
    BY <1>5, <1>18
  <2> HIDE DEF paid, qty, v
  <2>2. q \in Nat /\ c \in Nat
    BY <1>2, <1>15, <1>16
  <2>3. cash' \in Nat /\ cash' = cash + t.cash
    BY <1>1, <1>14, <1>15, <1>16, <2>1
  <2> QED BY <2>2, <2>3
<1>22. realized' = realized + t.cash + c - pos[s].cost
  <2> HIDE DEF paid
  <2> QED BY <1>1, <1>2, <1>5, <1>16, <1>18
<1> HIDE DEF q, c, price
<1>23. Trade(s, d, t, q, c)
  BY <1>3, <1>5, <1>6, <1>18, <1>19, <1>20, <1>21, <1>22 DEF Trade
<1> QED BY <1>18, <1>21, <1>23 DEF Executed

\* Whatever is recommended is executed or passed over.
LEMMA FollowIs ==
  ASSUME TypeOK, NEW s \in Symbols, NEW d \in Int, Follow(s, d)
  PROVE  Executed(s, d) \/ Passed(d)
<1>0. pos[s].qty \in Nat
  BY SimulationTypes, PositionTyped
<1>1. ASSUME NEW action, Skip(s, d, action) PROVE Passed(d)
  BY <1>1 DEF Skip, Passed
<1>2. CASE Sell(s, d)
  <2>1. CASE pos[s].qty > 0
    <3> DEFINE n == pos[s].qty
    <3>1. SellShares(s, d, "SELL", n) /\ Executes(s, d) /\ n \in Nat /\ n <= pos[s].qty
      BY <1>0, <1>2, <2>1 DEF Sell
    <3> HIDE DEF n
    <3> QED BY <2>1, <3>1, SaleTrades DEF n
  <2>2. CASE ~ (pos[s].qty > 0)
    BY <1>2, <2>2 DEF Sell, Executes, Passed
  <2> QED BY <2>1, <2>2
<1>3. CASE Reduce(s, d)
  <2>1. CASE pos[s].qty > 0
    <3> DEFINE n == pos[s].qty \div 2
    <3>1. SellShares(s, d, "REDUCE", n) /\ Executes(s, d) /\ n \in Nat /\ n <= pos[s].qty
      BY <1>0, <1>3, <2>1 DEF Reduce
    <3> HIDE DEF n
    <3> QED BY <2>1, <3>1, SaleTrades
  <2>2. CASE ~ (pos[s].qty > 0)
    BY <1>3, <2>2 DEF Reduce, Executes, Passed
  <2> QED BY <2>1, <2>2
<1>4. ASSUME NEW action \in BuyActions, Buy(s, d, action)
      PROVE  Executed(s, d) \/ Passed(d)
  BY <1>4, PurchaseTrades
<1> QED BY <1>1, <1>2, <1>3, <1>4 DEF Follow

\* The steps of the simulation.
LEMMA NextIs ==
  ASSUME TypeOK, Next
  PROVE  \/ \E h \in Holdings : Seed(h) \/ RejectHoldings(h)
         \/ \E d \in Int : Passed(d)
         \/ \E d \in Int, s \in Symbols : Executed(s, d)
         \/ StartCurve \/ ReplayTrade \/ EndOfDay
<1>1. ASSUME NEW d \in (Start - 1)..(End + 1), OutOfWindow(d) PROVE Passed(d) /\ d \in Int
  BY <1>1 DEF OutOfWindow, Passed
<1>2. ASSUME NEW d \in (Start - 1)..(End + 1), NEW s \in Symbols, Follow(s, d)
      PROVE  d \in Int /\ (Executed(s, d) \/ Passed(d))
  BY <1>2, FollowIs
<1>3. CASE \E d \in (Start - 1)..(End + 1) : OutOfWindow(d) \/ \E s \in Symbols : Follow(s, d)
  BY <1>1, <1>2, <1>3
<1> QED BY <1>3 DEF Next

-----------------------------------------------------------------------------
(* The invariant of the simulation *)

Filled == \A i \in DOMAIN trades : \E d \in Int :
            /\ d <= recDay
            /\ trades[i].date = FillDay(trades[i].symbol, d)
            /\ trades[i].date # NoDay

\* Nothing is executed or replayed before the holdings are seeded; the curve
\* has a day.
Phases == /\ phase \in {"seed", "rejected"} =>
               cash = InitialCash /\ pos = Flat /\ trades = <<>> /\ realized = 0
          /\ phase \in {"seed", "pass", "rejected"} => replayed = {}
          /\ phase = "curve" => day \in Days

CostOf(p) == SumOver([s \in Symbols |-> p[s].cost], Symbols)

Conserved == cash + CostOf(pos) = InitialCash + realized

Amounts(ts) == [i \in DOMAIN ts |-> ts[i].cash]

\* what the curve's cash lacks is in the trades that are still to be replayed
ToCome == cash = curve.cash + SumOver(Amounts(trades), DOMAIN trades \ replayed)

\* held[n]: the position of s after n trades of the pass.  It changes with the
\* trades of s only, and the curve has the one after those it replayed.
Mirrored(s, held) ==
  /\ \A i \in DOMAIN trades :
       held[i] = IF trades[i].symbol = s THEN After(held[i - 1], trades[i]) ELSE held[i - 1]
  /\ held[Len(trades)] = pos[s]
  /\ \A k, m \in 0..Len(trades) :
       k <= m /\ (\A i \in (k + 1)..m : trades[i].symbol # s) => held[k] = held[m]
  /\ \E k \in 0..Len(trades) :
       /\ \A i \in DOMAIN trades : trades[i].symbol = s => (i \in replayed <=> i <= k)
       /\ curve.pos[s] = held[k]

Mirror == \A s \in Symbols : \E held : Mirrored(s, held)

SimInv == TypeOK /\ Phases /\ Filled /\ FillsInOrder /\ Conserved /\ ToCome /\ Mirror

\* The sum the property speaks of.
LEMMA CostIs ==
  ASSUME NEW p
  PROVE  SumFunction([s \in Symbols |-> p[s].cost]) = CostOf(p)
<1> DEFINE f == [s \in Symbols |-> p[s].cost]
<1>1. DOMAIN f = Symbols
  OBVIOUS
<1> HIDE DEF f
<1>2. SumFunction(f) = SumOver(f, Symbols)
  BY <1>1 DEF SumFunction, SumOver
<1> QED BY <1>2 DEF CostOf, f

\* Costs add up to a number that is not negative.
LEMMA CostTyped ==
  ASSUME NEW p \in Positions
  PROVE  CostOf(p) \in Nat
<1> DEFINE f == [s \in Symbols |-> p[s].cost]
<1>1. \A s \in Symbols : f[s] \in Int /\ f[s] >= 0
  BY DEF Positions
<1> HIDE DEF f
<1>2. SumOver(f, Symbols) \in Int /\ SumOver(f, Symbols) >= 0
  BY <1>1, SumTyped, ConstantsTyped
<1> QED BY <1>2 DEF CostOf, f

\* A position of another cost changes the sum by the difference.
LEMMA CostMoved ==
  ASSUME NEW p \in Positions, NEW s \in Symbols, NEW q \in Nat, NEW c \in Nat
  PROVE  CostOf([p EXCEPT ![s] = [qty |-> q, cost |-> c]]) = CostOf(p) - p[s].cost + c
<1> DEFINE r == [p EXCEPT ![s] = [qty |-> q, cost |-> c]]
           f == [x \in Symbols |-> p[x].cost]
           g == [x \in Symbols |-> r[x].cost]
<1>1. r \in Positions /\ r[s].cost = c /\ \A x \in Symbols \ {s} : r[x] = p[x]
  BY DEF Positions
<1> HIDE DEF r
<1>2. \A x \in Symbols : f[x] \in Int /\ g[x] \in Int
  BY <1>1 DEF Positions
<1>3. \A x \in Symbols : x # s => f[x] = g[x]
  BY <1>1
<1>4. f[s] = p[s].cost /\ g[s] = c
  BY <1>1
<1> HIDE DEF f, g
<1>5. IsFiniteSet(Symbols)
  BY ConstantsTyped
<1>6. SumOver(g, Symbols) = SumOver(f, Symbols) - f[s] + g[s]
  BY <1>2, <1>3, <1>5, SumMoved
<1> QED BY <1>4, <1>6 DEF CostOf, f, g, r

\* What a trade leaves is typed, and the list is longer by it.
LEMMA TradeTypes ==
  ASSUME TypeOK, NEW s \in Symbols, NEW d \in Int, NEW t, NEW q, NEW c, Trade(s, d, t, q, c)
  PROVE  /\ TypeOK'
         /\ Len(trades) \in Nat /\ DOMAIN trades = 1..Len(trades)
         /\ Len(trades') = Len(trades) + 1
         /\ DOMAIN trades' = DOMAIN trades \cup {Len(trades) + 1}
         /\ \A i \in DOMAIN trades : trades'[i] = trades[i]
         /\ trades'[Len(trades) + 1] = t
<1>1. /\ phase \in {"seed", "pass", "curve", "done", "rejected"}
      /\ bars \in Tables
      /\ recDay \in Int /\ recs \in 0..MaxRecs
      /\ cash \in Nat /\ pos \in Positions /\ trades \in Seq(TradeRows) /\ realized \in Int
      /\ curve \in [cash: Int, pos: Positions]
      /\ replayed \subseteq DOMAIN trades
      /\ day \in Days \cup {NoDay}
  BY SimulationTypes
<1>2. /\ recDay' = d /\ recs < MaxRecs /\ recs' = recs + 1
      /\ phase' = phase /\ bars' = bars /\ curve' = curve /\ replayed' = replayed /\ day' = day
  BY DEF Trade, Consider, replay
<1>3. recs' \in 0..MaxRecs
  BY <1>1, <1>2, ConstantsTyped
<1>4. t \in TradeRows /\ trades' = Append(trades, t) /\ cash' \in Nat
  BY DEF Trade
<1>5. /\ trades' \in Seq(TradeRows)
      /\ Len(trades) \in Nat /\ DOMAIN trades = 1..Len(trades)
      /\ Len(trades') = Len(trades) + 1
      /\ DOMAIN trades' = DOMAIN trades \cup {Len(trades) + 1}
      /\ \A i \in DOMAIN trades : trades'[i] = trades[i]
      /\ trades'[Len(trades) + 1] = t
  <2> HIDE DEF TradeRows
  <2> QED BY <1>1, <1>4
<1>6. pos' \in Positions
  BY <1>1, PositionTyped DEF Trade
<1>7. realized' \in Int
  <2>1. t.cash \in Int
    BY <1>4 DEF TradeRows
  <2>2. pos[s].cost \in Nat
    BY <1>1, PositionTyped
  <2>3. realized' = realized + t.cash + c - pos[s].cost /\ c \in Nat
    BY DEF Trade
  <2> QED BY <1>1, <2>1, <2>2, <2>3
<1>8. replayed' \subseteq DOMAIN trades'
  BY <1>1, <1>2, <1>5
<1>9. TypeOK'
  BY <1>1, <1>2, <1>3, <1>4, <1>5, <1>6, <1>7, <1>8, Zenon DEF TypeOK
<1> QED BY <1>5, <1>9

\* Every row of the list is a trade row.
LEMMA RowsTyped ==
  ASSUME TypeOK, NEW i \in DOMAIN trades
  PROVE  trades[i] \in TradeRows /\ trades[i].symbol \in Symbols /\ trades[i].cash \in Int
<1>1. trades[i] \in TradeRows
  <2>1. trades \in Seq(TradeRows)
    BY SimulationTypes
  <2> HIDE DEF TradeRows
  <2> QED BY <2>1
<1> QED BY <1>1 DEF TradeRows

\* While the prices stay, fills stay what they are.
LEMMA FilledKept ==
  ASSUME bars' = bars,
         \A i \in DOMAIN trades' : \E d \in Int : /\ d <= recDay'
                                                  /\ trades'[i].date = FillDay(trades'[i].symbol, d)
                                                  /\ trades'[i].date # NoDay
  PROVE  Filled'
BY DEF Filled, FillDay, Priced

\* A trade is filled no earlier than the trades of its symbol before it.
LEMMA TradeFilled ==
  ASSUME TypeOK, Filled, FillsInOrder,
         NEW s \in Symbols, NEW d \in Int, NEW t, NEW q, NEW c, Trade(s, d, t, q, c)
  PROVE  Filled' /\ FillsInOrder'
<1> DEFINE n == Len(trades) + 1
<1>1. /\ Histories /\ recDay \in Int /\ d >= recDay /\ recDay' = d /\ bars' = bars
      /\ trades \in Seq(TradeRows)
  BY SimulationTypes DEF Trade, Consider
<1>2. /\ n \in Nat /\ DOMAIN trades = 1..(n - 1) /\ DOMAIN trades' = DOMAIN trades \cup {n}
      /\ \A i \in DOMAIN trades : trades'[i] = trades[i]
      /\ trades'[n] = t
  <2>1. /\ Len(trades) \in Nat /\ DOMAIN trades = 1..Len(trades)
        /\ DOMAIN trades' = DOMAIN trades \cup {n}
    BY TradeTypes
  <2>2. \A i \in DOMAIN trades : trades'[i] = trades[i]
    BY TradeTypes
  <2>3. trades'[n] = t
    BY TradeTypes
  <2> QED BY <2>1, <2>2, <2>3
<1>3. t.symbol = s /\ t.date = FillDay(s, d) /\ FillDay(s, d) # NoDay
  BY DEF Trade
<1>4. \A i \in DOMAIN trades : trades[i].symbol \in Symbols
  BY RowsTyped
<1>5. \A i \in DOMAIN trades : \E e \in Int :
        e <= recDay /\ trades[i].date = FillDay(trades[i].symbol, e) /\ trades[i].date # NoDay
  BY DEF Filled
<1> HIDE DEF n
<1>6. \A i \in DOMAIN trades' : \E e \in Int :
        e <= recDay' /\ trades'[i].date = FillDay(trades'[i].symbol, e) /\ trades'[i].date # NoDay
  <2>1. ASSUME NEW i \in DOMAIN trades
        PROVE  \E e \in Int : e <= recDay' /\ trades'[i].date = FillDay(trades'[i].symbol, e) /\ trades'[i].date # NoDay
    <3>1. PICK e \in Int : e <= recDay /\ trades[i].date = FillDay(trades[i].symbol, e) /\ trades[i].date # NoDay
      BY <1>5
    <3>2. e <= recDay' /\ trades'[i] = trades[i]
      BY <1>1, <1>2, <3>1
    <3> QED BY <3>1, <3>2
  <2>2. d <= recDay' /\ trades'[n].date = FillDay(trades'[n].symbol, d) /\ trades'[n].date # NoDay
    BY <1>1, <1>2, <1>3
  <2> QED BY <1>2, <2>1, <2>2
<1>7. ASSUME NEW i \in DOMAIN trades, trades[i].symbol = s
      PROVE  trades[i].date <= t.date
  <2>1. PICK e \in Int : e <= recDay /\ trades[i].date = FillDay(s, e) /\ trades[i].date # NoDay
    BY <1>5, <1>7
  <2>2. e <= d
    BY <1>1, <2>1
  <2> QED BY <1>1, <1>3, <2>1, <2>2, FillsMonotone
<1>8. FillsInOrder'
  <2> SUFFICES ASSUME NEW i \in DOMAIN trades', NEW j \in DOMAIN trades', i < j,
                      trades'[i].symbol = trades'[j].symbol
               PROVE  trades'[i].date <= trades'[j].date
    BY DEF FillsInOrder
  <2>1. i \in DOMAIN trades
    BY <1>2
  <2>2. CASE j = n
    <3>1. trades'[i] = trades[i] /\ trades'[j] = t
      BY <1>2, <2>1, <2>2
    <3> QED BY <1>3, <1>7, <2>1, <3>1
  <2>3. CASE j # n
    <3>1. j \in DOMAIN trades /\ trades'[i] = trades[i] /\ trades'[j] = trades[j]
      BY <1>2, <2>1, <2>3
    <3> QED BY <2>1, <3>1 DEF FillsInOrder
  <2> QED BY <2>2, <2>3
<1> QED BY <1>1, <1>6, <1>8, FilledKept

\* A trade takes from the cash what it adds to the cost, or to the gains.
LEMMA TradeConserves ==
  ASSUME TypeOK, Conserved, NEW s \in Symbols, NEW d \in Int, NEW t, NEW q, NEW c, Trade(s, d, t, q, c)
  PROVE  Conserved'
<1>1. pos \in Positions /\ cash \in Nat /\ realized \in Int /\ q \in Nat /\ c \in Nat /\ t \in TradeRows
  BY SimulationTypes DEF Trade
<1>2. pos' = [pos EXCEPT ![s] = [qty |-> q, cost |-> c]]
  BY DEF Trade
<1>3. CostOf(pos') = CostOf(pos) - pos[s].cost + c
  BY <1>1, <1>2, CostMoved
<1>4. CostOf(pos) \in Nat /\ pos[s].cost \in Nat /\ t.cash \in Int
  <2>1. t.cash \in Int
    BY <1>1 DEF TradeRows
  <2>2. pos[s].cost \in Nat
    BY <1>1, PositionTyped
  <2> QED BY <1>1, <2>1, <2>2, CostTyped
<1>5. cash' = cash + t.cash /\ realized' = realized + t.cash + c - pos[s].cost
  BY DEF Trade
<1>6. cash + CostOf(pos) = InitialCash + realized /\ InitialCash \in Nat
  BY ConstantsTyped DEF Conserved
<1>7. cash' + CostOf(pos') = InitialCash + realized'
  BY <1>1, <1>3, <1>4, <1>5, <1>6
<1> QED BY <1>7 DEF Conserved, CostOf

\* Of a trade that was executed, the curve's cash still lacks the amount.
LEMMA TradeToCome ==
  ASSUME TypeOK, ToCome, NEW s \in Symbols, NEW d \in Int, NEW t, NEW q, NEW c, Trade(s, d, t, q, c)
  PROVE  ToCome'
<1> DEFINE n == Len(trades) + 1
           left == DOMAIN trades \ replayed
           f == Amounts(trades)
           g == Amounts(trades')
<1>1. /\ trades \in Seq(TradeRows) /\ replayed \subseteq DOMAIN trades /\ cash \in Nat
      /\ curve \in [cash: Int, pos: Positions]
  BY SimulationTypes
<1>2. n \in Nat /\ DOMAIN trades = 1..(n - 1) /\ DOMAIN trades' = DOMAIN trades \cup {n}
  <2>1. /\ Len(trades) \in Nat /\ DOMAIN trades = 1..Len(trades)
        /\ DOMAIN trades' = DOMAIN trades \cup {n}
    BY TradeTypes
  <2> QED BY <2>1
<1>3. \A i \in DOMAIN trades : trades'[i] = trades[i]
  BY TradeTypes
<1>4. trades'[n] = t
  BY TradeTypes
<1>5. t \in TradeRows /\ t.cash \in Int /\ cash' = cash + t.cash
  BY DEF Trade, TradeRows
<1>6. curve' = curve /\ replayed' = replayed
  BY DEF Trade, Consider, replay
<1>7. \A i \in DOMAIN trades : trades[i].cash \in Int
  BY RowsTyped
<1>8. IsFiniteSet(left) /\ left \subseteq DOMAIN trades
  <2>1. IsFiniteSet(1..(n - 1))
    BY <1>2, FS_Interval
  <2> QED BY <1>2, <2>1, FS_Subset
<1> HIDE DEF n
<1>9. n \notin left /\ DOMAIN trades' \ replayed' = left \cup {n}
  BY <1>1, <1>2, <1>6
<1>10. \A i \in left : f[i] = g[i] /\ f[i] \in Int /\ g[i] \in Int
  BY <1>2, <1>3, <1>7, <1>8 DEF Amounts
<1>11. g[n] = t.cash
  BY <1>2, <1>4 DEF Amounts
<1> HIDE DEF left, f, g
<1>12. SumOver(f, left) = SumOver(g, left)
  BY <1>8, <1>10, SumSame
<1>13. \A i \in left \cup {n} : g[i] \in Int
  BY <1>5, <1>10, <1>11
<1>14. SumOver(g, left \cup {n}) = SumOver(g, left) + g[n]
  BY <1>8, <1>9, <1>13, SumWith
<1>15. SumOver(f, left) \in Int
  BY <1>8, <1>10, SumTyped
<1>16. cash = curve.cash + SumOver(f, left) /\ curve.cash \in Int
  BY <1>1 DEF ToCome, f, left
<1>17. cash' = curve'.cash + SumOver(g, DOMAIN trades' \ replayed')
  <2> DEFINE a == SumOver(f, left)
             b == curve.cash
             x == t.cash
  <2>1. SumOver(g, DOMAIN trades' \ replayed') = a + x
    BY <1>9, <1>11, <1>12, <1>14
  <2>2. curve'.cash = b /\ cash' = cash + x /\ cash = b + a
    BY <1>5, <1>6, <1>16
  <2>3. a \in Int /\ b \in Int /\ x \in Int
    BY <1>5, <1>15, <1>16
  <2> HIDE DEF a, b, x
  <2> QED BY <2>1, <2>2, <2>3
<1> QED BY <1>17 DEF ToCome, g, Amounts, SumOver

\* A trade is one position more that the curve will come to.
LEMMA TradeMirrors ==
  ASSUME TypeOK, Mirror, NEW s \in Symbols, NEW d \in Int, NEW t, NEW q, NEW c, Trade(s, d, t, q, c)
  PROVE  Mirror'
<1> DEFINE l == Len(trades)
           n == l + 1
<1>1. /\ trades \in Seq(TradeRows) /\ replayed \subseteq DOMAIN trades /\ pos \in Positions
  BY SimulationTypes
<1>2. /\ l \in Nat /\ DOMAIN trades = 1..l /\ DOMAIN trades' = DOMAIN trades \cup {n} /\ Len(trades') = n
  BY TradeTypes
<1>3. \A i \in DOMAIN trades : trades'[i] = trades[i]
  BY TradeTypes
<1>4. trades'[n] = t
  BY TradeTypes
<1>5. curve' = curve /\ replayed' = replayed
  BY DEF Trade, Consider, replay
<1>6. t.symbol = s /\ pos'[s] = After(pos[s], t) /\ \A x \in Symbols \ {s} : pos'[x] = pos[x]
  <2>1. q \in Nat /\ c \in Nat /\ pos' = [pos EXCEPT ![s] = [qty |-> q, cost |-> c]]
    BY DEF Trade
  <2>2. t.symbol = s /\ After(pos[s], t) = [qty |-> q, cost |-> c]
    BY DEF Trade
  <2>3. pos'[s] = [qty |-> q, cost |-> c] /\ \A x \in Symbols \ {s} : pos'[x] = pos[x]
    BY <1>1, <2>1 DEF Positions
  <2> QED BY <2>2, <2>3
<1> SUFFICES ASSUME NEW x \in Symbols PROVE (\E held : Mirrored(x, held))'
  BY DEF Mirror
<1>7. PICK held : Mirrored(x, held)
  BY DEF Mirror
<1> HIDE DEF l, n
<1>0. PICK new : new = [m \in 0..n |-> IF m = n THEN pos'[x] ELSE held[m]]
  OBVIOUS
<1>8. l = Len(trades) /\ n = l + 1 /\ n \in Nat
  BY <1>2 DEF l, n
<1>9. /\ \A m \in 0..l : new[m] = held[m]
      /\ new[n] = pos'[x]
  BY <1>0, <1>2, <1>8
<1>10. \A i \in DOMAIN trades' :
         new[i] = IF trades'[i].symbol = x THEN After(new[i - 1], trades'[i]) ELSE new[i - 1]
  <2> TAKE i \in DOMAIN trades'
  <2>1. CASE i = n
    <3>1. new[i - 1] = pos[x] /\ trades'[i] = t /\ new[i] = pos'[x]
      <4>1. i - 1 = l /\ new[l] = held[l]
        BY <1>2, <1>8, <1>9, <2>1
      <4> QED BY <1>4, <1>7, <1>8, <1>9, <2>1, <4>1 DEF Mirrored
    <3>2. CASE x = s
      BY <1>6, <3>1, <3>2
    <3>3. CASE x # s
      BY <1>6, <3>1, <3>3
    <3> QED BY <3>2, <3>3
  <2>2. CASE i \in DOMAIN trades
    <3>1. trades'[i] = trades[i] /\ i \in 0..l /\ i - 1 \in 0..l
      BY <1>2, <1>3, <2>2
    <3>2. new[i] = held[i] /\ new[i - 1] = held[i - 1]
      BY <1>9, <3>1
    <3>3. held[i] = IF trades[i].symbol = x THEN After(held[i - 1], trades[i]) ELSE held[i - 1]
      BY <1>7, <2>2 DEF Mirrored
    <3> QED BY <3>1, <3>2, <3>3
  <2> QED BY <1>2, <2>1, <2>2
<1>11. ASSUME NEW k \in 0..n, NEW m \in 0..n, k <= m, \A i \in (k + 1)..m : trades'[i].symbol # x
       PROVE  new[k] = new[m]
  <2>1. CASE k = m
    BY <2>1
  <2>2. CASE k # m
    <3>1. k \in 0..l /\ k + 1 <= m /\ new[k] = held[k]
      BY <1>2, <1>8, <1>9, <2>2, <1>11
    <3>2. CASE m \in 0..l
      <4>1. \A i \in (k + 1)..m : trades[i].symbol # x
        BY <1>2, <1>3, <1>11, <3>1, <3>2
      <4>2. held[k] = held[m]
        BY <1>7, <1>8, <1>11, <3>1, <3>2, <4>1 DEF Mirrored
      <4> QED BY <1>9, <3>1, <3>2, <4>2
    <3>3. CASE m = n
      <4>1. \A i \in (k + 1)..l : trades[i].symbol # x
        BY <1>2, <1>3, <1>8, <1>11, <3>1, <3>3
      <4>2. l \in 0..l /\ k <= l
        BY <1>2, <3>1
      <4>3. held[k] = held[l]
        BY <1>7, <1>8, <3>1, <4>1, <4>2 DEF Mirrored
      <4>4. trades'[n].symbol # x
        BY <1>2, <1>8, <1>11, <3>1, <3>3
      <4>5. pos'[x] = pos[x]
        BY <1>4, <1>6, <4>4
      <4>6. held[l] = pos[x]
        BY <1>7, <1>8 DEF Mirrored
      <4> QED BY <1>9, <3>1, <3>3, <4>3, <4>5, <4>6
    <3> QED BY <1>2, <1>8, <3>2, <3>3
  <2> QED BY <2>1, <2>2
<1>12. \E k \in 0..n : /\ \A i \in DOMAIN trades' : trades'[i].symbol = x => (i \in replayed' <=> i <= k)
                       /\ curve'.pos[x] = new[k]
  <2>1. PICK k \in 0..l : /\ \A i \in DOMAIN trades : trades[i].symbol = x => (i \in replayed <=> i <= k)
                          /\ curve.pos[x] = held[k]
    BY <1>7, <1>8 DEF Mirrored
  <2>2. k \in 0..n /\ ~ (n <= k) /\ n \notin replayed
    BY <1>1, <1>2, <1>8
  <2>3. \A i \in DOMAIN trades' : trades'[i].symbol = x => (i \in replayed' <=> i <= k)
    BY <1>2, <1>3, <1>5, <2>1, <2>2
  <2> QED BY <1>5, <1>9, <2>1, <2>2, <2>3
<1>13. new[n] = pos'[x] /\ n = Len(trades')
  BY <1>2, <1>8, <1>9
<1>14. Mirrored(x, new)'
  <2>1. new[Len(trades')] = pos'[x]
    BY <1>13
  <2>2. \A k, m \in 0..Len(trades') :
          k <= m /\ (\A i \in (k + 1)..m : trades'[i].symbol # x) => new[k] = new[m]
    BY <1>11, <1>13
  <2>3. \E k \in 0..Len(trades') :
          /\ \A i \in DOMAIN trades' : trades'[i].symbol = x => (i \in replayed' <=> i <= k)
          /\ curve'.pos[x] = new[k]
    BY <1>12, <1>13
  <2> QED BY <1>10, <2>1, <2>2, <2>3 DEF Mirrored
<1> QED BY <1>14

-----------------------------------------------------------------------------
(* The curve *)

\* The trade to be replayed is the one of the earliest day, and of those of
\* that day the first.
LEMMA FirstDueIsFirst ==
  ASSUME TypeOK, Due # {}
  PROVE  /\ FirstDue \in Due
         /\ \A j \in Due : \/ trades[FirstDue].date < trades[j].date
                           \/ trades[FirstDue].date = trades[j].date /\ FirstDue <= j
<1>1. /\ \A i \in Due : i \in DOMAIN trades /\ i \in Nat /\ trades[i].date \in Nat
  <2>1. DOMAIN trades \subseteq Nat
    BY SimulationTypes
  <2>2. ASSUME NEW i \in DOMAIN trades PROVE trades[i].date \in Nat
    BY RowsTyped, ConstantsTyped DEF TradeRows
  <2> QED BY <2>1, <2>2 DEF Due
<1> DEFINE dates == {trades[i].date : i \in Due}
           e == Min(dates)
<1>2. e \in dates /\ \A y \in dates : e <= y
  <2>1. dates \in SUBSET Nat /\ dates # {}
    BY <1>1
  <2> HIDE DEF dates
  <2> QED BY <2>1, MinIsLeast
<1> DEFINE first == {i \in Due : trades[i].date = e}
           m == Min(first)
<1>3. m \in first /\ \A y \in first : m <= y
  <2>1. first \in SUBSET Nat /\ first # {}
    BY <1>1, <1>2
  <2> HIDE DEF first
  <2> QED BY <2>1, MinIsLeast
<1>4. \A j \in Due : e <= trades[j].date
  BY <1>2
<1> HIDE DEF e
<1>5. m \in Due /\ trades[m].date = e /\ \A j \in Due : trades[j].date = e => m <= j
  BY <1>3
<1> HIDE DEF m
<1>6. m \in Due /\ \A j \in Due : \/ trades[m].date < trades[j].date
                                  \/ trades[m].date = trades[j].date /\ m <= j
  BY <1>1, <1>4, <1>5
<1> QED BY <1>6 DEF FirstDue

\* Replaying a trade gives the curve a position, and takes the trade from those
\* that are still to come.
LEMMA ReplayTypes ==
  ASSUME TypeOK, ReplayTrade
  PROVE  /\ TypeOK'
         /\ FirstDue \in DOMAIN trades \ replayed /\ trades[FirstDue].date <= day
         /\ curve'.cash = curve.cash + trades[FirstDue].cash
         /\ \A x \in Symbols : curve'.pos[x] =
              IF x = trades[FirstDue].symbol THEN After(curve.pos[x], trades[FirstDue])
                                             ELSE curve.pos[x]
<1>1. /\ phase \in {"seed", "pass", "curve", "done", "rejected"}
      /\ bars \in Tables
      /\ recDay \in Int /\ recs \in 0..MaxRecs
      /\ cash \in Nat /\ pos \in Positions /\ trades \in Seq(TradeRows) /\ realized \in Int
      /\ curve \in [cash: Int, pos: Positions]
      /\ replayed \subseteq DOMAIN trades
      /\ day \in Days \cup {NoDay}
  BY SimulationTypes
<1>2. PICK i \in DOMAIN trades \ replayed : i = FirstDue /\ trades[i].date <= day
  BY FirstDueIsFirst DEF ReplayTrade, Due
<1>3. PICK t \in TradeRows : t = trades[i]
  BY <1>2, RowsTyped
<1> DEFINE s == t.symbol
           p == curve.pos
           a == After(p[s], t)
<1>4. curve' = [cash |-> curve.cash + t.cash, pos |-> [p EXCEPT ![s] = a]]
  BY <1>2, <1>3 DEF ReplayTrade, Replayed
<1>5. p \in Positions /\ curve.cash \in Int /\ s \in Symbols /\ t.cash \in Int
  BY <1>1 DEF TradeRows
<1>6. p[s].qty \in Nat /\ p[s].cost \in Nat
  <2> HIDE DEF s, p
  <2> QED BY <1>5, PositionTyped
<1>7. t.qty \in Nat /\ t.price \in Nat /\ t.after \in Nat /\ t.type \in {"BUY", "SELL", "REDUCE"}
  BY DEF TradeRows
<1>8. \E q, c \in Nat : a = [qty |-> q, cost |-> c]
  <2> DEFINE r == p[s]
  <2>1. r.qty \in Nat /\ r.cost \in Nat
    BY <1>6
  <2> HIDE DEF r
  <2>2. CASE t.type = "BUY"
    <3>1. After(r, t) = [qty |-> r.qty + t.qty, cost |-> r.cost + t.qty * t.price]
      BY <2>2, AfterIs
    <3>2. t.qty * t.price \in Nat
      BY <1>7, Products
    <3>3. r.qty + t.qty \in Nat /\ r.cost + t.qty * t.price \in Nat
      BY <1>7, <2>1, <3>2
    <3> QED BY <3>1, <3>3 DEF r
  <2>3. CASE t.type = "SELL"
    BY <2>3, AfterIs DEF r
  <2>4. CASE t.type = "REDUCE"
    <3> DEFINE c == IF r.qty = 0 THEN 0 ELSE (r.cost * t.after) \div r.qty
    <3>1. After(r, t) = [qty |-> t.after, cost |-> c]
      BY <2>4, AfterIs
    <3>2. c \in Nat
      <4>1. CASE r.qty = 0
        BY <4>1
      <4>2. CASE r.qty # 0
        <5> DEFINE x == r.cost
                   y == t.after
                   z == r.qty
        <5>1. x \in Nat /\ y \in Nat /\ z \in Nat \ {0}
          BY <1>7, <2>1, <4>2
        <5> HIDE DEF x, y, z
        <5>2. (x * y) \div z \in Nat
          BY <5>1, ShareOfCost
        <5> QED BY <4>2, <5>2 DEF x, y, z
      <4> QED BY <4>1, <4>2
    <3> HIDE DEF c
    <3> QED BY <1>7, <3>1, <3>2 DEF r
  <2> QED BY <1>7, <2>2, <2>3, <2>4
<1> HIDE DEF a
<1>9. /\ [p EXCEPT ![s] = a] \in Positions
      /\ \A x \in Symbols : [p EXCEPT ![s] = a][x] = IF x = s THEN a ELSE p[x]
  <2>1. PICK q \in Nat, c \in Nat : a = [qty |-> q, cost |-> c]
    BY <1>8
  <2> HIDE DEF p, s
  <2> QED BY <1>5, <2>1 DEF Positions
<1>10. curve' \in [cash: Int, pos: Positions]
  <2>1. curve.cash + t.cash \in Int
    BY <1>5
  <2> QED BY <1>4, <1>9, <2>1
<1>11. /\ phase' = phase /\ bars' = bars /\ recDay' = recDay /\ recs' = recs
       /\ cash' = cash /\ pos' = pos /\ trades' = trades /\ realized' = realized /\ day' = day
       /\ replayed' = replayed \cup {i}
  BY <1>2 DEF ReplayTrade, portfolio
<1>12. replayed' \subseteq DOMAIN trades'
  BY <1>1, <1>2, <1>11
<1>13. TypeOK'
  BY <1>1, <1>10, <1>11, <1>12, Zenon DEF TypeOK
<1>14. \A x \in Symbols : curve'.pos[x] = IF x = s THEN After(p[x], t) ELSE p[x]
  BY <1>4, <1>9 DEF a
<1> QED BY <1>2, <1>3, <1>4, <1>13, <1>14

\* What is replayed reaches the curve's cash, and is no longer to come.
LEMMA ReplayToCome ==
  ASSUME TypeOK, ToCome, ReplayTrade
  PROVE  ToCome'
<1> DEFINE left == DOMAIN trades \ replayed
           f == Amounts(trades)
<1>1. /\ trades \in Seq(TradeRows) /\ cash \in Nat
      /\ curve \in [cash: Int, pos: Positions]
  BY SimulationTypes
<1>2. PICK i \in left : i = FirstDue
  BY ReplayTypes
<1>3. curve'.cash = curve.cash + f[i]
  <2>1. curve'.cash = curve.cash + trades[FirstDue].cash
    BY ReplayTypes
  <2> QED BY <1>2, <2>1 DEF Amounts
<1>4. cash' = cash /\ trades' = trades /\ DOMAIN trades' \ replayed' = left \ {i}
  BY <1>2 DEF ReplayTrade, portfolio
<1>5. IsFiniteSet(left)
  <2>1. Len(trades) \in Nat /\ DOMAIN trades = 1..Len(trades)
    BY <1>1
  <2>2. IsFiniteSet(DOMAIN trades)
    BY <2>1, FS_Interval
  <2> QED BY <2>2, FS_Subset
<1>6. \A j \in left : f[j] \in Int
  BY RowsTyped DEF Amounts
<1>7. cash = curve.cash + SumOver(f, left) /\ curve.cash \in Int
  BY <1>1 DEF ToCome
<1> HIDE DEF left, f
<1>8. SumOver(f, left) = f[i] + SumOver(f, left \ {i})
  BY <1>2, <1>5, <1>6, SumWithout
<1>9. SumOver(f, left \ {i}) \in Int
  <2>1. IsFiniteSet(left \ {i}) /\ \A j \in left \ {i} : f[j] \in Int
    BY <1>5, <1>6, FS_Subset
  <2> QED BY <2>1, SumTyped
<1>10. f[i] \in Int
  BY <1>2, <1>6
<1>11. cash = curve'.cash + SumOver(f, left \ {i})
  BY <1>3, <1>7, <1>8, <1>9, <1>10
<1> QED BY <1>4, <1>11 DEF ToCome, f, left, Amounts, SumOver

\* Trades of a symbol are replayed in the order they were made, so the curve's
\* position follows that of the pass, although other symbols' trades overtake.
LEMMA ReplayMirrors ==
  ASSUME TypeOK, Phases, FillsInOrder, Mirror, ReplayTrade
  PROVE  Mirror'
<1>1. /\ trades \in Seq(TradeRows) /\ replayed \subseteq DOMAIN trades /\ day \in Nat
  BY SimulationTypes, ConstantsTyped DEF ReplayTrade, Phases
<1>2. PICK i \in DOMAIN trades \ replayed : i = FirstDue /\ trades[i].date <= day
  BY ReplayTypes
<1> DEFINE s == trades[i].symbol
<1>3. \A x \in Symbols :
        curve'.pos[x] = IF x = s THEN After(curve.pos[x], trades[i]) ELSE curve.pos[x]
  BY <1>2, ReplayTypes
<1>4. trades' = trades /\ pos' = pos /\ replayed' = replayed \cup {i}
  BY <1>2 DEF ReplayTrade, portfolio
<1>5. \A j \in DOMAIN trades : j \in Nat /\ trades[j].date \in Nat
  <2>1. DOMAIN trades \subseteq Nat
    BY <1>1
  <2>2. ASSUME NEW j \in DOMAIN trades PROVE trades[j].date \in Nat
    BY RowsTyped, ConstantsTyped DEF TradeRows
  <2> QED BY <2>1, <2>2
<1>6. ASSUME NEW j \in DOMAIN trades, trades[j].symbol = s, j < i
      PROVE  j \in replayed
  <2>1. trades[j].date <= trades[i].date
    BY <1>6 DEF FillsInOrder
  <2>2. trades[j].date <= day
    BY <1>1, <1>2, <1>5, <2>1
  <2> SUFFICES ASSUME j \in Due PROVE FALSE
    BY <2>2 DEF Due
  <2>3. trades[i].date < trades[j].date \/ i <= j
    BY <1>2, FirstDueIsFirst
  <2> QED BY <1>5, <1>6, <2>1, <2>3
<1> HIDE DEF s
<1> SUFFICES ASSUME NEW x \in Symbols PROVE (\E held : Mirrored(x, held))'
  BY DEF Mirror
<1>7. PICK held : Mirrored(x, held)
  BY DEF Mirror
<1>8. PICK k \in 0..Len(trades) :
         /\ \A j \in DOMAIN trades : trades[j].symbol = x => (j \in replayed <=> j <= k)
         /\ curve.pos[x] = held[k]
  BY <1>7 DEF Mirrored
<1>9. \E m \in 0..Len(trades) :
         /\ \A j \in DOMAIN trades : trades[j].symbol = x => (j \in replayed' <=> j <= m)
         /\ curve'.pos[x] = held[m]
  <2>1. CASE x # s
    <3>1. \A j \in DOMAIN trades : trades[j].symbol = x => (j \in replayed' <=> j <= k)
      BY <1>4, <1>8, <2>1 DEF s
    <3> QED BY <1>3, <1>8, <2>1, <3>1
  <2>2. CASE x = s
    <3>1. Len(trades) \in Nat /\ DOMAIN trades = 1..Len(trades) /\ i \in 1..Len(trades)
      BY <1>1
    <3>2. ~ (i <= k) /\ trades[i].symbol = x
      BY <1>8, <2>2 DEF s
    <3>3. k <= i - 1 /\ i - 1 \in 0..Len(trades)
      BY <3>1, <3>2
    <3>4. ASSUME NEW j \in (k + 1)..(i - 1) PROVE trades[j].symbol # x
      <4>1. j \in DOMAIN trades /\ j < i /\ ~ (j <= k)
        BY <3>1
      <4> QED BY <1>6, <1>8, <2>2, <4>1
    <3>5. held[k] = held[i - 1]
      <4> DEFINE b == i - 1
      <4>1. k <= b /\ b \in 0..Len(trades) /\ \A j \in (k + 1)..b : trades[j].symbol # x
        BY <3>3, <3>4
      <4> HIDE DEF b
      <4>2. held[k] = held[b]
        BY <1>7, <4>1 DEF Mirrored
      <4> QED BY <4>2 DEF b
    <3>6. held[i] = After(held[i - 1], trades[i])
      BY <1>7, <3>2 DEF Mirrored
    <3>7. curve'.pos[x] = held[i]
      BY <1>3, <1>8, <2>2, <3>5, <3>6
    <3>8. ASSUME NEW j \in DOMAIN trades, trades[j].symbol = x
          PROVE  j \in replayed' <=> j <= i
      <4>1. CASE j < i
        BY <1>4, <1>5, <1>6, <2>2, <3>8, <4>1
      <4>2. CASE j = i
        BY <1>4, <1>5, <4>2
      <4>3. CASE j > i
        <5>1. ~ (j <= k)
          BY <3>1, <3>2, <4>3
        <5>2. j \notin replayed
          BY <1>8, <3>8, <5>1
        <5> QED BY <1>4, <1>5, <4>3, <5>2
      <4> QED BY <1>5, <4>1, <4>2, <4>3
    <3>9. i \in 0..Len(trades)
      BY <3>1
    <3> QED BY <3>7, <3>8, <3>9
  <2> QED BY <2>1, <2>2
<1>10. Mirrored(x, held)'
  BY <1>4, <1>7, <1>9 DEF Mirrored
<1> QED BY <1>10

-----------------------------------------------------------------------------
(* All steps *)

\* A step that leaves prices, portfolio and curve alone disturbs nothing.
LEMMA QuietKeeps ==
  ASSUME SimInv, bars' = bars, recDay' \in Int, recDay' >= recDay,
         UNCHANGED <<portfolio, curve, replayed>>
  PROVE  Filled' /\ FillsInOrder' /\ Conserved' /\ ToCome' /\ Mirror'
<1>1. /\ cash' = cash /\ pos' = pos /\ trades' = trades /\ realized' = realized
      /\ curve' = curve /\ replayed' = replayed /\ recDay \in Int
  BY SimulationTypes DEF portfolio, SimInv
<1>2. Filled'
  <2> SUFFICES ASSUME NEW i \in DOMAIN trades'
               PROVE  \E d \in Int : d <= recDay' /\ trades'[i].date = FillDay(trades'[i].symbol, d) /\ trades'[i].date # NoDay
    BY FilledKept
  <2>1. PICK d \in Int : d <= recDay /\ trades[i].date = FillDay(trades[i].symbol, d) /\ trades[i].date # NoDay
    BY <1>1 DEF SimInv, Filled
  <2>2. d <= recDay'
    BY <1>1, <2>1
  <2> QED BY <1>1, <2>1, <2>2
<1>3. FillsInOrder'
  BY <1>1 DEF SimInv, FillsInOrder
<1>4. Conserved'
  BY <1>1 DEF SimInv, Conserved, CostOf
<1>5. ToCome'
  BY <1>1 DEF SimInv, ToCome, Amounts
<1>6. Mirror'
  BY <1>1 DEF SimInv, Mirror, Mirrored
<1> QED BY <1>2, <1>3, <1>4, <1>5, <1>6

\* Positions without shares.
LEMMA FlatTyped ==
  Flat \in Positions /\ CostOf(Flat) = 0
<1>1. Flat \in Positions
  BY DEF Flat, Positions
<1> DEFINE f == [s \in Symbols |-> Flat[s].cost]
<1>2. \A s \in Symbols : f[s] = 0
  BY DEF Flat
<1> HIDE DEF f
<1>3. SumOver(f, Symbols) = 0
  <2> DEFINE B == {T \in SUBSET Symbols : SumOver(f, T) # 0}
  <2> SUFFICES ASSUME B # {} PROVE FALSE
    OBVIOUS
  <2>1. IsFiniteSet(Symbols)
    BY ConstantsTyped
  <2>2. PICK m \in B : \A t \in B : t \subseteq m => t = m
    <3>1. B \in SUBSET SUBSET Symbols
      OBVIOUS
    <3> HIDE DEF B
    <3> QED BY <2>1, <3>1, Smallest
  <2>3. m \subseteq Symbols /\ IsFiniteSet(m) /\ SumOver(f, m) # 0
    BY <2>1, FS_Subset
  <2>4. m # {}
    BY <2>3, SumEmpty
  <2> DEFINE r == m \ {Pick(m)}
  <2>5. Pick(m) \in Symbols /\ r \subseteq m /\ r # m
    BY <2>3, <2>4, Picked
  <2>6. SumOver(f, r) = 0
    BY <2>2, <2>3, <2>5
  <2>7. SumOver(f, m) = f[Pick(m)] + SumOver(f, r)
    BY <2>3, <2>4, SumStep
  <2> QED BY <1>2, <2>3, <2>5, <2>6, <2>7
<1> QED BY <1>1, <1>3 DEF CostOf, f

\* Nothing is traded yet.
LEMMA NothingToCome ==
  ASSUME trades = <<>>, replayed = {}, curve = [cash |-> cash, pos |-> pos], cash \in Nat
  PROVE  ToCome /\ Mirror /\ Filled /\ FillsInOrder
<1>1. DOMAIN trades = {} /\ Len(trades) = 0
  OBVIOUS
<1>2. SumOver(Amounts(trades), DOMAIN trades \ replayed) = 0
  BY <1>1, SumEmpty
<1>3. ToCome
  BY <1>2 DEF ToCome
<1>4. ASSUME NEW s \in Symbols PROVE \E held : Mirrored(s, held)
  <2>1. PICK held : held = [n \in {0} |-> pos[s]]
    OBVIOUS
  <2>2. held[0] = pos[s] /\ curve.pos[s] = held[0]
    BY <2>1
  <2>3. Mirrored(s, held)
    BY <1>1, <2>2 DEF Mirrored
  <2> QED BY <2>3
<1> QED BY <1>1, <1>3, <1>4 DEF Mirror, Filled, FillsInOrder

\* The simulation begins so.
LEMMA SimInit == Init => SimInv
<1> SUFFICES ASSUME Init PROVE SimInv
  OBVIOUS
<1>1. /\ phase = "seed" /\ bars \in Tables /\ recDay = Start - 1 /\ recs = 0
      /\ cash = InitialCash /\ pos = Flat /\ trades = <<>> /\ realized = 0
      /\ curve = [cash |-> InitialCash, pos |-> Flat] /\ replayed = {} /\ day = NoDay
  BY DEF Init
<1>2. InitialCash \in Nat /\ MaxRecs \in Nat /\ Start \in Nat
  BY ConstantsTyped
<1>3. recDay \in Int /\ recs \in 0..MaxRecs
  BY <1>1, <1>2
<1>4. curve \in [cash: Int, pos: Positions]
  BY <1>1, <1>2, FlatTyped
<1>5. trades \in Seq(TradeRows)
  BY <1>1
<1>6. TypeOK
  BY <1>1, <1>2, <1>3, <1>4, <1>5, FlatTyped DEF TypeOK
<1>7. Phases
  BY <1>1 DEF Phases
<1>8. Conserved
  BY <1>1, <1>2, FlatTyped DEF Conserved
<1>9. ToCome /\ Mirror /\ Filled /\ FillsInOrder
  BY <1>1, <1>2, NothingToCome
<1> QED BY <1>6, <1>7, <1>8, <1>9 DEF SimInv

\* The holdings that are seeded are positions that cost what they are said to.
LEMMA SeededTyped ==
  ASSUME Histories, NEW h \in Holdings
  PROVE  Seeded(h) \in Positions /\ CostOf(Seeded(h)) = Cost(h) /\ Cost(h) \in Nat
<1>1. h \in [Symbols -> Nat] /\ Start \in Int
  <2>1. Holdings \subseteq [Symbols -> Nat] /\ Start \in Days /\ Days \subseteq Nat
    BY ConstantsTyped
  <2> QED BY <2>1
<1>2. ASSUME NEW s \in Symbols PROVE h[s] * EntryPrice(s) \in Nat
  <2>1. EntryPrice(s) \in Nat
    BY <1>1, Fill DEF EntryPrice
  <2> QED BY <1>1, <2>1, Products
<1>3. Seeded(h) \in Positions
  BY <1>1, <1>2 DEF Seeded, Positions
<1>4. CostOf(Seeded(h)) = Cost(h)
  BY CostIs DEF Cost
<1> QED BY <1>3, <1>4, CostTyped

\* Seeding turns cash into holdings.
LEMMA SeedKeeps ==
  ASSUME SimInv, NEW h \in Holdings, Seed(h)
  PROVE  SimInv'
<1>1. /\ Histories /\ bars \in Tables /\ recDay \in Int /\ recs \in 0..MaxRecs
      /\ cash \in Nat /\ day \in Days \cup {NoDay}
  BY SimulationTypes DEF SimInv
<1>2. cash = InitialCash /\ pos = Flat /\ trades = <<>> /\ realized = 0 /\ replayed = {}
  BY DEF SimInv, Phases, Seed
<1> DEFINE c == Cost(h)
<1>3. /\ c <= InitialCash
      /\ phase' = "pass" /\ bars' = bars /\ recDay' = recDay /\ recs' = recs
      /\ cash' = cash - c /\ pos' = Seeded(h)
      /\ curve' = [cash |-> cash - c, pos |-> Seeded(h)]
      /\ trades' = trades /\ realized' = realized /\ replayed' = replayed /\ day' = day
  BY DEF Seed
<1>4. Seeded(h) \in Positions /\ CostOf(Seeded(h)) = c /\ c \in Nat
  BY <1>1, SeededTyped
<1> HIDE DEF c
<1>5. cash' \in Nat /\ InitialCash \in Nat
  BY <1>1, <1>2, <1>3, <1>4
<1>6. curve' \in [cash: Int, pos: Positions]
  BY <1>3, <1>4, <1>5
<1>7. trades' \in Seq(TradeRows)
  BY <1>2, <1>3
<1>8. TypeOK'
  BY <1>1, <1>2, <1>3, <1>4, <1>5, <1>6, <1>7 DEF TypeOK
<1>9. Phases'
  BY <1>2, <1>3 DEF Phases
<1>10. Conserved'
  <2>1. cash' + CostOf(pos') = InitialCash + realized'
    BY <1>1, <1>2, <1>3, <1>4
  <2> QED BY <2>1 DEF Conserved, CostOf
<1>11. ToCome' /\ Mirror' /\ Filled' /\ FillsInOrder'
  <2>1. trades' = <<>> /\ replayed' = {} /\ curve' = [cash |-> cash', pos |-> pos'] /\ cash' \in Nat
    BY <1>2, <1>3, <1>5
  <2>2. DOMAIN trades' = {} /\ Len(trades') = 0
    BY <2>1
  <2>3. ToCome'
    <3>1. SumOver(Amounts(trades'), DOMAIN trades' \ replayed') = 0
      BY <2>2, SumEmpty
    <3>2. cash' = curve'.cash + SumOver(Amounts(trades'), DOMAIN trades' \ replayed')
      BY <2>1, <3>1
    <3> QED BY <3>2 DEF ToCome, SumOver, Amounts
  <2>4. ASSUME NEW s \in Symbols PROVE (\E held : Mirrored(s, held))'
    <3>1. PICK held : held = [n \in {0} |-> pos'[s]]
      OBVIOUS
    <3>2. held[0] = pos'[s] /\ curve'.pos[s] = held[0]
      BY <2>1, <3>1
    <3>3. Mirrored(s, held)'
      BY <2>2, <3>2 DEF Mirrored
    <3> QED BY <3>3
  <2> QED BY <2>2, <2>3, <2>4 DEF Mirror, Filled, FillsInOrder
<1> QED BY <1>8, <1>9, <1>10, <1>11 DEF SimInv

\* Holdings that cannot be priced or paid are rejected.
LEMMA RejectKeeps ==
  ASSUME SimInv, NEW h \in Holdings, RejectHoldings(h)
  PROVE  SimInv'
<1>1. /\ phase = "seed" /\ phase' = "rejected" /\ UNCHANGED <<bars, recDay, recs>> /\ day' = day
      /\ UNCHANGED <<portfolio, curve, replayed>>
  BY DEF RejectHoldings, replay
<1>2. recDay' \in Int /\ recDay' >= recDay
  BY <1>1, SimulationTypes DEF SimInv
<1>3. TypeOK'
  BY <1>1, SimulationTypes DEF SimInv, TypeOK, portfolio
<1>4. Phases'
  BY <1>1 DEF SimInv, Phases, portfolio
<1> QED BY <1>1, <1>2, <1>3, <1>4, QuietKeeps DEF SimInv

\* A recommendation is passed over.
LEMMA PassedKeeps ==
  ASSUME SimInv, NEW d \in Int, Passed(d)
  PROVE  SimInv'
<1>1. /\ phase = "pass" /\ recs < MaxRecs /\ recDay' = d /\ d >= recDay /\ recs' = recs + 1
      /\ phase' = phase /\ bars' = bars /\ day' = day
      /\ UNCHANGED <<portfolio, curve, replayed>>
  BY DEF Passed, Consider, replay
<1>2. recs' \in 0..MaxRecs
  BY <1>1, SimulationTypes, ConstantsTyped DEF SimInv
<1>3. TypeOK'
  BY <1>1, <1>2, SimulationTypes DEF SimInv, TypeOK, portfolio
<1>4. Phases'
  BY <1>1 DEF SimInv, Phases, portfolio
<1> QED BY <1>1, <1>3, <1>4, QuietKeeps DEF SimInv

\* A recommendation is executed.
LEMMA ExecutedKeeps ==
  ASSUME SimInv, NEW s \in Symbols, NEW d \in Int, Executed(s, d)
  PROVE  SimInv'
<1>1. PICK t, q, c : Trade(s, d, t, q, c)
  BY DEF Executed
<1>2. TypeOK'
  BY <1>1, TradeTypes DEF SimInv
<1>3. Filled' /\ FillsInOrder'
  BY <1>1, TradeFilled DEF SimInv
<1>4. Conserved'
  BY <1>1, TradeConserves DEF SimInv
<1>5. ToCome'
  BY <1>1, TradeToCome DEF SimInv
<1>6. Mirror'
  BY <1>1, TradeMirrors DEF SimInv
<1>7. Phases'
  <2>1. phase = "pass" /\ phase' = phase /\ replayed' = replayed
    BY <1>1 DEF Trade, Consider, replay
  <2> QED BY <2>1 DEF SimInv, Phases
<1> QED BY <1>2, <1>3, <1>4, <1>5, <1>6, <1>7 DEF SimInv

\* The first trading day.
LEMMA StartCurveKeeps ==
  ASSUME SimInv, StartCurve
  PROVE  SimInv'
<1>1. /\ bars' = bars /\ recDay' = recDay /\ recs' = recs /\ UNCHANGED <<portfolio, curve, replayed>>
      /\ phase' \in {"curve", "done"}
  BY DEF StartCurve
<1>2. recDay' \in Int /\ recDay' >= recDay
  BY <1>1, SimulationTypes DEF SimInv
<1>3. TradingDays \subseteq Days
  BY DEF TradingDays, Priced
<1>4. day' \in Days \/ (day' = NoDay /\ phase' = "done")
  <2>1. CASE TradingDays = {}
    BY <2>1 DEF StartCurve
  <2>2. CASE TradingDays # {}
    <3>1. TradingDays \in SUBSET Nat
      BY <1>3, ConstantsTyped
    <3>2. Min(TradingDays) \in TradingDays
      BY <2>2, <3>1, MinIsLeast
    <3> QED BY <1>3, <2>2, <3>2 DEF StartCurve
  <2> QED BY <2>1, <2>2
<1>5. TypeOK'
  BY <1>1, <1>4, SimulationTypes DEF SimInv, TypeOK, portfolio
<1>6. Phases'
  BY <1>1, <1>4 DEF Phases
<1> QED BY <1>1, <1>2, <1>5, <1>6, QuietKeeps DEF SimInv

\* The next trading day.
LEMMA EndOfDayKeeps ==
  ASSUME SimInv, EndOfDay
  PROVE  SimInv'
<1>1. /\ bars' = bars /\ recDay' = recDay /\ recs' = recs /\ UNCHANGED <<portfolio, curve, replayed>>
      /\ phase' \in {"curve", "done"} /\ day' = NextDay(day)
      /\ phase' = "curve" => day' # NoDay
  BY DEF EndOfDay
<1>2. recDay' \in Int /\ recDay' >= recDay
  BY <1>1, SimulationTypes DEF SimInv
<1>3. day' \in Days \cup {NoDay}
  <2> DEFINE D == {x \in TradingDays : x > day}
  <2>1. D \subseteq Days
    BY DEF TradingDays, Priced
  <2>2. CASE D = {}
    BY <1>1, <2>2 DEF NextDay
  <2>3. CASE D # {}
    <3>1. D \in SUBSET Nat
      BY <2>1, ConstantsTyped
    <3>2. NextDay(day) = Min(D)
      BY <2>3 DEF NextDay
    <3> HIDE DEF D
    <3>3. Min(D) \in D
      BY <2>3, <3>1, MinIsLeast
    <3> QED BY <1>1, <2>1, <3>2, <3>3
  <2> QED BY <2>2, <2>3
<1>4. TypeOK'
  BY <1>1, <1>3, SimulationTypes DEF SimInv, TypeOK, portfolio
<1>5. Phases'
  BY <1>1, <1>3 DEF Phases
<1> QED BY <1>1, <1>2, <1>4, <1>5, QuietKeeps DEF SimInv

\* A trade is replayed.
LEMMA ReplayKeeps ==
  ASSUME SimInv, ReplayTrade
  PROVE  SimInv'
<1>1. /\ phase = "curve" /\ phase' = phase /\ day' = day
      /\ bars' = bars /\ recDay' = recDay /\ UNCHANGED portfolio
  BY DEF ReplayTrade
<1>2. TypeOK'
  BY ReplayTypes DEF SimInv
<1>3. ToCome'
  BY ReplayToCome DEF SimInv
<1>4. Mirror'
  BY ReplayMirrors DEF SimInv
<1>5. Phases'
  BY <1>1 DEF SimInv, Phases
<1>6. Filled'
  BY <1>1, FilledKept DEF SimInv, Filled, portfolio
<1>7. FillsInOrder' /\ Conserved'
  BY <1>1 DEF SimInv, FillsInOrder, Conserved, CostOf, portfolio
<1> QED BY <1>2, <1>3, <1>4, <1>5, <1>6, <1>7 DEF SimInv

\* Every step keeps the invariant.
LEMMA SimStep == SimInv /\ [Next]_vars => SimInv'
<1> SUFFICES ASSUME SimInv, [Next]_vars PROVE SimInv'
  OBVIOUS
<1>0. TypeOK
  BY DEF SimInv
<1>1. CASE Next
  BY <1>0, <1>1, NextIs, SeedKeeps, RejectKeeps, PassedKeeps, ExecutedKeeps, StartCurveKeeps,
     ReplayKeeps, EndOfDayKeeps
<1>2. CASE UNCHANGED vars
  <2>1. /\ phase' = phase /\ bars' = bars /\ recDay' = recDay /\ recs' = recs /\ day' = day
        /\ UNCHANGED <<portfolio, curve, replayed>>
    BY <1>2 DEF vars, replay
  <2>2. recDay' \in Int /\ recDay' >= recDay
    BY <1>0, <2>1, SimulationTypes
  <2>3. TypeOK'
    BY <1>0, <2>1, SimulationTypes DEF TypeOK, portfolio
  <2>4. Phases'
    BY <2>1 DEF SimInv, Phases, portfolio
  <2> QED BY <2>1, <2>2, <2>3, <2>4, QuietKeeps DEF SimInv
<1> QED BY <1>1, <1>2

-----------------------------------------------------------------------------
(* What is proved of the simulation *)

\* The invariant holds of every simulation, whatever the symbols, the prices,
\* the holdings and the number of recommendations.
THEOREM SimulationInvariant == Spec => []SimInv
<1>1. SimInv /\ [Next]_vars => SimInv'
  BY SimStep
<1> QED BY <1>1, SimInit, PTL DEF Spec

\* Type correctness: among others, cash is never negative, no position is, and
\* only trades that were executed are replayed.
THEOREM SimulationTypeCorrect == Spec => []TypeOK
<1>1. SimInv => TypeOK
  BY DEF SimInv
<1> QED BY <1>1, SimulationInvariant, PTL

\* Cash is never overdrawn, and cash, cost and gains add up to what the
\* simulation began with.
THEOREM AccountedHolds == Spec => []Accounted
<1>1. SimInv => Accounted
  <2> SUFFICES ASSUME SimInv PROVE Accounted
    OBVIOUS
  <2>1. cash \in Nat
    BY SimulationTypes DEF SimInv
  <2>2. SumFunction([s \in Symbols |-> pos[s].cost]) = CostOf(pos)
    BY CostIs
  <2>3. cash + CostOf(pos) = InitialCash + realized
    BY DEF SimInv, Conserved
  <2> QED BY <2>1, <2>2, <2>3 DEF Accounted
<1> QED BY <1>1, SimulationInvariant, PTL

\* The trades of a symbol are filled in the order of its recommendations,
\* whatever days have no price.
THEOREM FillsInOrderHolds == Spec => []FillsInOrder
<1>1. SimInv => FillsInOrder
  BY DEF SimInv
<1> QED BY <1>1, SimulationInvariant, PTL

\* Once everything is replayed, the curve has the portfolio of the pass.
THEOREM CurveMirrorsPassHolds == Spec => []CurveMirrorsPass
<1>1. SimInv => CurveMirrorsPass
  <2> SUFFICES ASSUME SimInv, replayed = DOMAIN trades
               PROVE  curve = [cash |-> cash, pos |-> pos]
    BY DEF CurveMirrorsPass
  <2>1. /\ curve \in [cash: Int, pos: Positions] /\ pos \in Positions /\ cash \in Nat
        /\ trades \in Seq(TradeRows)
    BY SimulationTypes DEF SimInv
  <2>2. curve.cash = cash
    <3>1. DOMAIN trades \ replayed = {}
      OBVIOUS
    <3>2. SumOver(Amounts(trades), DOMAIN trades \ replayed) = 0
      BY <3>1, SumEmpty
    <3>3. cash = curve.cash + 0
      BY <3>2 DEF SimInv, ToCome
    <3> QED BY <2>1, <3>3
  <2>3. ASSUME NEW s \in Symbols PROVE curve.pos[s] = pos[s]
    <3>1. PICK held : Mirrored(s, held)
      BY DEF SimInv, Mirror
    <3> DEFINE l == Len(trades)
    <3>2. l \in Nat /\ DOMAIN trades = 1..l /\ l \in 0..l
      BY <2>1
    <3> HIDE DEF l
    <3>3. PICK k \in 0..l : /\ \A i \in DOMAIN trades : trades[i].symbol = s => (i \in replayed <=> i <= k)
                            /\ curve.pos[s] = held[k]
      BY <3>1 DEF Mirrored, l
    <3>4. \A i \in (k + 1)..l : trades[i].symbol # s
      BY <3>2, <3>3
    <3>5. held[k] = held[l]
      BY <3>1, <3>2, <3>3, <3>4 DEF Mirrored, l
    <3> QED BY <3>1, <3>3, <3>5 DEF Mirrored, l
  <2>4. curve.pos = pos
    BY <2>1, <2>3 DEF Positions
  <2> QED BY <2>1, <2>2, <2>4
<1> QED BY <1>1, SimulationInvariant, PTL

BuyBound ==
  Len(trades') > Len(trades) /\ trades'[Len(trades')].type = "BUY" =>
    LET t == trades'[Len(trades')]
    IN  100 * pos'[t.symbol].qty * t.price
          <= TargetWeight[t.action] * Equity(recDay', t.symbol, t.price)

\* A purchase stays within the target weight of the equity it was decided on.
LEMMA BuysBound == SimInv /\ [Next]_vars => [BuyBound]_vars
<1> SUFFICES ASSUME SimInv, Next PROVE BuyBound
  OBVIOUS
<1>0. TypeOK /\ trades \in Seq(TradeRows) /\ pos \in Positions
  BY SimulationTypes DEF SimInv
<1>1. CASE trades' = trades
  BY <1>0, <1>1 DEF BuyBound
<1>2. ASSUME NEW d \in Int, NEW s \in Symbols, Executed(s, d)
      PROVE  BuyBound
  <2>1. PICK t, q, c : Trade(s, d, t, q, c)
    BY <1>2 DEF Executed
  <2>2. Len(trades') = Len(trades) + 1
    BY <1>0, <2>1, TradeTypes
  <2>3. trades'[Len(trades) + 1] = t
    BY <1>0, <2>1, TradeTypes
  <2>4. trades'[Len(trades')] = t
    BY <2>2, <2>3
  <2>5. t \in TradeRows /\ t.symbol = s /\ recDay' = d /\ q \in Nat /\ c \in Nat
    BY <2>1 DEF Trade, Consider
  <2>6. pos'[t.symbol].qty = q
    <3>1. pos' = [pos EXCEPT ![s] = [qty |-> q, cost |-> c]]
      BY <2>1 DEF Trade
    <3> QED BY <1>0, <2>5, <3>1 DEF Positions
  <2>7. t.type = "BUY" => 100 * (q * t.price) <= TargetWeight[t.action] * Equity(recDay', t.symbol, t.price)
    BY <2>1, <2>5 DEF Trade
  <2>8. t.price \in Nat
    BY <2>5 DEF TradeRows
  <2>9. 100 * q * t.price = 100 * (q * t.price)
    BY <2>5, <2>8
  <2> QED BY <2>4, <2>6, <2>7, <2>9 DEF BuyBound
<1>3. \/ trades' = trades
      \/ \E d \in Int, s \in Symbols : Executed(s, d)
  <2>1. ASSUME NEW h \in Holdings, Seed(h) \/ RejectHoldings(h) PROVE trades' = trades
    BY <2>1 DEF Seed, RejectHoldings, portfolio
  <2>2. ASSUME NEW d \in Int, Passed(d) PROVE trades' = trades
    BY <2>2 DEF Passed, portfolio
  <2>3. StartCurve \/ ReplayTrade \/ EndOfDay => trades' = trades
    BY DEF StartCurve, ReplayTrade, EndOfDay, portfolio
  <2> QED BY <1>0, <2>1, <2>2, <2>3, NextIs
<1> QED BY <1>1, <1>2, <1>3

\* The action property of it.
THEOREM BuysWithinTargetHolds == Spec => BuysWithinTarget
<1>1. SimInv /\ [Next]_vars => [BuyBound]_vars
  BY BuysBound
<1> QED BY <1>1, SimulationInvariant, PTL DEF Spec, BuysWithinTarget, BuyBound

-----------------------------------------------------------------------------
(* Analyses of what is stored, for every number of requests and restarts and  *)
(* every set of models and prompts.                                          *)

Ats == {"none", "looking", "calling", "answered", "refused"}

Requests == [at : Ats, force : BOOLEAN, of : Generations]

\* Latest is the youngest of the complete analyses of a generation.
LEMMA LatestIsYoungest ==
  ASSUME NEW g, NEW a \in Completed(g)
  PROVE  Latest(g) \in Completed(g) /\ a <= Latest(g)
<1>1. Completed(g) \in SUBSET (0..MaxRequests) /\ Completed(g) # {} /\ MaxRequests \in Nat
  BY RequestsBounded DEF Completed, Times
<1>2. PICK x \in Completed(g) : \A y \in Completed(g) : y <= x
  BY <1>1, Highest
<1> QED BY <1>1, <1>2 DEF Latest

\* Without one there is no latest.
LEMMA LatestTyped ==
  ASSUME NEW g
  PROVE  /\ Latest(g) \in 0..MaxRequests
         /\ Latest(g) # 0 => Latest(g) \in Completed(g)
<1>1. Completed(g) \in SUBSET (0..MaxRequests) /\ MaxRequests \in Nat
  BY RequestsBounded DEF Completed, Times
<1>2. CASE Completed(g) = {}
  BY <1>1, <1>2 DEF Latest
<1>3. CASE Completed(g) # {}
  BY <1>1, <1>3, LatestIsYoungest
<1> QED BY <1>2, <1>3

\* A request moves on, and stays what it was.
LEMMA RequestMoved ==
  ASSUME NEW q \in Requests, NEW v \in Ats
  PROVE  /\ [q EXCEPT !.at = v] \in Requests
         /\ [q EXCEPT !.at = v].at = v
         /\ [q EXCEPT !.at = v].force = q.force /\ [q EXCEPT !.at = v].of = q.of
BY DEF Requests, Ats

\* A request that is opened or changed is again a request.
LEMMA RequestOpened ==
  ASSUME NEW v \in Ats, NEW f \in BOOLEAN, NEW g \in Generations
  PROVE  /\ [at |-> v, force |-> f, of |-> g] \in Requests
         /\ [at |-> v, force |-> f, of |-> g].at = v
         /\ [at |-> v, force |-> f, of |-> g].force = f
         /\ [at |-> v, force |-> f, of |-> g].of = g
BY DEF Requests, Ats

\* Of a step that moves one request on, where all requests are.
LEMMA Advanced ==
  ASSUME request \in [Times -> Requests], NEW t \in Times, NEW v \in Ats,
         request' = [request EXCEPT ![t].at = v]
  PROVE  /\ request' \in [Times -> Requests]
         /\ \A u \in Times : /\ request'[u].at = IF u = t THEN v ELSE request[u].at
                             /\ request'[u].force = request[u].force
                             /\ request'[u].of = request[u].of
<1>1. PICK q \in Requests : q = request[t]
  OBVIOUS
<1>2. PICK p \in Requests : p = [q EXCEPT !.at = v] /\ p.at = v /\ p.force = q.force /\ p.of = q.of
  BY RequestMoved
<1>3. request' = [request EXCEPT ![t] = p]
  BY <1>1, <1>2
<1> QED BY <1>1, <1>2, <1>3

-----------------------------------------------------------------------------
(* The inductive invariant *)

\* What has not begun has nothing.
Begun == \A t \in Times :
  t > opened => request[t].at = "none" /\ row[t] = "NONE" /\ answer[t] = 0

\* Requests that were not refused are of a simulation that is stored.
Backed == \A t \in Times : request[t].at \in {"looking", "calling", "answered"} => found

\* A row is written, and an answer given, once and for all.
Over == \A t \in Times :
  /\ row[t] # "NONE" => request[t].at \in {"answered", "refused"}
  /\ answer[t] # 0 => request[t].at = "answered" /\ answer[t] \in Times

\* AnswersAgree, without what GET shows: that follows
Agreed == \A t \in Times : answer[t] # 0 =>
  /\ row[answer[t]] = "COMPLETED" /\ request[answer[t]].of = request[t].of
  /\ request[t].force => answer[t] = t
  /\ answer[t] < t => answer[t] = shown[t]

IInv == RequestsTyped /\ Begun /\ Backed /\ Over /\ Agreed

\* what RequestsTyped says of each variable
LEMMA Types ==
  ASSUME RequestsTyped
  PROVE  /\ request \in [Times -> Requests]
         /\ row \in [Times -> {"NONE", "COMPLETED", "FAILED"}]
         /\ answer \in [Times -> 0..MaxRequests] /\ shown \in [Times -> 0..MaxRequests]
         /\ opened \in 0..MaxRequests /\ generation \in Generations
         /\ MaxRequests \in Nat
BY RequestsBounded, Zenon DEF RequestsTyped, Requests, Ats

\* GET shows nothing older than what was answered.
LEMMA GetShows ==
  ASSUME IInv
  PROVE  AnswersAgree
<1> SUFFICES ASSUME NEW t \in Times, answer[t] # 0, generation = request[t].of
             PROVE  Get >= answer[t]
  BY DEF IInv, Agreed, AnswersAgree
<1>1. found /\ answer[t] \in Times
  BY DEF IInv, Over, Backed
<1>2. answer[t] \in Completed(generation)
  BY <1>1 DEF IInv, Agreed, Completed
<1>3. Latest(generation) \in Completed(generation) /\ answer[t] <= Latest(generation)
  BY <1>2, LatestIsYoungest
<1>4. Latest(generation) \in Int /\ answer[t] \in Int
  BY <1>1, <1>3, RequestsBounded DEF Completed, Times
<1> QED BY <1>1, <1>3, <1>4 DEF Get

-----------------------------------------------------------------------------
(* Each step keeps it. *)

\* Store keeps the invariant.
LEMMA StoreKeeps ==
  ASSUME IInv, Store
  PROVE  IInv'
<1>1. RequestsTyped'
  BY Zenon DEF IInv, Store, RequestsTyped, settings, Times
<1>2. Begun' /\ Backed' /\ Over' /\ Agreed'
  BY DEF IInv, Store, Begun, Backed, Over, Agreed
<1> QED BY <1>1, <1>2 DEF IInv

\* Open keeps the invariant.
LEMMA OpenKeeps ==
  ASSUME IInv, NEW force \in BOOLEAN, Open(force)
  PROVE  IInv'
<1>0. RequestsTyped /\ opened \in Int /\ opened + 1 \in Times
  BY Types DEF IInv, Open, Times
<1>1. PICK v \in Ats : v = IF found THEN "looking" ELSE "refused"
  BY DEF Ats
<1>2. PICK p \in Requests :
        /\ p = [at |-> v, force |-> force, of |-> generation]
        /\ p.at = v /\ p.force = force /\ p.of = generation
  <2>1. generation \in Generations
    BY <1>0, Types
  <2> DEFINE new == [at |-> v, force |-> force, of |-> generation]
  <2>2. /\ new \in Requests
        /\ new.at = v /\ new.force = force /\ new.of = generation
    BY <2>1, RequestOpened, Zenon
  <2> HIDE DEF new
  <2>3. \E p \in Requests : p = new /\ p.at = v /\ p.force = force /\ p.of = generation
    BY <2>2
  <2> QED BY <2>3 DEF new
<1>3. request' = [request EXCEPT ![opened + 1] = p]
  BY <1>1, <1>2 DEF Open
<1>4. request' \in [Times -> Requests]
      /\ \A u \in Times : request'[u] = IF u = opened + 1 THEN p ELSE request[u]
  BY <1>0, <1>3, Types
<1>5. opened' = opened + 1 /\ UNCHANGED <<found, settings, row, answer, shown>>
  BY DEF Open
<1>6. row[opened + 1] = "NONE" /\ answer[opened + 1] = 0
  BY <1>0 DEF IInv, Begun
<1>7. RequestsTyped'
  <2>1. opened' \in 0..MaxRequests
    BY <1>0, <1>5, Types DEF Open, Times
  <2> QED BY <1>4, <1>5, <2>1, Zenon DEF IInv, RequestsTyped, settings, Requests, Ats
<1>8. Begun' /\ Backed'
  BY <1>0, <1>1, <1>2, <1>4, <1>5, <1>6, Types DEF IInv, Begun, Backed, Times
<1>9. Over'
  BY <1>4, <1>5, <1>6 DEF IInv, Over
<1>10. Agreed'
  <2> SUFFICES ASSUME NEW t \in Times, answer[t] # 0
               PROVE  /\ row[answer[t]] = "COMPLETED" /\ request'[answer[t]].of = request'[t].of
                      /\ request'[t].force => answer[t] = t
                      /\ answer[t] < t => answer[t] = shown[t]
    BY <1>5 DEF Agreed
  <2>1. answer[t] \in Times /\ t # opened + 1 /\ row[answer[t]] = "COMPLETED"
    BY <1>6 DEF IInv, Over, Agreed
  <2>2. request'[t] = request[t] /\ request'[answer[t]] = request[answer[t]]
    BY <1>4, <1>6, <2>1
  <2> QED BY <2>1, <2>2 DEF IInv, Agreed
<1> QED BY <1>7, <1>8, <1>9, <1>10 DEF IInv

\* Look keeps the invariant.
LEMMA LookKeeps ==
  ASSUME IInv, NEW t \in Times, Look(t)
  PROVE  IInv'
<1>0. RequestsTyped /\ request[t].at = "looking"
  BY DEF IInv, Look
<1>1. PICK hit \in 0..MaxRequests, last \in 0..MaxRequests :
        /\ last = Latest(request[t].of) /\ hit = IF request[t].force THEN 0 ELSE last
        /\ answer' = [answer EXCEPT ![t] = hit] /\ shown' = [shown EXCEPT ![t] = last]
        /\ request' = [request EXCEPT ![t].at = IF hit # 0 THEN "answered"
                                                ELSE IF enabled THEN "calling" ELSE "refused"]
  <2>1. PICK last \in 0..MaxRequests : last = Latest(request[t].of)
    BY LatestTyped
  <2>2. PICK hit \in 0..MaxRequests : hit = IF request[t].force THEN 0 ELSE last
    BY RequestsBounded
  <2> QED BY <2>1, <2>2 DEF Look
<1>2. PICK v \in Ats : v = IF hit # 0 THEN "answered" ELSE IF enabled THEN "calling" ELSE "refused"
  BY DEF Ats
<1>3. /\ request' \in [Times -> Requests]
      /\ \A u \in Times : /\ request'[u].at = IF u = t THEN v ELSE request[u].at
                          /\ request'[u].force = request[u].force
                          /\ request'[u].of = request[u].of
  <2>1. request' = [request EXCEPT ![t].at = v]
    BY <1>1, <1>2
  <2> QED BY <1>0, <2>1, Types, Advanced
<1>4. hit # 0 => hit \in Completed(request[t].of)
  BY <1>1, LatestTyped
<1>5. UNCHANGED <<found, settings, opened, row>>
  BY DEF Look
<1>6. /\ answer' \in [Times -> 0..MaxRequests] /\ shown' \in [Times -> 0..MaxRequests]
      /\ \A u \in Times : answer'[u] = IF u = t THEN hit ELSE answer[u]
      /\ \A u \in Times : shown'[u] = IF u = t THEN last ELSE shown[u]
  BY <1>0, <1>1, Types
<1>7. RequestsTyped'
  BY <1>3, <1>5, <1>6, Zenon DEF IInv, RequestsTyped, settings, Requests, Ats
<1>8. t <= opened /\ row[t] = "NONE" /\ found /\ opened \in Int /\ t \in Int
  BY <1>0, Types DEF IInv, Begun, Over, Backed, Times
<1>9. Begun' /\ Backed'
  <2>1. \A u \in Times : u > opened => u # t
    BY <1>8
  <2> QED BY <1>3, <1>5, <1>6, <1>8, <2>1 DEF IInv, Begun, Backed
<1>10. Over'
  BY <1>2, <1>3, <1>4, <1>5, <1>6, <1>8 DEF IInv, Over, Completed
<1>11. Agreed'
  <2> SUFFICES ASSUME NEW u \in Times, answer'[u] # 0
               PROVE  /\ row[answer'[u]] = "COMPLETED" /\ request'[answer'[u]].of = request'[u].of
                      /\ request'[u].force => answer'[u] = u
                      /\ answer'[u] < u => answer'[u] = shown'[u]
    BY <1>5 DEF Agreed
  <2>1. CASE u = t
    <3>1. hit # 0 /\ answer'[u] = hit /\ shown'[u] = last /\ hit = last /\ ~request[t].force
      BY <1>1, <1>6, <2>1
    <3>2. hit \in Times /\ row[hit] = "COMPLETED" /\ request[hit].of = request[t].of
      BY <1>4, <3>1 DEF Completed
    <3> QED BY <1>3, <2>1, <3>1, <3>2
  <2>2. CASE u # t
    <3>1. answer'[u] = answer[u] /\ shown'[u] = shown[u] /\ answer[u] \in Times
      BY <1>6, <2>2 DEF IInv, Over
    <3> QED BY <1>3, <3>1 DEF IInv, Agreed
  <2> QED BY <2>1, <2>2
<1> QED BY <1>7, <1>9, <1>10, <1>11 DEF IInv

\* A row is written and the request ends; no other row or request changes.
LEMMA WriteKeeps ==
  ASSUME IInv, NEW t \in Times, request[t].at = "calling",
         NEW status \in {"COMPLETED", "FAILED"}, NEW v \in {"answered", "refused"},
         NEW a \in 0..MaxRequests, a # 0 => a = t /\ status = "COMPLETED" /\ v = "answered",
         row' = [row EXCEPT ![t] = status], request' = [request EXCEPT ![t].at = v],
         answer' = [answer EXCEPT ![t] = a], UNCHANGED <<found, settings, opened, shown>>
  PROVE  IInv'
<1>0. RequestsTyped
  BY DEF IInv
<1>1. /\ request' \in [Times -> Requests]
      /\ \A u \in Times : /\ request'[u].at = IF u = t THEN v ELSE request[u].at
                          /\ request'[u].force = request[u].force
                          /\ request'[u].of = request[u].of
  <2>1. v \in Ats
    BY DEF Ats
  <2> QED BY <1>0, <2>1, Types, Advanced
<1>2. /\ answer' \in [Times -> 0..MaxRequests]
      /\ row' \in [Times -> {"NONE", "COMPLETED", "FAILED"}]
      /\ \A u \in Times : answer'[u] = IF u = t THEN a ELSE answer[u]
      /\ \A u \in Times : row'[u] = IF u = t THEN status ELSE row[u]
  BY <1>0, Types
<1>3. RequestsTyped'
  BY <1>1, <1>2, Zenon DEF IInv, RequestsTyped, settings, Requests, Ats
<1>4. t <= opened /\ row[t] = "NONE" /\ found /\ opened \in Int /\ t \in Int
  <2>1. request[t].at # "none" /\ row[t] = "NONE" /\ found
    BY DEF IInv, Over, Backed
  <2>2. opened \in Int /\ t \in Int
    BY <1>0, Types DEF Times
  <2> QED BY <2>1, <2>2 DEF IInv, Begun
<1>5. Begun' /\ Backed'
  BY <1>1, <1>2, <1>4 DEF IInv, Begun, Backed
<1>6. Over'
  BY <1>1, <1>2, <1>4 DEF IInv, Over
<1>7. Agreed'
  <2> SUFFICES ASSUME NEW u \in Times, answer'[u] # 0
               PROVE  /\ row'[answer'[u]] = "COMPLETED" /\ request'[answer'[u]].of = request'[u].of
                      /\ request'[u].force => answer'[u] = u
                      /\ answer'[u] < u => answer'[u] = shown'[u]
    BY DEF Agreed
  <2>1. CASE u = t
    BY <1>1, <1>2, <1>4, <2>1
  <2>2. CASE u # t
    <3>1. answer'[u] = answer[u] /\ answer[u] \in Times /\ answer[u] # t
      BY <1>2, <1>4, <2>2 DEF IInv, Over, Agreed
    <3> QED BY <1>1, <1>2, <3>1 DEF IInv, Agreed
  <2> QED BY <2>1, <2>2
<1> QED BY <1>3, <1>5, <1>6, <1>7 DEF IInv

\* Generate keeps the invariant.
LEMMA GenerateKeeps ==
  ASSUME IInv, NEW t \in Times, Generate(t)
  PROVE  IInv'
<1>1. t \in 0..MaxRequests
  BY RequestsBounded DEF Times
<1> QED BY <1>1, WriteKeeps DEF Generate

\* Fail keeps the invariant.
LEMMA FailKeeps ==
  ASSUME IInv, NEW t \in Times, Fail(t)
  PROVE  IInv'
<1>1. answer[t] = 0 /\ answer \in [Times -> 0..MaxRequests]
  BY Types DEF IInv, Over, Fail
<1>2. answer' = [answer EXCEPT ![t] = 0] /\ 0 \in 0..MaxRequests
  BY <1>1, RequestsBounded DEF Fail
<1> QED BY <1>2, WriteKeeps DEF Fail

\* Restart keeps the invariant.
LEMMA RestartKeeps ==
  ASSUME IInv, NEW g \in Generations, NEW e \in BOOLEAN, Restart(g, e)
  PROVE  IInv'
<1>0. RequestsTyped
  BY DEF IInv
<1>1. \A u \in Times : request[u] \in Requests
  BY <1>0, Types
<1>2. \A u \in Times :
        /\ request'[u] \in Requests
        /\ request'[u].at = IF request[u].at \in {"looking", "calling"} THEN "refused" ELSE request[u].at
        /\ request'[u].force = request[u].force /\ request'[u].of = request[u].of
  <2> SUFFICES ASSUME NEW u \in Times
               PROVE  /\ request'[u] \in Requests
                      /\ request'[u].at = IF request[u].at \in {"looking", "calling"}
                                          THEN "refused" ELSE request[u].at
                      /\ request'[u].force = request[u].force /\ request'[u].of = request[u].of
    OBVIOUS
  <2>1. PICK q \in Requests : q = request[u]
    BY <1>1
  <2>2. request'[u] = IF q.at \in {"looking", "calling"} THEN [q EXCEPT !.at = "refused"] ELSE q
    BY <2>1 DEF Restart
  <2>3. "refused" \in Ats
    BY DEF Ats
  <2> QED BY <2>1, <2>2, <2>3, RequestMoved
<1>3. request' \in [Times -> Requests]
  BY <1>2 DEF Restart
<1>4. RequestsTyped'
  <2>1. restarts' \in 0..MaxRestarts
    BY RequestsBounded DEF IInv, RequestsTyped, Restart
  <2>2. generation' = g /\ enabled' = e /\ UNCHANGED <<found, opened, row, answer, shown>>
    BY DEF Restart
  <2> QED BY <1>3, <2>1, <2>2, Zenon DEF IInv, RequestsTyped, Requests, Ats
<1>5. Begun' /\ Backed' /\ Over'
  BY <1>2 DEF IInv, Begun, Backed, Over, Restart
<1>6. Agreed'
  BY <1>2 DEF IInv, Agreed, Over, Restart
<1> QED BY <1>4, <1>5, <1>6 DEF IInv

-----------------------------------------------------------------------------
(* The theorems *)

\* The invariant holds at first,
LEMMA InitIInv == InitAnalysis => IInv
<1> SUFFICES ASSUME InitAnalysis PROVE IInv
  OBVIOUS
<1>1. (CHOOSE g \in Generations : TRUE) \in Generations
  BY RequestsBounded
<1>2. PICK g \in Generations : g = CHOOSE x \in Generations : TRUE
  BY <1>1
<1>3. PICK p \in Requests : p = NoRequest /\ p.at = "none"
  <2>1. "none" \in Ats /\ FALSE \in BOOLEAN
    BY DEF Ats
  <2>2. NoRequest = [at |-> "none", force |-> FALSE, of |-> g]
    BY <1>2 DEF NoRequest
  <2> QED BY <2>1, <2>2, RequestOpened, Zenon
<1>4. request \in [Times -> Requests] /\ \A t \in Times : request[t].at = "none"
  BY <1>3 DEF InitAnalysis
<1>5. RequestsTyped
  <2>1. /\ opened \in 0..MaxRequests /\ restarts \in 0..MaxRestarts
        /\ answer \in [Times -> 0..MaxRequests] /\ shown \in [Times -> 0..MaxRequests]
        /\ row \in [Times -> {"NONE", "COMPLETED", "FAILED"}]
    BY RequestsBounded DEF InitAnalysis
  <2> QED BY <1>4, <2>1, Zenon DEF InitAnalysis, RequestsTyped, Requests, Ats
<1>6. Begun /\ Backed /\ Over /\ Agreed
  BY <1>4 DEF InitAnalysis, Begun, Backed, Over, Agreed
<1> QED BY <1>5, <1>6 DEF IInv

\* and every step keeps it.
LEMMA StepIInv == IInv /\ [Store \/ NextAnalysis]_analysisVars => IInv'
<1> SUFFICES ASSUME IInv, [Store \/ NextAnalysis]_analysisVars PROVE IInv'
  OBVIOUS
<1>1. CASE Store
  BY <1>1, StoreKeeps
<1>2. ASSUME NEW force \in BOOLEAN, Open(force) PROVE IInv'
  BY <1>2, OpenKeeps
<1>3. ASSUME NEW t \in Times, Work(t) PROVE IInv'
  BY <1>3, LookKeeps, GenerateKeeps, FailKeeps DEF Work
<1>4. ASSUME NEW g \in Generations, NEW e \in BOOLEAN, Restart(g, e) PROVE IInv'
  BY <1>4, RestartKeeps
<1>5. CASE UNCHANGED analysisVars
  <2>1. RequestsTyped'
    BY <1>5, Zenon DEF IInv, analysisVars, settings, RequestsTyped, Times
  <2>2. Begun' /\ Backed' /\ Over' /\ Agreed'
    BY <1>5 DEF IInv, analysisVars, settings, Begun, Backed, Over, Agreed
  <2> QED BY <2>1, <2>2 DEF IInv
<1> QED BY <1>1, <1>2, <1>3, <1>4, <1>5 DEF NextAnalysis

\* The inductive invariant holds throughout.
THEOREM AnalysisInvariant == AnalysisSpec => []IInv
BY InitIInv, StepIInv, PTL DEF AnalysisSpec

\* RequestsTyped: every variable keeps its type.
THEOREM AnalysisTypeCorrect == AnalysisSpec => []RequestsTyped
<1>1. IInv => RequestsTyped
  BY DEF IInv
<1> QED BY <1>1, AnalysisInvariant, PTL

\* AnswersAgree: rows and the requests they are of are final, so what was
\* answered stays complete, and what GET shows is at least as young.
THEOREM AnswersAlwaysAgree == AnalysisSpec => []AnswersAgree
<1>1. IInv => AnswersAgree
  BY GetShows
<1> QED BY <1>1, AnalysisInvariant, PTL

-----------------------------------------------------------------------------
(* Both together *)

\* What is run and analysed together does to the simulation only what it does
\* by itself, and to the analyses only what they do by themselves.
THEOREM BothInOne == AdvisorSpec => Spec /\ AnalysisSpec
<1>1. InitAdvisor => Init /\ InitAnalysis
  BY DEF InitAdvisor
<1>2. [NextAdvisor]_<<vars, analysisVars>> => [Next]_vars
  BY DEF NextAdvisor
<1>3. [NextAdvisor]_<<vars, analysisVars>> => [Store \/ NextAnalysis]_analysisVars
  BY DEF NextAdvisor, Stored
<1> QED BY <1>1, <1>2, <1>3, PTL DEF AdvisorSpec, Spec, AnalysisSpec

\* So what is proved of each holds of both.
THEOREM AdvisorRunsCorrect ==
  AdvisorSpec => /\ [](Accounted /\ FillsInOrder /\ CurveMirrorsPass /\ AnswersAgree)
                 /\ BuysWithinTarget
BY BothInOne, AccountedHolds, FillsInOrderHolds, CurveMirrorsPassHolds, AnswersAlwaysAgree,
   BuysWithinTargetHolds, PTL
=============================================================================
