----------------------------- MODULE Portfolio -----------------------------
(***************************************************************************)
(* The default portfolio: positions are entered, deleted and repriced by   *)
(* concurrent requests, each one transaction at READ COMMITTED, while      *)
(* research runs store market prices and read the portfolio.               *)
(*                                                                         *)
(* A session keeps the positions it has read: reading a list again adds    *)
(* rows it has not seen and never updates those it has.  Rows written are  *)
(* locked until the transaction ends.  A price read back from the database *)
(* is a Decimal and rarely equals the float assigned, so every assignment  *)
(* is taken to be written.                                                 *)
(***************************************************************************)
EXTENDS Integers, FiniteSets, FiniteSetsExt, Functions

CONSTANTS Slots,         \* requests served at once
          Symbols,       \* numbers, in alphabetical order
          Quantities, Prices, Null,
          Cash,          \* cash_balance
          Entered,       \* symbols entered beforehand, when no price was stored
          MaxRequests, MaxPrices   \* bounds

Keys == 1..(Cardinality(Entered) + MaxRequests)

Positions == [id : Keys, qty : Quantities, price : Prices \cup {Null},
              value : Nat \cup {Null}, weight : {Null} \cup [of : Nat, equity : Nat]]

ASSUME ConstantsTyped == /\ IsFiniteSet(Slots) /\ IsFiniteSet(Symbols)
                         /\ Symbols \subseteq Nat /\ Entered \subseteq Symbols /\ Cash \in Nat
                         /\ Quantities \subseteq Nat \ {0} /\ Prices \subseteq Nat \ {0}
                         /\ Null \notin Prices \cup Nat \cup Positions
                         /\ MaxRequests \in Nat /\ MaxPrices \in Nat

VARIABLES market,   \* market[s]: the latest stored close
          priced,   \* number of prices stored
          rows,     \* portfolio_positions: rows[s] for the symbols held
          latest,   \* the latest portfolio snapshot, by as_of_time
          used,     \* primary keys given
          clock,    \* requests so far
          req,      \* req[r]: the request in slot r
          history   \* requests that met no other so far; whether the last one
                    \* that recomputed weights, and values, met none

portfolioVars == <<market, priced, rows, latest, used, clock, req, history>>

Kinds == {"upsert", "delete", "refresh"}

NoSnapshot == [at |-> 0, equity |-> Cash, values |-> <<>>]

Idle == [at |-> "idle", kind |-> "refresh", symbol |-> 0, qty |-> 0,
         view |-> <<>>,    \* positions in the session
         own |-> <<>>,     \* rows written and locked, Null where deleted
         todo |-> {}, equity |-> 0, snap |-> NoSnapshot]

InitPortfolio == /\ market = [s \in Symbols |-> Null] /\ priced = 0
                 /\ \E id \in [Entered -> 1..Cardinality(Entered)], q \in Quantities :
                      /\ \A s, t \in Entered : id[s] = id[t] => s = t
                      /\ rows = [s \in Entered |-> [id |-> id[s], qty |-> q, price |-> Null,
                                                value |-> Null, weight |-> Null]]
                 /\ latest = [NoSnapshot EXCEPT !.values = [s \in Entered |-> Null]]
                 /\ used = 1..Cardinality(Entered) /\ clock = 0
                 /\ req = [r \in Slots |-> Idle]
                 /\ history = [lone |-> {}, weights |-> TRUE, values |-> TRUE]

Go(r, new) == req' = [req EXCEPT ![r] = new]

Put(f, s, v) == [x \in DOMAIN f \cup {s} |-> IF x = s THEN v ELSE f[x]]

\* ensure_price_history of a research run commits a newer close
StorePrice(s, p) ==
  /\ priced < MaxPrices /\ market[s] # p
  /\ market' = [market EXCEPT ![s] = p] /\ priced' = priced + 1
  /\ UNCHANGED <<rows, latest, used, clock, req, history>>

-----------------------------------------------------------------------------
(* Statements *)

\* what a statement of r sees
Seen(r) == LET own == req[r].own IN
  [s \in {t \in DOMAIN rows \cup DOMAIN own : t \in DOMAIN own => own[t] # Null} |->
     IF s \in DOMAIN own THEN own[s] ELSE rows[s]]

\* list_by_account: the session's positions take precedence over what is read
Listed(r) == [s \in DOMAIN Seen(r) |->
               IF s \in DOMAIN req[r].view THEN req[r].view[s] ELSE Seen(r)[s]]

Holder(s, r) == {o \in Slots \ {r} : s \in DOMAIN req[o].own}

ValueOf(pos) == IF pos.value = Null THEN 0 ELSE pos.value

Total(view) == SumFunction([s \in DOMAIN view |-> ValueOf(view[s])])

\* an exception: the session ends without a commit
Fail(r) == /\ Go(r, Idle)
           /\ UNCHANGED <<market, priced, rows, latest, used, clock, history>>

-----------------------------------------------------------------------------
(* upsert_position, delete_position, refresh_portfolio *)

Begin(r, kind, s, q) ==
  /\ req[r].at = "idle" /\ clock < MaxRequests
  /\ clock' = clock + 1
  /\ Go(r, [Idle EXCEPT !.at = CASE kind = "upsert" -> "change" [] kind = "delete" -> "find"
                                 [] kind = "refresh" -> "list",
                        !.kind = kind, !.symbol = s, !.qty = q])
  /\ history' = [history EXCEPT !.lone = IF \A o \in Slots : req[o].at = "idle" THEN {r} ELSE {}]
  /\ UNCHANGED <<market, priced, rows, latest, used>>

\* upsert_position, whose caller passes no price: INSERT ... ON CONFLICT DO
\* UPDATE keeps the weight
Upsert(r) ==
  /\ req[r].at = "change"
  /\ LET s == req[r].symbol IN
       /\ Holder(s, r) = {}
       /\ \E id \in Keys :
            /\ IF s \in DOMAIN rows THEN id = rows[s].id ELSE id \notin used
            /\ used' = used \cup {id}
            /\ LET row == [id |-> id, qty |-> req[r].qty, price |-> Null, value |-> Null,
                           weight |-> IF s \in DOMAIN rows THEN rows[s].weight ELSE Null]
               IN Go(r, [req[r] EXCEPT !.at = "list", !.own = Put(@, s, row), !.view = Put(@, s, row)])
  /\ UNCHANGED <<market, priced, rows, latest, clock, history>>

\* get_by_symbol: 404 if there is none
Find(r) ==
  /\ req[r].at = "find"
  /\ IF req[r].symbol \in DOMAIN rows THEN Go(r, [req[r] EXCEPT !.at = "delete"]) ELSE Go(r, Idle)
  /\ UNCHANGED <<market, priced, rows, latest, used, clock, history>>

\* DELETE, which may find nothing any more.  Nothing is repriced.
Delete(r) ==
  /\ req[r].at = "delete"
  /\ LET s == req[r].symbol IN
       /\ Holder(s, r) = {}
       /\ Go(r, [req[r] EXCEPT !.at = "total",
                               !.own = IF s \in DOMAIN rows THEN Put(@, s, Null) ELSE @])
  /\ UNCHANGED <<market, priced, rows, latest, used, clock, history>>

-----------------------------------------------------------------------------
(* refresh_portfolio_prices *)

List(r) ==
  /\ req[r].at = "list"
  /\ Go(r, [req[r] EXCEPT !.at = "price", !.view = Listed(r), !.todo = DOMAIN Listed(r)])
  /\ UNCHANGED <<market, priced, rows, latest, used, clock, history>>

\* mutation: market_value is not assigned
RepricePrice(r) ==
  /\ req[r].at = "price" /\ req[r].todo # {}
  /\ LET s == Min(req[r].todo) IN
       IF market[s] = Null THEN Go(r, [req[r] EXCEPT !.todo = @ \ {s}])
       ELSE Go(r, [req[r] EXCEPT !.at = "write", !.view[s].price = market[s]])
  /\ UNCHANGED <<market, priced, rows, latest, used, clock, history>>

\* get_latest_close of the next position by symbol
Reprice(r) ==
  /\ req[r].at = "price" /\ req[r].todo # {}
  /\ LET s == Min(req[r].todo) IN
       IF market[s] = Null THEN Go(r, [req[r] EXCEPT !.todo = @ \ {s}])
       ELSE Go(r, [req[r] EXCEPT !.at = "write",
                     !.view[s].price = market[s],
                     !.view[s].value = req[r].view[s].qty * market[s]])
  /\ UNCHANGED <<market, priced, rows, latest, used, clock, history>>

\* An UPDATE of a row that is gone raises, unless several are sent at once.
Update(r, s, next, row) ==
  /\ Holder(s, r) = {}
  /\ IF s \in DOMAIN Seen(r) /\ Seen(r)[s].id = req[r].view[s].id
     THEN Go(r, [next EXCEPT !.own = Put(@, s, row)])
     ELSE Go(r, Idle) \/ Go(r, next)

\* mutation: the whole position is written
WriteAll(r) ==
  /\ req[r].at = "write"
  /\ LET s == Min(req[r].todo) IN
       Update(r, s, [req[r] EXCEPT !.at = "price", !.todo = @ \ {s}],
              req[r].view[s])
  /\ UNCHANGED <<market, priced, rows, latest, used, clock, history>>

\* The next query, or the flush at the end, writes what was assigned.
Write(r) ==
  /\ req[r].at = "write"
  /\ LET s == Min(req[r].todo) IN
       Update(r, s, [req[r] EXCEPT !.at = "price", !.todo = @ \ {s}],
              [Seen(r)[s] EXCEPT !.price = req[r].view[s].price, !.value = req[r].view[s].value])
  /\ UNCHANGED <<market, priced, rows, latest, used, clock, history>>

Repriced(r) ==
  /\ req[r].at = "price" /\ req[r].todo = {}
  /\ Go(r, [req[r] EXCEPT !.at = "total"])
  /\ UNCHANGED <<market, priced, rows, latest, used, clock, history>>

-----------------------------------------------------------------------------
(* build_portfolio_snapshot *)

Totalled(r) ==
  /\ req[r].at = "total"
  /\ LET equity == Total(Listed(r)) + Cash IN
       Go(r, [req[r] EXCEPT !.at = IF equity > 0 THEN "weigh" ELSE "snapshot",
                            !.view = Listed(r), !.equity = equity])
  /\ UNCHANGED <<market, priced, rows, latest, used, clock, history>>

Weight(pos, equity) == IF pos.value = Null THEN Null ELSE [of |-> pos.value, equity |-> equity]

\* update_weights lists the positions again
Weigh(r) ==
  /\ req[r].at = "weigh"
  /\ LET view == Listed(r) IN
       Go(r, [req[r] EXCEPT !.at = "flush", !.todo = DOMAIN view,
                !.view = [s \in DOMAIN view |->
                           [view[s] EXCEPT !.weight = Weight(view[s], req[r].equity)]]])
  /\ UNCHANGED <<market, priced, rows, latest, used, clock, history>>

FirstByKey(r) == CHOOSE s \in req[r].todo : \A o \in req[r].todo : req[r].view[s].id <= req[r].view[o].id

\* the flush writes the rows in the order of their keys
Flush(r) ==
  /\ req[r].at = "flush" /\ req[r].todo # {}
  /\ LET s == FirstByKey(r) IN
       Update(r, s, [req[r] EXCEPT !.todo = @ \ {s}],
               [Seen(r)[s] EXCEPT !.weight = req[r].view[s].weight])
  /\ UNCHANGED <<market, priced, rows, latest, used, clock, history>>

Flushed(r) ==
  /\ req[r].at = "flush" /\ req[r].todo = {}
  /\ Go(r, [req[r] EXCEPT !.at = "snapshot"])
  /\ UNCHANGED <<market, priced, rows, latest, used, clock, history>>

\* as_of_time: later than that of any snapshot
Now == 1 + Max({latest.at} \cup {req[r].snap.at : r \in Slots})

\* create_snapshot, of a third list
Snapshot(r) ==
  /\ req[r].at = "snapshot"
  /\ LET view == Listed(r) IN
       Go(r, [req[r] EXCEPT !.at = "commit", !.view = view,
                !.snap = [at |-> Now, equity |-> Total(view) + Cash,
                          values |-> [s \in DOMAIN view |-> view[s].value]]])
  /\ UNCHANGED <<market, priced, rows, latest, used, clock, history>>

Commit(r) ==
  /\ req[r].at = "commit"
  /\ rows' = Seen(r)
  /\ latest' = IF req[r].snap.at > latest.at THEN req[r].snap ELSE latest
  /\ Go(r, Idle)
  /\ LET lone == r \in history.lone IN
       history' = [history EXCEPT !.weights = lone,
                                  !.values = lone /\ (@ \/ req[r].kind # "delete")]
  /\ UNCHANGED <<market, priced, used, clock>>

-----------------------------------------------------------------------------
(* Locks *)

\* the row that r is about to lock
Wanted(r) == CASE req[r].at \in {"change", "delete"} -> {req[r].symbol}
               [] req[r].at = "write" -> {Min(req[r].todo)}
               [] req[r].at = "flush" /\ req[r].todo # {} -> {FirstByKey(r)}
               [] OTHER -> {}

WaitsFor(r) == UNION {Holder(s, r) : s \in Wanted(r)}

\* PostgreSQL ends one of those that wait for each other
Deadlock(r) == /\ \E o \in WaitsFor(r) : r \in WaitsFor(o)
               /\ Fail(r)

Step(r) == \/ Upsert(r) \/ Find(r) \/ Delete(r)
           \/ List(r) \/ Reprice(r) \/ Write(r) \/ Repriced(r)
           \/ Totalled(r) \/ Weigh(r) \/ Flush(r) \/ Flushed(r) \/ Snapshot(r) \/ Commit(r)
           \/ Deadlock(r)

NextPortfolio == \/ \E s \in Symbols, p \in Prices : StorePrice(s, p)
                 \/ \E r \in Slots :
                      \/ \E kind \in {"upsert", "delete"}, s \in Symbols, q \in Quantities : Begin(r, kind, s, q)
                      \/ Begin(r, "refresh", 0, 0)
                      \/ Step(r)

PortfolioSpec == InitPortfolio /\ [][NextPortfolio]_portfolioVars

\* A request that was received runs on.
FairSpec == PortfolioSpec /\ \A r \in Slots : WF_portfolioVars(Step(r))

-----------------------------------------------------------------------------
(* get_portfolio_context_for_symbol, of what is committed *)

\* a stored value is preferred to a newer price
Live(s) == IF rows[s].value # Null THEN rows[s].value
           ELSE IF market[s] # Null THEN rows[s].qty * market[s] ELSE 0

Context(s) ==
  LET stored == Total(rows) + Cash
      live == SumFunction([t \in DOMAIN rows |-> Live(t)]) + Cash
  IN [value |-> Live(s), equity |-> IF live > 0 /\ live # stored THEN live ELSE stored]

-----------------------------------------------------------------------------
(* Properties *)

Quiet == \A r \in Slots : req[r].at = "idle"

PortfolioTyped ==
  /\ market \in [Symbols -> Prices \cup {Null}] /\ priced \in 0..MaxPrices
  /\ DOMAIN rows \subseteq Symbols
  /\ \A s \in DOMAIN rows : rows[s] \in Positions /\ rows[s].id \in used
  /\ latest.at \in 0..clock
  /\ \A r \in Slots : \A s \in DOMAIN req[r].own :
       req[r].own[s] # Null => req[r].own[s].id \in used
  /\ \A s, t \in DOMAIN rows : rows[s].id = rows[t].id => s = t

\* "Recompute weights and save a new snapshot row": while nothing is under way
\* the weights are those of the latest snapshot's total, and the snapshot is of
\* the positions there are, if the last request met no other: also where the
\* requests before it left weights that did not agree.
WeightsRecomputed == Quiet /\ rows # <<>> /\ history.weights =>
  /\ latest.values = [s \in DOMAIN rows |-> rows[s].value]
  /\ \A s \in DOMAIN rows : rows[s].weight =
       IF rows[s].value = Null THEN Null ELSE [of |-> rows[s].value, equity |-> latest.equity]

\* A position is worth its quantity at its price, again with the next request
\* that reprices and meets no other.
WorthItsQuantity == Quiet /\ history.values => \A s \in DOMAIN rows :
  /\ rows[s].value = Null <=> rows[s].price = Null
  /\ rows[s].value # Null => rows[s].value = rows[s].qty * rows[s].price

\* A position appears, changes its quantity and disappears only by a request
\* about it: what is written after repricing undoes no other request.
Quantity(s) == IF s \in DOMAIN rows THEN rows[s].qty ELSE 0
OnlyAsEntered == [][\A s \in Symbols : Quantity(s)' # Quantity(s) =>
  \E r \in Slots : /\ req[r].symbol = s /\ req[r].at = "commit" /\ req'[r].at = "idle"
                   /\ Quantity(s)' = IF req[r].kind = "upsert" THEN req[r].qty ELSE 0]_portfolioVars

\* What a research run is told the positions are worth adds up, with the cash,
\* to what it is told of the account, with prices stored since.
ContextAddsUp == \A s \in DOMAIN rows :
  Context(s).equity = Cash + SumFunction([t \in DOMAIN rows |-> Context(t).value])

\* Weights, values, snapshot and context agree, each with what it was made of.
FiguresAgree == WeightsRecomputed /\ WorthItsQuantity /\ ContextAddsUp

\* "or after a research run loaded new prices"
ContextIsLive == Quiet => \A s \in DOMAIN rows :
  market[s] # Null => Context(s).value = rows[s].qty * market[s]

\* Every request ends, also those that wait for each other.
EveryRequestEnds == \A r \in Slots : (req[r].at # "idle") ~> (req[r].at = "idle")
=============================================================================
