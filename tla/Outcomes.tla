------------------------------ MODULE Outcomes ------------------------------
(***************************************************************************)
(* Measuring what became of recommendations: POST outcomes/measure-latest, *)
(* the outcome rows and the learning events.                               *)
(*                                                                         *)
(* A request works in one READ COMMITTED transaction: it sees what others  *)
(* have committed, its own rows become visible when it commits, and a row  *)
(* it has written is locked until then.  Completed runs and price history  *)
(* come from the research worker.                                          *)
(***************************************************************************)
EXTENDS OutcomeRules, Sequences

CONSTANTS Requests,   \* API requests that may be in progress together
          Symbols,    \* every run recommends all of them
          Benchmark,  \* benchmark_symbol
          Actions,
          Reviews,    \* statuses a user sets: REVIEWED, DISMISSED, APPLIED
          Days,       \* bound: the days on which something happens
          Stale,      \* _STALE_THRESHOLD_DAYS
          Buffer,     \* days after the horizon that bars are read for
          Markets,    \* price histories, 0 for a day without a bar
          MaxRuns,    \* bound: completed runs
          MaxCalls    \* bound: calls of measure-latest that are told apart

Recs     == (1..MaxRuns) \X Symbols
Unstored == -1
NoRow    == Unmeasured("ABSENT")

ASSUME ConstantsTyped ==
  /\ {Horizon, Stale, Buffer, MaxRuns, MaxCalls} \cup Days \subseteq Nat /\ 0 \in Days
  /\ Benchmark \notin Symbols
  /\ Markets \subseteq [Symbols \cup {Benchmark} -> [Days -> Nat]]

VARIABLES today,
          market,  \* closing prices, known to the provider
          stored,  \* stored[s]: market_prices holds the bars of s up to this day
          runs,    \* completed runs: day of as_of_time and finished_at, actions
          rows,    \* recommendation_outcomes
          events,  \* learning_events
          calls,   \* measure-latest calls so far, up to MaxCalls
          req,     \* what each request is doing
          raced    \* history: rows written over a commit made since they were read

vars == <<today, market, stored, runs, rows, events, calls, req, raced>>

\* req[q]: at "idle", between two recommendations ("next"), having read the row
\* of rec ("looked"), or having computed its outcome ("computed"); what it has
\* written and not committed yet
Idle == [at |-> "idle", call |-> 0, todo |-> {}, rec |-> None, seen |-> NoRow, found |-> NoRow,
         rows |-> [rec \in Recs |-> NoRow], events |-> {}]

Init == /\ today = 0
        /\ market \in Markets
        /\ stored = [s \in Symbols \cup {Benchmark} |-> Unstored]
        /\ runs = <<>>
        /\ rows = [rec \in Recs |-> NoRow]
        /\ events = {}
        /\ calls = 0
        /\ req = [q \in Requests |-> Idle]
        /\ raced = {}

-----------------------------------------------------------------------------
(* Time, prices and runs *)

Tick == \E d \in Days : /\ d > today
                        /\ today' = d
                        /\ UNCHANGED <<market, stored, runs, rows, events, calls, req, raced>>

StoredDays(s) == {d \in Days : d <= stored[s] /\ market[s][d] > 0}

\* ensure_price_history of a run that researches s today
StorePrices(s) ==
  /\ StoredDays(s) # {} => today - Max(StoredDays(s)) > Stale
  /\ stored' = [stored EXCEPT ![s] = today]
  /\ UNCHANGED <<today, market, runs, rows, events, calls, req, raced>>

\* A run completes; a replay is dated back to the day it replays.
CompleteRun(d, actions) ==
  /\ Len(runs) < MaxRuns
  /\ d <= today
  /\ runs' = Append(runs, [day |-> d, actions |-> actions])
  /\ UNCHANGED <<today, market, stored, rows, events, calls, req, raced>>

From(rec)   == runs[rec[1]].day
Action(rec) == runs[rec[1]].actions[rec[2]]

-----------------------------------------------------------------------------
(* measure_latest_recommendations *)

LatestRun == CHOOSE i \in DOMAIN runs : \A j \in DOMAIN runs :
               \/ runs[i].day > runs[j].day
               \/ runs[i].day = runs[j].day /\ i >= j

Measure(q) ==
  /\ req[q].at = "idle"
  /\ runs # <<>>
  /\ calls' = Min({calls + 1, MaxCalls})
  /\ req' = [req EXCEPT ![q] = [Idle EXCEPT !.at = "next", !.call = calls',
                                           !.todo = {LatestRun} \X Symbols]]
  /\ UNCHANGED <<today, market, stored, runs, rows, events, raced>>

\* generate_learning_event_from_outcome
Lesson(q, rec, row) ==
  IF Warrants(row, Action(rec))
  THEN {[rec |-> rec, call |-> req[q].call, type |-> EventType(row, Action(rec)),
         label |-> row.label, status |-> "OPEN"]}
  ELSE {}

\* The iteration for rec ends with row, after which the request holds own rows.
Conclude(q, rec, row, own) ==
  req' = [req EXCEPT ![q].at = "next", ![q].todo = @ \ {rec}, ![q].rec = None,
                     ![q].seen = NoRow, ![q].found = NoRow, ![q].rows = own,
                     ![q].events = @ \cup Lesson(q, rec, row)]

Elapsed(rec) == today >= From(rec) + Horizon

\* mutation: a row is measured again whatever its status
FinalNever(row) == row.status = "FINAL"

Final(row) == row.status = "MEASURED"

\* The row is final, or its time has not come: it is returned as it is.
ReturnRow(q, rec) ==
  /\ req[q].at = "next" /\ rec \in req[q].todo
  /\ rows[rec] # NoRow
  /\ Elapsed(rec) => Final(rows[rec])
  /\ Conclude(q, rec, rows[rec], req[q].rows)
  /\ UNCHANGED <<today, market, stored, runs, rows, events, calls, raced>>

\* The row of rec is to be written: a placeholder, or what will be computed.
Look(q, rec) ==
  /\ req[q].at = "next" /\ rec \in req[q].todo
  /\ ~Final(rows[rec])
  /\ rows[rec] = NoRow \/ Elapsed(rec)
  /\ req' = [req EXCEPT ![q].at = IF Elapsed(rec) THEN "looked" ELSE "computed",
                        ![q].rec = rec, ![q].seen = rows[rec],
                        ![q].found = IF Elapsed(rec) THEN NoRow ELSE Pending]
  /\ UNCHANGED <<today, market, stored, runs, rows, events, calls, raced>>

Bars(s, rec) ==
  [d \in StoredDays(s) \cap From(rec)..(From(rec) + Horizon + Buffer) |-> market[s][d]]

Compute(q) ==
  /\ req[q].at = "looked"
  /\ LET rec == req[q].rec
     IN  req' = [req EXCEPT ![q].at = "computed",
                   ![q].found = ForwardOutcome(Action(rec), Bars(rec[2], rec), Bars(Benchmark, rec))]
  /\ UNCHANGED <<today, market, stored, runs, rows, events, calls, raced>>

Locked(q, rec) == \E p \in Requests \ {q} : req[p].rows[rec] # NoRow

\* mutation: the label is not among the columns that are updated
MergedOldLabel(current, seen, found) == [found EXCEPT !.label = current.label]

\* mutation: MEASURED is final, but the other columns are updated
MergedFinalStatus(current, seen, found) ==
  [found EXCEPT !.status = IF current.status = "MEASURED" THEN current.status ELSE @]

\* SQLAlchemy updates the columns that differ from what was read.
Merged(current, seen, found) ==
  [f \in DOMAIN found |-> IF found[f] = seen[f] THEN current[f] ELSE found[f]]

\* mutation: the placeholder is upserted
WriteUpsert(q) ==
  /\ req[q].at = "computed"
  /\ ~Locked(q, req[q].rec)
  /\ Conclude(q, req[q].rec, req[q].found, [req[q].rows EXCEPT ![req[q].rec] = req[q].found])
  /\ UNCHANGED <<today, market, stored, runs, rows, events, calls, raced>>

Write(q) ==
  /\ req[q].at = "computed"
  /\ ~Locked(q, req[q].rec)
  /\ LET rec == req[q].rec
         row == IF req[q].seen = NoRow THEN req[q].found
                ELSE Merged(rows[rec], req[q].seen, req[q].found)
     IN  /\ IF req[q].seen = NoRow /\ rows[rec] # NoRow
            THEN req' = [req EXCEPT ![q] = Idle]     \* uq_outcome_rec_horizon_benchmark
            ELSE Conclude(q, rec, row, [req[q].rows EXCEPT ![rec] = row])
         /\ raced' = IF req[q].seen \notin {NoRow, rows[rec]} THEN raced \cup {rec} ELSE raced
  /\ UNCHANGED <<today, market, stored, runs, rows, events, calls>>

\* No column differs, raw_json included: nothing is updated, and what is there
\* now is read back.
KeepRow(q) ==
  /\ req[q].at = "computed" /\ req[q].found = req[q].seen
  /\ Conclude(q, req[q].rec, rows[req[q].rec], req[q].rows)
  /\ UNCHANGED <<today, market, stored, runs, rows, events, calls, raced>>

Commit(q) ==
  /\ req[q].at = "next" /\ req[q].todo = {}
  /\ rows' = [rec \in Recs |-> IF req[q].rows[rec] # NoRow THEN req[q].rows[rec] ELSE rows[rec]]
  /\ events' = events \cup req[q].events
  /\ req' = [req EXCEPT ![q] = Idle]
  /\ UNCHANGED <<today, market, stored, runs, calls, raced>>

\* A statement fails, also the one of an event although its error is caught
\* (the session is then unusable), a deadlock is broken, or the API dies.
Abort(q) ==
  /\ req[q].at # "idle"
  /\ req' = [req EXCEPT ![q] = Idle]
  /\ UNCHANGED <<today, market, stored, runs, rows, events, calls, raced>>

\* update_status of an event
Review(e, status) ==
  /\ e \in events /\ e.status # status
  /\ events' = (events \ {e}) \cup {[e EXCEPT !.status = status]}
  /\ UNCHANGED <<today, market, stored, runs, rows, calls, req, raced>>

-----------------------------------------------------------------------------
Environment == \/ Tick
               \/ \E s \in Symbols \cup {Benchmark} : StorePrices(s)
               \/ \E d \in Days, a \in [Symbols -> Actions] : CompleteRun(d, a)

Step(q) == \/ \E rec \in req[q].todo : ReturnRow(q, rec) \/ Look(q, rec)
           \/ Compute(q) \/ Write(q) \/ KeepRow(q) \/ Commit(q)

Next == \/ Environment
        \/ \E q \in Requests : Measure(q) \/ Step(q) \/ Abort(q)
        \/ \E e \in events, status \in Reviews : Review(e, status)

Spec == Init /\ [][Next]_vars

\* Generous: days pass, prices are stored, calls are made and get through.
FairSpec == /\ Spec
            /\ WF_vars(Tick)
            /\ \A s \in Symbols \cup {Benchmark} : WF_vars(StorePrices(s))
            /\ \A q \in Requests : /\ WF_vars(Measure(q))
                                  /\ SF_vars(\E rec \in Recs : ReturnRow(q, rec))
                                  /\ SF_vars(\E rec \in Recs : Look(q, rec))
                                  /\ SF_vars(Compute(q))
                                  /\ SF_vars(Write(q))
                                  /\ SF_vars(Commit(q))
-----------------------------------------------------------------------------
(* Properties *)

Measured(rec) == rows[rec].status = "MEASURED"

Labels == {"WIN", "LOSS", "NEUTRAL", "MISSED_UPSIDE", "AVOIDED_LOSS", "UNKNOWN"}

Rows == [status: {"ABSENT", "PENDING", "MEASURED", "INSUFFICIENT_DATA"}, label: Labels \cup {None},
         fwd: Int \cup {None}, rel: Int \cup {None}, dd: Int \cup {None},
         last: Days \cup {None}]

TypeOK ==
  /\ today \in Days /\ market \in Markets
  /\ stored \in [Symbols \cup {Benchmark} -> Days \cup {Unstored}]
  /\ \A s \in DOMAIN stored : stored[s] <= today
  /\ \A i \in DOMAIN runs : runs[i].day \in Days /\ runs[i].day <= today /\ runs[i].actions \in [Symbols -> Actions]
  /\ \A rec \in Recs : rows[rec] \in Rows
  /\ \A e \in events : e.rec \in Recs /\ e.label \in Labels
  /\ calls \in 0..MaxCalls
  /\ \A q \in Requests : /\ req[q].at \in {"idle", "next", "looked", "computed"}
                         /\ \A rec \in Recs : req[q].rows[rec] \in Rows

\* A row that says MEASURED has its label and its returns, also where requests
\* that computed on different prices wrote their columns over each other: who
\* found too few bars had read a row without a result, so that it updates no
\* column of another one's.
MeasuredComplete == \A rec \in Recs : Measured(rec) =>
  None \notin {rows[rec].label, rows[rec].fwd, rows[rec].dd, rows[rec].last}

\* A row that got a result never goes back to waiting for it, whichever of two
\* requests that handle it at once writes last; and "MEASURED row -> always
\* returned as-is (final state)": it is, but for the request that read it
\* before, while another one measured it.
SettledStays ==
  [][\A rec \in Recs :
       /\ rows[rec] # NoRow /\ rows[rec].status # "PENDING" => rows'[rec].status # "PENDING"
       /\ rec \notin raced' /\ Measured(rec) => rows'[rec] = rows[rec]]_<<rows, raced>>

\* The columns of a row are those of one measurement, unless two requests wrote
\* theirs, one over the other's commit.
RowFromOneMeasurement ==
  \A rec \in Recs \ raced : rows[rec] # NoRow =>
    LET row == rows[rec]
    IN  IF row.status = "MEASURED"
        THEN row.label = ClassifyLabel(Action(rec), row.fwd,
                                       IF row.rel = None THEN row.fwd ELSE row.rel)
        ELSE row.label = None

\* A lesson and the outcome it is about appear with one commit, and what it was
\* drawn from stays true of the outcome; of one two requests wrote, it is there.
EventsBacked == \A e \in events :
  /\ rows[e.rec] # NoRow
  /\ e.rec \notin raced => Measured(e.rec) /\ rows[e.rec].label = e.label

\* Bars "must cover at least horizon_days calendar days": no trading day of the
\* horizon, up to today, lies behind the last bar of a final measurement.
MeasuredCoversHorizon ==
  \A rec \in Recs : Measured(rec) =>
    \A d \in Days : d > rows[rec].last /\ d <= From(rec) + Horizon /\ d <= today
                    => market[rec[2]][d] = 0

\* "If the horizon has not elapsed or price data is insufficient, rows are
\* returned with outcome_status=INSUFFICIENT_DATA" (POST outcomes/measure-latest).
EarlyIsInsufficient ==
  \A rec \in Recs : rows[rec] # NoRow /\ ~Elapsed(rec) => rows[rec].status = "INSUFFICIENT_DATA"

\* "idempotent re-measurement": measuring again teaches nothing new.
OneEventPerOutcome == \A e, f \in events : e.rec = f.rec => e.call = f.call

\* "PENDING row, horizon elapsed -> row is updated with computed result": once
\* its horizon is over a row does not wait for ever.
NoStaleRow ==
  \A rec \in Recs :
    (rows[rec] # NoRow /\ rows[rec].status = "PENDING" /\ Elapsed(rec))
      ~> (rows[rec] # NoRow /\ rows[rec].status # "PENDING")

\* The table of docs/MILESTONES.md for a buy.
DocumentedBuy(fwd, rel) ==
  IF fwd >= 3 \/ (rel # None /\ rel > 0) THEN "WIN"
  ELSE IF fwd <= -3 \/ (rel # None /\ rel <= -5) THEN "LOSS" ELSE "NEUTRAL"

BuysLabelledAsDocumented ==
  \A rec \in Recs : Measured(rec) /\ Action(rec) \in BuyLike =>
    rows[rec].label = DocumentedBuy(rows[rec].fwd, rows[rec].rel)
=============================================================================
