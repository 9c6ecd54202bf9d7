# Verification of the investment consultant

TLA+ modules that model the control of the system under `src/`, TLC runs that
check them on small instances, and TLAPS proofs of what holds for every
instance. Paths below are relative to `src/` unless they name a module.

## The system

| Part | Code | State it keeps | Operations |
|---|---|---|---|
| Research runs API | `apps/api/routers/research_runs.py` | `research_runs`, `research_run_tickers` | create (async: commit, then `send_task`; sync: execute in the request), list, detail, historical replay batches, batch status, batch backtest, report and evaluation |
| Worker and beat | `apps/worker/celery_app.py`, `apps/worker/tasks/research.py` | messages in Redis | execute a run (`acks_late`, prefetch 1), scheduled daily and pre-market runs with a deduplication check |
| Run execution | `packages/research_graph/runner.py`, `nodes/persist_results.py` | one open database transaction per execution | for each ticker: RUNNING, the graph, COMPLETED or FAILED; then the run's verdict and the commit |
| Research graph | `packages/research_graph/graph.py`, `nodes/*.py` | `ResearchState` of one ticker | fourteen nodes in a chain, each of which degrades instead of raising |
| Decision engine | `packages/decision_engine/policy.py`, `packages/portfolio/risk.py` | none | score to action, seven risk gates, size, fit, trade |
| Strategy versions | `packages/db/repositories.py` | which version is active | create (used by the seeds), activate (called by a test only) |
| Market data, news, social, fundamentals | `packages/market_data`, `news`, `social`, `fundamentals` | price bars, articles, posts, snapshots shared by all runs | fetch if stale, upsert, score |
| LLM analysis | `packages/ai`, `packages/local_llm` | none | prompt, call, parse, sanitize; the result is advisory |
| Memory | `packages/memory` | ChromaDB, `memory_index_events` | retrieve for a prompt, index a recommendation, reindex and reset from the command line |
| Backtesting | `packages/backtesting` | outcomes, learning events, advisor runs, trades and equity points | evaluate a recommendation's outcome, simulate the advisor on a history of recommendations, generate or return the analysis of a simulation |
| Broker | `packages/broker/ibkr`, `apps/api/routers/ibkr.py` | executions, positions, sync history | Flex query (send, poll, parse), sync, FIFO trading profile |
| Portfolio | `packages/portfolio` | accounts, positions, snapshots | CRUD, snapshot, context for a run |
| CLI, seeds, health | `apps/cli`, `apps/api/routers/health.py`, `scripts` | none of its own | thin callers of the above |

The API and the workers share PostgreSQL, Redis and ChromaDB and call each
other only through them. `packages/` never commits; only `apps/` does, so one
execution is one transaction and the session's state decides what survives it.

### What is hard here

- **A message is not delivered exactly once.** The worker acks after the task
  and Redis hands an unacked message out again after its visibility timeout; the
  task starts a run whatever status it has. `send_task` may raise after it
  published. The API may die between the commit and `send_task`.
- **A transaction is shared by code that swallows errors.** News and prices are
  "best effort", but a failed statement poisons the session all other nodes, and
  the final verdict, are written with. Runs over the same symbols lock the same
  rows in the order of their own tickers.
- **Requests read, compute and write in separate statements.** Outcomes are
  measured, executions imported and positions repriced at READ COMMITTED,
  without a version or a lock on what was read; what protects a row is the order
  of statements, a unique index, or nothing.
- **A second store is written inside a transaction.** A report of a recommendation
  is in ChromaDB before its row is committed, and stays when the transaction is
  lost; what failed to be indexed is written down in the transaction itself.
- **Things are applied in another order than they were decided.** Trades of the
  simulation are decided in the order of recommendations and filled where there
  is a price; executions are imported late; replay runs finish in any order.
- **A decision is revised after it was made.** The score is computed before the
  portfolio is read, then rewritten; actions are looked up, capped, looked up
  again and gated, and penalties are collected by nodes before and after the
  confidence they reduce.

The hazards are listed one by one, at their lines, in `PROJECT.json`.

## Modules

| Module | Models |
|---|---|
| `RunLifecycle` | The abstract promise: a run's status and, as a count, the recommendations a reader can see of it (docs/MILESTONES.md:282) |
| `ResearchRuns`, `MCResearchRuns` | Creation, queue, execution, commit and every fault; implements `RunLifecycle`. Fault budgets and small sets for TLC |
| `Policy` | Pure operators: score to action, gates, size, trade |
| `Recommendation`, `MCRecommendation` | One ticker through the graph; extends `Policy`. A strategy and inputs on both sides of every threshold |
| `Scheduler` | Beat, the look for a recent run, creating and sending one, the worker's processes |
| `ReplayBatch` | One historical replay: creation, enqueueing, execution, evaluation; every run of it refines `RunLifecycle` |
| `ReplayReport` | The dates of a batch, timelines of scores, their changes, summaries and highlights |
| `Replay`, `MCReplay` | Composes the two: how a batch is executed, and what its report says |
| `AdvisorSimulation` | Following the advisor on a history of recommendations and prices; the equity curve |
| `BacktestAnalysis` | Requests for an analysis of a stored simulation, by changing models |
| `AdvisorRuns`, `MCAdvisorSimulation` | Composes the two: a simulation that is done is stored, and then analysed |
| `OutcomeRules` | Pure operators: outcome of a recommendation, label, whether it is a lesson |
| `Outcomes`, `MCOutcomes` | measure-latest by concurrent requests, rows, lessons, reviews; extends `OutcomeRules` |
| `BrokerSync`, `MCBrokerSync` | Session and Flex imports and profile rebuilds as concurrent transactions |
| `TradingProfile`, `MCTradingProfile` | First-in-first-out matching, summary and flags over every history, times that tie included |
| `Portfolio`, `MCPortfolio` | Positions, repricing, weights and snapshots by concurrent requests; the context a run reads |
| `Memory`, `MCMemory` | Reports of recommendations beside the transactions they are written in; reindex and reset |
| `ResearchRuns_proofs`, `Scheduler_proofs` | Theorems about the module of that name |
| `Replay_proofs` | Theorems about `ReplayBatch`, `ReplayReport` and their composition |
| `Decision_proofs` | Theorems about `Recommendation` (with `Policy`) and `Portfolio`: what is decided, and what it is decided of |
| `AdvisorRuns_proofs` | Theorems about `AdvisorSimulation`, `BacktestAnalysis` and their composition |
| `Broker_proofs` | Theorems about `BrokerSync` and `TradingProfile`: what comes from the broker and what is computed of it |
| `Learning_proofs` | Theorems about `Outcomes` and `Memory`: what is kept of a recommendation |
| `SetLemmas` | Lemmas the proofs share: sums over finite sets, least and greatest elements |

`ResearchRuns` takes the graph of a ticker as one step that may fail in each of
the ways `Recommendation` shows; `Scheduler` and `ReplayBatch` take an execution
as a whole, its steps and faults are those of `ResearchRuns`; `Outcomes` and
`AdvisorSimulation` begin with committed recommendations; `Memory` takes the rows
of one ticker and the end of the transaction they are in. A module ends with its
properties. Operators that follow a comment "mutation:" are what a plausible bug
would make of the next definition; nothing uses them.

### ResearchRuns

`status`, `error`, `tick` and `recs` are the committed rows; `txn[e]` is what
executor `e` has flushed and not committed. An executor is a Celery worker or
the synchronous request of a run. `api` is where the POST request of a run is,
`queue` holds the deliverable messages of a run, and `restored` says whether
the message a worker holds was handed out a second time.

| Action | Code |
|---|---|
| `SubmitAsync`, `Enqueue`, `EnqueueFails`, `RejectRun`, `ApiCrash` | `create_research_run` around its commit and `send_task` |
| `SubmitSync` | the synchronous branch: the request itself becomes the executor |
| `Deliver`, `Start`, `Ack` | the task: load, RUNNING and commit, ack after it returned |
| `NextTicker`, `EnterTicker`, `WriteSharedData`, `Recommend` | the runner's loop and what the graph flushes |
| `NeutralFails`, `PersistRaises`, `NodeRaises`, `WriteFails`, `SetupFails`, `DbError` | the ways a ticker or an execution goes wrong |
| `DeadlockVictim` | PostgreSQL fails one statement of a cycle of row locks |
| `Commit`, `Raise` | the final `update_status` and commit, or the exception it raises on a poisoned session |
| `Redeliver`, `WorkerRestart`, `ChildLost` | what Redis and Celery do with an unacked message |

Every fault is counted against `Budget`. The budgets are the only bound of the
model: without faults an execution ends. The proofs hold for every budget.

### Recommendation

`node` is the node that runs next; the other variables are the fields of
`ResearchState` that decide something. `saved` is what `persist_results` wrote.
Every node has a succeeding and a degrading outcome with the penalty the code
attaches to it. Scores are whole points, or tenths where the code adds floats,
with Python's rounding half to even. Which indicators or ratios gave a score is
abstracted to the score; which of them were missing is kept.

`Strategy` is a constant, `StrategyTyped` asks no more of it than that numbers
are numbers and caps are actions: the API accepts any such configuration.

### Scheduler

`tasks[f]` is where the scheduled task of firing `f` is between its statements,
`runs` the scheduled runs with their `created_at`, which is the hour their
transaction began (`Proceed`, the look) and not the one they are inserted in.
`messages` are those that execute runs: `Start` begins the run of a message
whatever its status, as the task does, `Finish` settles it, and `RedeliverRun`
hands a message out again whose worker died or whose visibility timeout passed,
before or after the verdict. `again` is a history field: the run was settled and
a redelivered message started it once more. `Busy` counts what occupies a worker
process, tasks and executions alike. `Skip` stands for a recent run and for an
empty watchlist, so it is always possible; `Proceed` needs that
`has_recent_scheduled_run` found none. `SendFails` leaves the run, published or
not.

`OneInWindow` bounds the active runs created in any window by the processes. Runs
started again are left out of it: they were counted when they were new, no look
is made before they return, and with them the bound is exceeded, which is
`OneInWindowOfAll` under Divergences.

### ReplayBatch

`Create` is the transaction that creates all runs; `Send`, `SendFails`,
`MarkFailed` and `Respond` are the loop of `create_historical_replay` and its
except clause, `Crash` what may happen between the commit and the loop. An
evaluation pins the completed runs (`Evaluate`), reads their recommendations
twice (`ReadPoints`, `Backtest`) and is answered 422 when the simulation rejects
them. `strayed` is a history variable: the runs of which a message was handed
over twice or published by a send that raised. Queue faults are those of
`ResearchRuns`; here the question is what they do to a batch.

### ReplayReport and Replay

Dates are numbered through a calendar of months of different lengths, so that a
monthly replay meets a month that lacks its day. `made[s]` are the
recommendations that exist, with two score components and their total; `Complete`
adds one in any order of dates, as runs of a batch do. What the report says is
operators over them (`Changes`, `Summary`, `Extreme`, `Behavior`): sorting is taking
the date of each rank (`Nth`), and the loops that keep the largest step so far are
one recursive function over sizes (`FirstLargest`), of which `LargestMove` takes the
absolute steps and `Extreme` those of one sign, symbol after symbol. `Replay` runs
one or the other: neither reads the other's state but for which runs completed.

### AdvisorSimulation

The three loops of `run_advisor_backtest`: `Seed`, the pass over recommendations
sorted by time (`Follow`), and the curve (`ReplayTrade`, `EndOfDay`). A
recommendation fills at the first price within the tolerance, so its fill may
be dated after that of a later recommendation of another symbol. Money is in
whole units and costs are rounded down: quantities are whole shares here where the
code uses floats, which the instance's round prices make exact. Recommendations
are drawn one by one, in time order, which is the order the code sorts them in.

### BacktestAnalysis and AdvisorRuns

A request is named by the time its transaction began, which is the `created_at`
its row gets: rows are ordered by it, though they are written when the model
answers. `Open`, `Look`, `Generate` and `Fail` are the steps of
`generate_advisor_backtest_analysis`, `Get` the cached answer of the GET request,
`Restart` changes model or prompt and loses what is under way. `shown` is a history
variable: what GET would have returned when a request looked. In `AdvisorRuns` a
simulation that is done is stored; one that is refused never has analyses.

### OutcomeRules and Outcomes

Returns are whole percents. `rows` and `events` are committed; `req[q]` is where a
request is (`Look`, `Compute`, `Write` for each recommendation of the latest
run) with what it wrote and did not commit. `Locked` is the row lock a write
takes, `Merged` what SQLAlchemy's unit of work sends, the columns that changed
against what was read. `raced` is a history variable: rows that one request
wrote over a commit made since it read them. The code has no guard against that,
so what a row promises is stated for all others, but `MeasuredComplete`, and that a
result never turns into a placeholder again, for every row: two requests may both
write columns of a MEASURED row, of different prices, and still leave none of
them empty, because the one that found too few bars sends no column in which
it agrees with the row it read. `KeepRow` is the write that has nothing to send, takes no
lock and reads back what is there. A row that does not exist is `NoRow`, so that
rows are records throughout.

### BrokerSync

`accounts`, `rows`, `status` and `snapshots` are committed, `req[q]` is a request
with its open transaction: `began` is the time `func.now()` gives every row of
it, `new` its inserts. An insert of a key another transaction has inserted waits
(`Blocked`), a mark of the account locks its row (`LockedBy`). A feed's
exec_ids never equal the other's. `Raise` records the failure and is rolled back.

Executions have the times their feed tells (`ExecutedAt`), which may tie: a Flex
statement has seconds, or days only (`flex_parser.py:87`), and the sort is
stable, so that those of one time are stored in any order (`Listed`). Two imports
may therefore wait for each other; PostgreSQL fails one (`DeadlockVictim`), whose
request ends without a mark. The request of a session's executions
(`trade_history.py:90`) has no timeout, so `FetchSession` may never happen and
is not fair.

### TradingProfile

`history` is what is stored; `Record` adds any execution, in any order of time.
The rest are operators. `FifoMatch` is the loop of `_fifo_match` as a recursive
function of its rounds, on a record of the loop's variables: `todo` (executions it
has not come to), `at` and `remaining` (the sale at hand and what it still sells),
`lots` (`buys_by_symbol`) and `pairs`. An execution is at a place in the order in which
`list_since` returns the history; `Time` maps places to `executed_at`, monotonic but
not injective: nothing breaks ties (`repositories.py:933`), so `Reread` exchanges two
executions of one time. What is open is therefore what the account holds going by
the order read (`HeldAsRead`), and what it holds by time (`Held`) where no purchase of
the symbol has the time of a sale. `Take` goes on to the next execution, `Sell` is
the body of the inner loop, `Rounds` bounds how often either happens. `Summary` and
`Flags` multiply ratios out where the code divides.

### Portfolio

`rows` and `latest` are committed positions and snapshot. `req[r]` goes through
the statements of `upsert_position`, `delete_position` and `refresh_portfolio`:
what its session has read (`view`) takes precedence over what a statement
returns, what it wrote (`own`) is locked until it ends. A weight is kept as the
value and the total it was divided from. `history` remembers whether the last
request met another one; the code takes no lock on the portfolio, so that weights
and values agree is promised for a request that runs alone, in whatever state
earlier races left the rows.

### Memory

`at[e]` is how far execution `e` of a run has come with one ticker, `event[e]` its
`MemoryIndexEvent`, `reports` the collection in ChromaDB, filed by run: an
execution of the same run replaces the report. `Retrieve` takes the most similar
reports (any set of the size of the limit) and tells the newest of them;
`Persist` and `IndexFails` upsert and add the event to the transaction that
`Commit` makes visible or `Lose` throws away, which leaves the report. `Reindex`
loads events and rows, `ReindexOne` writes one report with the time of now and
`ReindexEnds` commits the events that succeeded; `Reset` drops the collection, also
meanwhile. `stamped`, `wiped` and `restamped` are history variables the
properties speak with; `told[e].missed` are the recommendations that are newer
than the one `e` was told and known to the memory when it asked.

## Runs

| Run | What it asks | Bounds |
|---|---|---|
| `runs_faults` | Reader's view under every kind of fault, in any order | 1 run, 2 symbols, 2 workers, each of the 12 faults up to once |
| `runs_lifecycle` | `RunLifecycle` is implemented when messages are delivered once, and COMPLETED has no error | 2 runs that share rows, 2 symbols, 2 workers, all faults but duplication |
| `runs_liveness` | Everybody is settled: unavailable or ambiguous queue, restarts, failing nodes | 1 fault of each recoverable kind, `FairSpec` |
| `decision` | Gates, evidence, consistency and limits of a decision | the seeded strategy; 3 signal, 3 snapshot, 2 news values, 5 portfolios on both sides of each limit |
| `schedule` | Duplicates of a window are bounded by the processes, redelivered runs included; every firing is answered | 2 processes, 3 firings, 3 hours with a window of 1, 1 fault, `FairSpec` |
| `replay` | Every run of a batch keeps its lifecycle, the batch settles, an evaluation is consistent; monthly dates are monthly, and the report's steps, summaries and highlights agree | 3 dates, 1 symbol, a failing or ambiguous send, a crash, 1 redelivery, `ReplaySpec` is fair; for reports 3 months of unlike lengths, 2 symbols, 3 scores, up to 3 dates |
| `advisor` | Money is conserved and not overdrawn, buys stay within target, the curve ends where the pass did; analyses are of the model asked for and never go back | 2 symbols, 3 recommendations, a window of 3 days, 5 price tables with gaps, 4 holdings; 3 requests, 2 restarts, 2 models |
| `outcomes` | A measured row is complete whoever wrote it, results are never lost and final once measured, lessons stay true | 2 requests, 1 run of 3 actions, 4 days, 3 price histories |
| `broker` | Nothing skipped is lost, profiles are current, requests end that are answered, in a deadlock only over tied executions | 2 requests of any kind, 2 fills at different times for a session and on one day for a statement, 2 polls, an empty database, `FairSpec` |
| `profile` | Shares and money are conserved by matching, new trades only append | every history of up to 4 executions of 2 symbols at 3 times, 2 of them tied, in every order |
| `portfolio` | Weights, values and context agree, no request undoes another | 3 requests, 2 at once, 2 positions of which 1 was entered before, 2 quantities, a price for each |
| `memory` | No committed recommendation of a completed ticker is forgotten, every report is explained, a run is told the newest | 2 runs, one executed twice, a limit of 2, 2 faults, 2 uses of the command line |

Each property has a mutant in `PROJECT.json`: a change of the model a plausible
bug would be, under which TLC finds the property violated.

Why the bounds are enough. Two workers are what a duplicated message needs to
run concurrently with its original; two symbols are what a half finished
execution and a lock cycle need; two runs share rows. One fault of each kind
already lets any two kinds meet in any order. A decision is one pass along a
chain, so only the values matter, and they are taken on both sides of every
threshold the code compares with. Three firings are one more than there are
processes, and a window of one hour within three lets a run age out of it. Three
dates let a send fail with runs sent before and unsent after it. Two requests
make every race between read and write of one row; two fills or positions are
what a wait cycle needs; a third portfolio request meets what two left behind.
Three recommendations buy, reduce and sell, or move cash from one symbol to
another. Four executions split a lot over two sales and a sale over two lots.
Three executions over two runs are the least with a report that is replaced
beside one that is not; two commands are a reset inside a reindex. Three requests
for an analysis are one that answers late, one that answered before it and one
that looks. `portfolio` stores at most one price for each symbol, so a value ages
there only by its quantity: a limit of that run.

Symmetry is used only where the properties are invariants or action properties
of interchangeable model values, never with liveness.

Deadlock checking is off in the runs whose requests, firings or recommendations
end and are not started again; it is on in `outcomes`, where calls never end.

### Fairness

`FairSpec` asks for weak fairness of what a live process does unprompted: a
request that has committed goes on to enqueue or reject, a pending message is
taken by an idle worker, a worker steps through its task. Clients need not
submit and no fault is fair. Row locks need no strong fairness: a transaction
keeps its locks until it ends, and a cycle of them is broken by PostgreSQL
(`DeadlockVictim`, part of `Progress`).

In the other modules fairness is the same: weak fairness of each step of a
request that was received (`BrokerSync`, `ReplayBatch`) and of the worker's
processes (`ReplayBatch`, `Scheduler`), which a live process takes unprompted.
Failures, redeliveries, time, new requests and firings are never fair. In
`BrokerSync` a poll is fair, it has a timeout, and so is the database that breaks a
deadlock; the answer of a session is not. `EveryRequestEnds` says of a session that
waits for it only that it holds no one else up.

### How a run is stranded

`runs_liveness` leaves out three faults, each of which strands a run alone:
`apicrash` (committed QUEUED, never sent), `lostchild` (Celery acks the message
of a child that died, `task_reject_on_worker_lost` is not set) and a database
error inside an execution (the task raises, the message is acked, the run stays
RUNNING). It also leaves out a redelivery together with a restart: the second
copy completes and is consumed, the first delivery starts the run again, its
worker is restarted, and the message, handed out before, does not come back. No
code looks for runs that stay QUEUED or RUNNING.

## Divergences

What the code says of itself and does not do, met while modelling. The
definitions are stated in their modules and were found violated by TLC; to see
one, replace the properties of the module's `.cfg` by it. `LifecycleSpec` needs a
budget with a redelivery, `SendFails` and `Crashes` are on in the runs as they
stand.

| Definition | Where | What the code does |
|---|---|---|
| `ResearchRuns!ExecutionSettles` | `packages/news/service.py:130` | "best-effort, do not fail the run", but the failed upsert poisons the session the run is settled in: the run stays RUNNING |
| `RunLifecycle` with a redelivery | `apps/worker/tasks/research.py:111` | a settled run goes back to RUNNING and its recommendations are written again (docs/MILESTONES.md:282) |
| `ResearchRuns!CompletedHasRecommendations` | `nodes/persist_results.py:73` | a failing scoring node gives a COMPLETED ticker without a recommendation (Principles.md:60, 69) |
| `Recommendation!CriticCapStands` | `nodes/load_portfolio_context.py:97` | rescoring lifts the critic's cap ("only downgrade, never upgrade", `nodes/neutral_recommendation.py:500`) |
| `Recommendation!LlmFailurePenalized` | `packages/ai/schemas.py:185` | a failed call costs no confidence (Principles.md:63) |
| `Recommendation!EveryPenaltyRecorded` | `nodes/personalized_recommendation.py:144` | a penalty after scoring is in no saved confidence (Principles.md:73) |
| `Recommendation!SellBelowThreshold` | `nodes/neutral_recommendation.py:437` | `has_position` is never passed, SELL is unreachable (README.md:110) |
| `AdvisorSimulation!NoLookahead` | `packages/backtesting/advisor_simulation.py:801` | "no lookahead", but a purchase may be paid by a sale that fills later: the curve's cash is negative |
| `Outcomes!SettledStays` for `raced` rows | `packages/backtesting/service.py:384` | "MEASURED row → always returned as-is": a request that read it PENDING overwrites it |
| `Outcomes!MeasuredCoversHorizon` | `service.py:372` | "Must cover at least `horizon_days` calendar days" (line 69): half of the bars suffice |
| `Outcomes!EarlyIsInsufficient` | `apps/api/routers/backtesting.py:48` | "If the horizon has not elapsed … INSUFFICIENT_DATA": such a row is PENDING |
| `Outcomes!OneEventPerOutcome` | `service.py:572` | "idempotent re-measurement" (docs/MILESTONES.md:207): a second call writes the lessons again |
| `Outcomes!BuysLabelledAsDocumented` | `service.py:161` | a relative return of zero is a WIN (docs/MILESTONES.md:216) |
| `Outcomes!NoStaleRow` | `service.py:528` | only the latest run is measured, rows of a superseded one stay PENDING (line 302) |
| `ReplayBatch!NoneQueuedForever` | `apps/api/routers/research_runs.py:335` | "so they don't sit QUEUED forever" (line 354), but what fails before the try leaves them |
| `BrokerSync!FailureRecorded` | `packages/portfolio/trade_history_service.py:240` | the failure mark is rolled back with the import (docs/ibkr-flex-query.md:122) |
| `BrokerSync!OneDefaultAccount` | `packages/db/repositories.py:1101` | two first imports both create the default account |
| `BrokerSync!FillsCountedOnce` | `packages/broker/ibkr/flex_parser.py:176` | the two feeds' exec_ids differ for one fill (docs/ibkr-flex-query.md:86) |
| `BrokerSync!ProfileRebuilt` | `repositories.py:1025` | the latest profile is the one whose transaction began last, not the one built last |
| `TradingProfile!WindowKeepsTrades` | `trade_history_service.py:80` | a sale whose lot is older than the window is matched to a later lot |
| `TradingProfile!TradedIsReported` | `packages/portfolio/trading_profile.py:254` | a symbol only bought has "No trade history" |
| `TradingProfile!OpenIsHeld` | `packages/portfolio/trading_profile.py:92` | a purchase and a sale of one time are read in any order (`repositories.py:933`): read sale first, the lot stays open |
| `TradingProfile!TradesRepeat` | `trade_history_service.py:126` | for the same reason the same executions may make other trades when the profile is built again |
| `Portfolio!WeightsRecomputed` for requests that meet | `packages/portfolio/service.py:83` | each snapshot misses the other's position |
| `Portfolio!WorthItsQuantity` for requests that meet | `service.py:52` | a refresh writes the value of the quantity it read |
| `Portfolio!ContextIsLive` | `service.py:135` | a stored value is preferred to a newer price (lines 130, 131) |
| `Scheduler!OneInWindow` with 1 for `Workers` | `apps/worker/tasks/research.py:245` | two tasks on two processes both create a run ("prevent duplicate beat runs", `repositories.py:312`) |
| `Scheduler!OneInWindowOfAll` | `research.py:111` | a settled run whose message is handed over again is active again, beside those of its window |
| `Scheduler!CreatedIsExecuted` | `apps/worker/tasks/research.py:294` | a run whose send raises stays QUEUED and makes firings skip for six hours |
| `Memory!EveryRowFound` | `nodes/persist_results.py:97` | a row flushed before a later statement raised is committed with a FAILED ticker, without report or event ("Rows with status=FAILED can be replayed", `packages/db/models.py:737`); only `reindex --all` comes upon it |
| `ReplayReport!CauseExplains` | `packages/backtesting/replay_report.py:117` | "Mainly because {key} improved" may name `total_score`, the total itself |

Others were met outside what the modules state as definitions:

- `packages/memory/retriever.py:81` promises "the newest real research run doc",
  but the top `limit` by similarity are taken first (`chroma_client.py` sorts
  what the query returned), and a ticker without a recommendation indexes an
  "UNKNOWN" report that passes for one. `HistoryTold` therefore claims nothing
  once there are more reports than `Limit`. A reindex stamps its reports with the
  present, so an old one becomes the newest (`restamped`), and a reindexed older
  row replaces the report of a later execution of its run.
- "Rows with status=FAILED can be replayed" (`packages/db/models.py:737`): a
  failed event of a ticker without a recommendation has no entity, and `reindex`
  skips it.
- Reports of executions whose transaction was lost stay (`ReportsExplained`
  allows them), and replays of past dates read and write the same memory as live
  runs (docs/MILESTONES.md:410 admits it). Manual notes are never read.
- Two requests for an analysis that overlap both call the model although neither
  was forced ("Generate (or return cached)").

## Proofs

The theorems hold for every value of the constants: any number of runs, symbols,
workers, requests, faults. Three state a hypothesis, named below, which the
instances of their runs satisfy. Each module proves an inductive invariant, a
conjunction of named parts, and what follows from it.

**`ResearchRuns_proofs`.** `IInv` is inductive, and gives `TypeOK`, `WholeOutcome`,
`NothingBeforeStart` and the action property `RecsWithVerdict`. `WholeOutcome`
speaks of committed rows only and is not inductive: what a commit writes was
decided by what was flushed before it. `IInv` adds `TxnInv` (only the ticker in
the graph is flushed RUNNING, recommendations belong to settled tickers),
`ExecutorInv` (a busy executor works on a submitted run and holds a clean
transaction outside the loop) and `RequestInv` (an unsubmitted run has no
message). The operators on transactions are used through lemmas that give their
fields. Two more invariants are built on it:

- `Counted`, for `DuplicatesNeedRedelivery`: the recommendations of a ticker and
  the chances left for more (a request not asked yet, messages, executions under
  way) are at most one more than the messages that came back. Every step trades a
  chance for another or for a recommendation; a redelivery or a restart pays for
  the one it adds.
- `Exact`, under the hypothesis `MessagesOnce` (no redelivery, restart or
  ambiguous enqueue, every other fault in any number): at most one of a run's
  request, message and executor is left to move it on, and a run that is not
  settled has neither error nor recommendations. It gives
  `CompletedWithoutError` and the refinement `KeepsLifecycle`: every step is a
  step of `RunLifecycle` or a stutter. Without the hypothesis both fail, see
  Divergences.

A third invariant, `Hands`, gives `NoStrandedRun` under the hypothesis `Survivable`
(no redelivery, crash of the API or lost child, no failing statement; an
unavailable or ambiguous queue, restarts and failing nodes in any number): a run
is in one pair of hands at a time (its request, one message, one executor), and
in some until it is settled. What strands a run otherwise is listed above.

**`Decision_proofs`.** Of a decision, for every strategy configuration and all
inputs in their ranges: `TypeOK`, `PersonalNeverStronger`, `ActionMatchesScore` and
`TradeWithinLimit`. Lemma `PolicyWeakens` goes through the gates one by one; the
invariant adds `ChainInv` (what has been gathered when a node runs) and
`NeutralMatches` (the row in the state, before it is saved). `BuyHasEvidence` asks
two things of a strategy, `EvidenceGated`: the least confidence of a buy is above
10, and an action capped for low fundamentals is none to buy. The seeded strategy
has both. The gate on the quality of market data does not help: it reads a
quality of 0 as 1.0 and cannot fire for the other values `compute_data_quality`
gives. What prevents a buy without prices is what missing signals cost, and
`EvidenceInv` counts it through the chain.

Of the portfolio, for any number of requests at once, positions and prices:
`EntryInv` says of each request what it has read, written and will write
(`Placed`, `OwnGood`, `ViewGood`), that a row is written by one request
(`Exclusive`), that keys are never used twice, and that a row that was repriced
has a value since (`RowsGood`). It gives the action property `OnlyAsEntered`.
`FiguresInv` adds what a request that has met no other knows at each statement
(`Lone`), and that the last one, if it was such, left rows and snapshot that agree
(`Agreed`), whatever earlier races did. It gives `FiguresAgree`, whose part
about the context of a run is a fact about sums and holds in every state. Type
correctness (`PortfolioTyped`) says more than types: keys are given once and to one
symbol (`OneSymbol`, of rows that are committed or being written), and no snapshot is
dated ahead of the requests there were. A request takes one snapshot at most, so the
clock is ahead of the latest by those that may still follow (`Clocked`).

**`Learning_proofs`.** Of outcomes: `RowFromOneMeasurement`,
`EventsBacked` and the action property `SettledStays`. `Holds` says what a request
knows at each place: what it looked at is the committed row, or the row is raced;
`Exclusive` that a row is being written by one request. `Onward` is what any step
does to the rows, from which the action property follows.

Of the memory: `NothingForgotten`, `ReportsExplained` and `HistoryTold`. The
invariant says which events an execution has at each point (`RowsFiled`), that
an INDEXED event has a report of its run unless a reset came (`IndexedKept`),
and that a reindex holds committed rows only (`CliCommitted`). A row whose
ticker failed after it was flushed is not `Filed`, and its report, if a reindex
makes one, is explained by that. `HistoryTold` needs `Dated`, reports are dated
by the clock and none is older than what its run indexed, and that among
finitely many reports one is newest.

**`Replay_proofs`.** Of a batch: `EvaluationConsistent` and `RunsKeepLifecycle`, the
refinement of `RunLifecycle` by every run that did not stray. The invariant
distinguishes runs not committed (`Born`), not reached by the loop (`Unsent`) and
sent once (`Sent`), whose message and execution are at most one. `ReplayIsBatch` and
`ReplayIsReport` carry what is proved of either part over to `ReplaySpec`.

Of its report, for every calendar, batch and scores: `MonthlyIsMonthly` and
`ReportAgrees`. The inductive invariant is small (`ReportInv`: the dates are those
asked for, recommendations are of dates of the batch), as the properties are about
what is computed of the state; the work is in the loops.

- Months are in order and every day is in one (`Calendar`, `OneMonth`). A month after
  a day is a day of the next month (`NextMonth`), so that after k rounds the loop is
  in the k-th month after the first or past the end (`MonthAfterMonth`), and no month
  is skipped or met twice (`OneDateAMonth`).
- `Nth` puts a finite set in order and leaves nothing out (`NthOrder`, `NthAll`), so
  that a symbol has a timeline of dates, totals and actions (`Timeline`), and the
  report's operators are stated of it (`ChangesAre`, `SummaryIs`).
- The loop that keeps the first of the largest returns one that bounds all
  (`FirstLargestIs`, by the invariant of the loop).
- Steps of at most c lead up by at most c each (`Climb`), from which come the
  bounds of the range of scores (`Apart`, `LargestBound`), the fall behind an avoided
  drawdown (`FellSomewhere`) and the jumps behind a missed upside (`RoseByJumps`);
  that the steps sum up to the change is `Telescope`.

**`AdvisorRuns_proofs`.** Of the simulation, for every table of prices, holdings
and sequence of recommendations: `Accounted`, `FillsInOrder`, `CurveMirrorsPass` and
the action property `BuysWithinTarget`. `SimInv` says that every fill is at the
first price since its recommendation (`Filled`), that cash and the cost of the
positions are the initial cash and what was realized (`Conserved`), that the cash
the curve lacks is in the trades it has still to replay (`ToCome`), and, for each
symbol, that there is a history of its position of which the curve is at a prefix
and the pass at the end (`Mirror`): trades are replayed by date, which for one
symbol is the order of the pass though for all of them it is not.

Of the analysis: `AnswersAgree`. An answer given is complete and of its model
(`Agreed`), requests of a generation that is gone are over (`Over`), and GET is
monotone while a generation lasts. `AdvisorRunsCorrect` carries all of it over to
the composition, each step of which is a step of one part or a stutter.

**`Broker_proofs`.** Of the synchronisation: `SyncedAll` and `SnapshotCurrent`.
Each request's record is described by what it has done at each place (`Good`),
and `Exclusive` says that an account, or a key, is held by one transaction: a
fill that was skipped was committed, not about to be rolled back. Of deadlocks,
`VictimsTied`: a request stores in the order of time (`InTurn`), so who waits
for another one waits for a fill no later than that one's next
(`WaitsForLater`); a key is pending in one transaction (`Apart`), so requests
that wait for each other form cycles, round which times that never fall are all
equal (`RoundsTied`), and each of them was sent two executions of that time.

Of the trading profile, for every history of executions: `SalesMatched`,
`GainsAreMoney` and the action property `NewExecutionsAppend`. The invariant of
the history is small (`Timely`); the work is the invariant `Sound` of the
matching loop, which every round keeps. It says that executions are taken in the
order read (`ByTime`) and lots and pairs come from executions that were taken
(`Traced`); that lots and pairs are in order, and no lot is older than what was
sold of its symbol (`InOrder`); that every share bought is in a pair, in a lot
or still to come (`Balanced`); that no execution is in pairs with more shares
than it has (`Within`); that what is open, less what the sale at hand still
takes, is the most the account bought more than it sold since any place in the
order read (`Holding`), which is the most since any time unless a purchase and a
sale tie (`HeldIs`, `SinceHeld`); and that the trades' gains are the money made,
up to the lots left and the shares sold without a lot (`Paid`). A number that
falls with every round that does something (`Size`) shows that after `Rounds` of
them the loop has ended (`Done`). For `NewExecutionsAppend` the loops with and
without the newer execution are run side by side: they agree (`Later`) until the
shorter one ends, and from there pairs are only appended (`Begins`).

**`Scheduler_proofs`.** `OneInWindow`: tasks and executions share the worker's
processes (`Occupied`), and of every window the active runs created in it and the
tasks about to create one in it are together no more than the processes (`Room`).
When a task looks and finds no recent run there are none of its window, and the
tasks that looked before it and have not created yet hold a process each. A
redelivered message may make a settled run active, which `again` then says, and
changes nothing for the others.

**`SetLemmas`.** A sum over a finite set is what it is without one element and
that element, whichever one is taken; from it, what a change of one summand
does, and bounds; that sums may be taken group by group or part by part, and
over a sequence that is prolonged, shortened or changed at its head. A set of
finite sets that is not empty has a least one: this stands in for induction, of
which the library's theorems cannot be instantiated.

Assumptions, evaluated by TLC in the runs of their modules: `Distinct`,
`ExecutorsFinite`, `BudgetIsNat`, `SharedWritesIsBool`, `StrategyTyped`,
`InputsTyped`, `RunsFinite`, `MemoryConstants`, `HistoryConstants`,
`RequestsBounded`, `CalendarTyped` and the
`ConstantsTyped` of `AdvisorSimulation`, `Portfolio`, `ReplayBatch`, `BrokerSync`,
`Scheduler` and `Outcomes`. They say that
numbers are numbers, that names of different things differ and that there are
finitely many of them.

Model-checked only:

- Liveness (`EventuallySettled`, `BatchSettles`, `EveryFiringEnds`,
  `EveryRequestEnds`): the prover has no rules for fairness with ENABLED. What
  `EveryRequestEnds` says of deadlocks is proved as `VictimsTied`.
- `MeasuredComplete`: that bars of a horizon only grow in number, and so that the last one
  found is never lost, is about counting in stored prices.

## Not modelled

- Providers' network calls and parsing, indicator and ratio arithmetic, news,
  social and fundamentals, prompts and answers of the language models, the CLI's
  output, seeds, health, configuration: no control beyond a call that succeeds or
  fails, which the modules above keep as outcomes of the step that makes it.
- Strategy versions: `activate` is called by a test only, so that the active
  version of a running system never changes.
- How much of a price history is fetched: `ensure_price_history` looks at the
  latest date only; `Outcomes` has the staleness, not the depth.
- Risk profile and watchlist rows, the read-only recommendations API.
- Of the memory: manual notes, which nothing reads, and the list of failed events.
- Of the replay report: best and worst symbol, counts of trades and skip reasons,
  two recommendations of a symbol for one date.
- Editing accounts and credentials, the parsing of a broker statement's fields.

Components and the reasons are listed in `PROJECT.json`.

Abstractions that matter: times are days or hours, money and scores whole
numbers or tenths, a graph execution is one step outside `Recommendation`, user
accounts are one (`current_user` is the seeded one), and the default portfolio
exists.

## Plan

What is worth adding next, in this order:

1. A larger instance of `Portfolio` in which a stored price changes twice.
2. `PriceHistory`: runs, replays and simulations that ask for histories of
   different depths.
