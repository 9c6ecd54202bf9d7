----------------------------- MODULE ReplayBatch -----------------------------
(***************************************************************************)
(* A historical replay: one request creates a run for each replay date and *)
(* enqueues them one by one; workers execute them in any order; meanwhile  *)
(* the batch is polled and evaluated.                                      *)
(*                                                                         *)
(* Runs are numbered by their as_of_date.  An execution is taken as a      *)
(* whole here, its steps and failures are those of ResearchRuns.           *)
(***************************************************************************)
EXTENDS Naturals, FiniteSets

CONSTANTS N,            \* replay dates
          Symbols,
          Redeliveries, \* bound: messages handed over a second time
          Ambiguous,    \* whether send_task may raise after it published
          Crashes       \* whether the API may die or fail after its commit

Runs == 1..N

ASSUME ConstantsTyped == /\ {N, Redeliveries} \subseteq Nat
                         /\ {Ambiguous, Crashes} \subseteq BOOLEAN

VARIABLES status,      \* ResearchRun.status, "ABSENT" before the batch is committed
          recs,        \* recs[r][s]: neutral recommendations
          api,         \* the request: "idle", "sending", "marking", "done", "rejected", "dead"
          sent,        \* runs enqueued, in order of their dates
          queue, held, \* messages waiting, messages being executed
          strayed,     \* history: runs with a message handed over twice, or
                       \* published by a send that failed
          eval         \* an evaluation in progress, or its result

batch == <<status, recs>>
vars == <<batch, api, sent, queue, held, strayed, eval>>

NoEval == [at |-> "idle", pinned |-> {}, completed |-> 0, points |-> <<>>, rows |-> <<>>]

NoRecs == [s \in Symbols |-> 0]

Init == /\ status = [r \in Runs |-> "ABSENT"]
        /\ recs = [r \in Runs |-> NoRecs]
        /\ api = "idle" /\ sent = 0
        /\ queue = [r \in Runs |-> 0] /\ held = [r \in Runs |-> 0]
        /\ strayed = {}
        /\ eval = NoEval

-----------------------------------------------------------------------------
(* create_historical_replay *)

\* all runs, tickers and metadata in one transaction
Create == /\ api = "idle"
          /\ status' = [r \in Runs |-> "QUEUED"]
          /\ api' = "sending"
          /\ UNCHANGED <<recs, sent, queue, held, strayed, eval>>

Send == /\ api = "sending" /\ sent < N
        /\ sent' = sent + 1
        /\ queue' = [queue EXCEPT ![sent + 1] = 1]
        /\ UNCHANGED <<batch, api, held, strayed, eval>>

SendFails == /\ api = "sending" /\ sent < N
             /\ \E published \in {FALSE, Ambiguous} :
                  /\ queue' = [queue EXCEPT ![sent + 1] = IF published THEN 1 ELSE 0]
                  /\ strayed' = IF published THEN strayed \cup {sent + 1} ELSE strayed
             /\ api' = "marking"
             /\ UNCHANGED <<batch, sent, held, eval>>

\* mutation: the run whose message failed counts as enqueued
MarkFailedAfter == /\ api = "marking"
                   /\ status' = [r \in Runs |-> IF r > sent + 1 THEN "FAILED" ELSE status[r]]
                   /\ api' = "rejected"
                   /\ UNCHANGED <<recs, sent, queue, held, strayed, eval>>

\* mutation: all runs of the batch are marked
MarkFailedAll == /\ api = "marking"
                 /\ status' = [r \in Runs |-> "FAILED"]
                 /\ api' = "rejected"
                 /\ UNCHANGED <<recs, sent, queue, held, strayed, eval>>

\* un-enqueued runs are FAILED, whatever became of them, and 503 is returned
MarkFailed == /\ api = "marking"
              /\ status' = [r \in Runs |-> IF r > sent THEN "FAILED" ELSE status[r]]
              /\ api' = "rejected"
              /\ UNCHANGED <<recs, sent, queue, held, strayed, eval>>

Respond == /\ api = "sending" /\ sent = N
           /\ api' = "done"
           /\ UNCHANGED <<batch, sent, queue, held, strayed, eval>>

\* also a failing read of the broker account, before the try
Crash == /\ Crashes
         /\ api \in {"sending", "marking"}
         /\ api' = "dead"
         /\ UNCHANGED <<batch, sent, queue, held, strayed, eval>>

-----------------------------------------------------------------------------
(* Workers *)

Start(r) == /\ queue[r] > 0
            /\ queue' = [queue EXCEPT ![r] = @ - 1]
            /\ held' = [held EXCEPT ![r] = @ + 1]
            /\ status' = [status EXCEPT ![r] = "RUNNING"]
            /\ UNCHANGED <<recs, api, sent, strayed, eval>>

\* the verdict and the recommendations of some symbols become visible
Settle(r) ==
  /\ held[r] > 0
  /\ held' = [held EXCEPT ![r] = @ - 1]
  /\ \E verdict \in {"COMPLETED", "FAILED"}, S \in SUBSET Symbols :
       /\ verdict = "COMPLETED" => S # {}
       /\ status' = [status EXCEPT ![r] = verdict]
       /\ recs' = [recs EXCEPT ![r] = [s \in Symbols |-> @[s] + IF s \in S THEN 1 ELSE 0]]
  /\ UNCHANGED <<api, sent, queue, strayed, eval>>

\* visibility timeout of a message still being worked on
Redeliver(r) == /\ Cardinality(strayed) < Redeliveries /\ r \notin strayed
                /\ held[r] > 0
                /\ queue' = [queue EXCEPT ![r] = @ + 1]
                /\ strayed' = strayed \cup {r}
                /\ UNCHANGED <<batch, api, sent, held, eval>>

-----------------------------------------------------------------------------
(* create_replay_batch_evaluation; the report is its first half and the     *)
(* backtest of a batch its second half.                                     *)

Completed == {r \in Runs : status[r] = "COMPLETED"}
Terminal  == {r \in Runs : status[r] \in {"COMPLETED", "FAILED", "CANCELLED"}}

\* what the API reads of runs: their recommendations
Visible(R) == [r \in R |-> recs[r]]

\* otherwise 404 (no batch) or 422 (nothing completed)
Evaluate == /\ eval.at \in {"idle", "done"}
            /\ Completed # {}
            /\ eval' = [NoEval EXCEPT !.at = "points", !.pinned = Completed,
                                      !.completed = Cardinality(Completed)]
            /\ UNCHANGED <<batch, api, sent, queue, held, strayed>>

ReadPoints == /\ eval.at = "points"
              /\ eval' = [eval EXCEPT !.at = "backtest", !.points = Visible(eval.pinned)]
              /\ UNCHANGED <<batch, api, sent, queue, held, strayed>>

\* mutation: the simulation looks for completed runs again
BacktestUnpinned ==
  /\ eval.at = "backtest"
  /\ eval' = [eval EXCEPT !.at = "done", !.rows = Visible(Completed)]
  /\ UNCHANGED <<batch, api, sent, queue, held, strayed>>

\* run_advisor_backtest reads the recommendations of the pinned runs and
\* writes a row for each: their dates span its window.
Backtest == /\ eval.at = "backtest"
            /\ eval' = [eval EXCEPT !.at = "done", !.rows = Visible(eval.pinned)]
            /\ UNCHANGED <<batch, api, sent, queue, held, strayed>>

\* ValueError of the simulation: 422
BacktestRejected == /\ eval.at = "backtest"
                    /\ eval' = NoEval
                    /\ UNCHANGED <<batch, api, sent, queue, held, strayed>>

-----------------------------------------------------------------------------
Request == Create \/ Send \/ SendFails \/ MarkFailed \/ Respond
Work(r) == Start(r) \/ Settle(r)

Next == \/ Request \/ Crash
        \/ \E r \in Runs : Work(r) \/ Redeliver(r)
        \/ Evaluate \/ ReadPoints \/ Backtest \/ BacktestRejected

Spec == Init /\ [][Next]_vars

-----------------------------------------------------------------------------
(* Properties *)

TypeOK ==
  /\ status \in [Runs -> {"ABSENT", "QUEUED", "RUNNING", "COMPLETED", "FAILED"}]
  /\ recs \in [Runs -> [Symbols -> Nat]]
  /\ api \in {"idle", "sending", "marking", "done", "rejected", "dead"}
  /\ sent \in 0..N
  /\ queue \in [Runs -> Nat] /\ held \in [Runs -> Nat] /\ strayed \subseteq Runs
  /\ eval.at \in {"idle", "points", "backtest", "done"} /\ eval.pinned \subseteq Runs

Run(r) == INSTANCE RunLifecycle WITH Runs <- {r}, status <- [x \in {r} |-> status[x]],
                                     recs <- [x \in {r} |-> recs[x]]

\* Each run of a batch keeps the lifecycle of a run by itself, although the
\* batch is created and rejected as a whole: nothing settled is overwritten,
\* but where a message has strayed.
RunsKeepLifecycle ==
  /\ \A r \in Runs : Run(r)!Init
  /\ [][\A r \in Runs \ strayed' : Run(r)!Next \/ UNCHANGED Run(r)!vars]_<<batch, strayed>>

\* The timeline of an evaluation and its backtest are about the same
\* recommendations, although they are read apart and other runs complete in
\* between ("Deterministic"), unless one of its runs is executed twice.
EvaluationConsistent ==
  eval.at = "done" /\ eval.pinned \cap strayed = {} => eval.rows = eval.points

\* Every run of the batch is settled in the end, sent or not; if the API died
\* over the batch, what had been sent is.
BatchSettles == \A r \in Runs :
  status[r] # "ABSENT" ~> (r \in Terminal \/ (api = "dead" /\ r > sent))

\* "Mark all un-enqueued runs as FAILED so they don't sit QUEUED forever"
NoneQueuedForever == \A r \in Runs : status[r] = "QUEUED" ~> status[r] # "QUEUED"
=============================================================================
