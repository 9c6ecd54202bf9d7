---------------------------- MODULE ResearchRuns ----------------------------
(***************************************************************************)
(* The execution of research runs: the API request that creates a run, the *)
(* Redis queue, the Celery workers, and the one database transaction in    *)
(* which an execution stages the tickers and recommendations of its run.   *)
(*                                                                         *)
(* An executor is a worker, or the synchronous request of a run (named by  *)
(* the run itself).  What an executor has flushed but not committed is in  *)
(* txn; status, tick and recs are what other transactions can read.        *)
(*                                                                         *)
(* Outside src/: Redis hands a message over, hands it over again after its *)
(* visibility timeout, and may accept a message and still report an error; *)
(* PostgreSQL blocks a write on a row another transaction has written, and *)
(* breaks a cycle of such waits by failing one of the statements; after a  *)
(* failed statement the SQLAlchemy session refuses all others until it is  *)
(* rolled back.                                                            *)
(***************************************************************************)
EXTENDS Naturals, FiniteSets

CONSTANTS Runs,        \* research_runs rows
          Symbols,     \* the symbols every run is asked to research
          Workers,     \* Celery worker processes (prefetch 1)
          NoRun,       \* no message held
          NoSymbol,    \* no ticker chosen
          SharedWrites,\* whether a graph may write price/news rows shared by all runs
          Budget       \* Budget[k]: how many faults of kind k may happen

FaultKinds ==
  {"sendfail",    \* send_task raises, nothing published
   "ambiguous",   \* send_task raises after the message was published
   "apicrash",    \* API process dies, or a read before send_task raises
   "restart",     \* worker container dies: its unacked message comes back
   "lostchild",   \* worker child dies: Celery acks the message
   "redelivery",  \* visibility timeout of an unacked message
   "dberror",     \* connection or statement error in an executor
   "write",       \* a flush or upsert inside a node fails and is swallowed
   "norec",       \* neutral_recommendation fails: no neutral_rec in the state
   "persist",     \* persist_results raises without a database error
   "node",        \* an exception escapes the graph
   "setup"}       \* building the graph fails

ASSUME Distinct == /\ Runs \cap Workers = {}
                   /\ NoRun \notin Runs
                   /\ NoSymbol \notin Symbols
ASSUME ExecutorsFinite == IsFiniteSet(Runs) /\ IsFiniteSet(Workers)
ASSUME BudgetIsNat == Budget \in [FaultKinds -> Nat]
ASSUME SharedWritesIsBool == SharedWrites \in BOOLEAN

Executors == Runs \cup Workers

VARIABLES status,    \* ResearchRun.status
          error,     \* ResearchRun.error_message, by who wrote it
          tick,      \* ResearchRunTicker.status
          recs,      \* neutral_recommendations rows per run and symbol
          api,       \* where the POST /research-runs request of a run is
          queue,     \* deliverable messages per run
          pc, job,   \* where an executor is, and in which run
          cur,       \* the ticker it works on
          txn,       \* its open transaction
          restored,  \* whether the message it holds was handed out again
          spent      \* faults so far

db   == <<status, error, tick, recs>>
exec == <<pc, job, cur, txn>>
vars == <<db, api, queue, exec, restored, spent>>

\* A transaction: "error" when run_research_for_run raised, "poisoned" when the
\* session must be rolled back.
Txns == [tick:   [Symbols -> {"none", "RUNNING", "COMPLETED", "FAILED"}],
         recs:   SUBSET Symbols,   \* symbols whose recommendation is flushed
         data:   SUBSET Symbols,   \* symbols whose shared rows are written
         failed: SUBSET Symbols,   \* summary["symbols_failed"]
         mode:   {"open", "error", "poisoned"}]

Empty(mode) == [tick |-> [s \in Symbols |-> "none"],
                recs |-> {}, data |-> {}, failed |-> {}, mode |-> mode]

Clean == Empty("open")

\* Ticker s is flushed with status v, and with the recommendations of saved.
Flushed(t, s, v, saved) == [t EXCEPT !.tick[s] = v, !.recs = @ \cup saved]

Wrote(t, s) == [t EXCEPT !.data = @ \cup {s}]

\* the runner's except clause
Failed(t, s) == [t EXCEPT !.tick[s] = "FAILED", !.failed = @ \cup {s}]

Init == /\ status = [r \in Runs |-> "ABSENT"]
        /\ error = [r \in Runs |-> "none"]
        /\ tick = [r \in Runs |-> [s \in Symbols |-> "CREATED"]]
        /\ recs = [r \in Runs |-> [s \in Symbols |-> 0]]
        /\ api = [r \in Runs |-> "idle"]
        /\ queue = [r \in Runs |-> 0]
        /\ pc = [e \in Executors |-> "idle"]
        /\ job = [e \in Executors |-> NoRun]
        /\ cur = [e \in Executors |-> NoSymbol]
        /\ txn = [e \in Executors |-> Clean]
        /\ restored = [w \in Workers |-> FALSE]
        /\ spent = [k \in FaultKinds |-> 0]

Spend(k) == /\ spent[k] < Budget[k]
            /\ spent' = [spent EXCEPT ![k] = @ + 1]

\* ResearchRunRepository.update_status: a message replaces the old one, no
\* message leaves the old one.
UpdateStatus(r, s, msg) ==
  /\ status' = [status EXCEPT ![r] = s]
  /\ error' = IF msg = "none" THEN error ELSE [error EXCEPT ![r] = msg]

-----------------------------------------------------------------------------
(* The API request *)

\* mutation: the commit before send_task is forgotten
SubmitAsyncUncommitted(r) ==
  /\ api[r] = "idle"
  /\ api' = [api EXCEPT ![r] = "enqueue"]
  /\ UNCHANGED <<db, queue, exec, restored, spent>>

\* async_execution: the run, QUEUED, and its tickers in one transaction
SubmitAsync(r) ==
  /\ api[r] = "idle"
  /\ api' = [api EXCEPT ![r] = "enqueue"]
  /\ UpdateStatus(r, "QUEUED", "none")
  /\ UNCHANGED <<tick, recs, queue, exec, restored, spent>>

\* the synchronous path: RUNNING and its tickers, then the request executes it
SubmitSync(r) ==
  /\ api[r] = "idle"
  /\ api' = [api EXCEPT ![r] = "running"]
  /\ UpdateStatus(r, "RUNNING", "none")
  /\ pc' = [pc EXCEPT ![r] = "next"]
  /\ job' = [job EXCEPT ![r] = r]
  /\ UNCHANGED <<tick, recs, queue, cur, txn, restored, spent>>

Enqueue(r) ==
  /\ api[r] = "enqueue"
  /\ api' = [api EXCEPT ![r] = "done"]
  /\ queue' = [queue EXCEPT ![r] = @ + 1]
  /\ UNCHANGED <<db, exec, restored, spent>>

\* mutation: the failure is raised after publishing
EnqueueFailsLate(r) ==
  /\ api[r] = "enqueue"
  /\ api' = [api EXCEPT ![r] = "reject"]
  /\ Spend("sendfail")
  /\ queue' = [queue EXCEPT ![r] = @ + 1]
  /\ UNCHANGED <<db, exec, restored>>

EnqueueFails(r) ==
  /\ api[r] = "enqueue"
  /\ api' = [api EXCEPT ![r] = "reject"]
  /\ \/ Spend("sendfail") /\ UNCHANGED queue
     \/ Spend("ambiguous") /\ queue' = [queue EXCEPT ![r] = @ + 1]
  /\ UNCHANGED <<db, exec, restored>>

\* mutation: answer 503 without marking the run
RejectRunUnmarked(r) ==
  /\ api[r] = "reject"
  /\ api' = [api EXCEPT ![r] = "done"]
  /\ UNCHANGED <<db, queue, exec, restored, spent>>

\* "Job queue unavailable", and 503 to the client
RejectRun(r) ==
  /\ api[r] = "reject"
  /\ api' = [api EXCEPT ![r] = "done"]
  /\ UpdateStatus(r, "FAILED", "queue")
  /\ UNCHANGED <<tick, recs, queue, exec, restored, spent>>

\* The open transaction of e is lost and e stops.
Rollback(e) == /\ txn' = [txn EXCEPT ![e] = Clean]
               /\ pc' = [pc EXCEPT ![e] = "idle"]
               /\ job' = [job EXCEPT ![e] = NoRun]
               /\ cur' = [cur EXCEPT ![e] = NoSymbol]

ApiCrash(r) ==
  /\ api[r] \in {"enqueue", "reject", "running"}
  /\ Spend("apicrash")
  /\ api' = [api EXCEPT ![r] = "done"]
  /\ Rollback(r)
  /\ UNCHANGED <<db, queue, restored>>

-----------------------------------------------------------------------------
(* The broker and the worker processes *)

\* mutation: the message stays in the queue while it is worked on
DeliverKeeping(w, r) ==
  /\ pc[w] = "idle"
  /\ queue[r] > 0
  /\ pc' = [pc EXCEPT ![w] = "received"]
  /\ job' = [job EXCEPT ![w] = r]
  /\ restored' = [restored EXCEPT ![w] = FALSE]
  /\ UNCHANGED <<db, api, queue, cur, txn, spent>>

Deliver(w, r) ==
  /\ pc[w] = "idle"
  /\ queue[r] > 0
  /\ queue' = [queue EXCEPT ![r] = @ - 1]
  /\ pc' = [pc EXCEPT ![w] = "received"]
  /\ job' = [job EXCEPT ![w] = r]
  /\ restored' = [restored EXCEPT ![w] = FALSE]
  /\ UNCHANGED <<db, api, cur, txn, spent>>

\* acks_late: the ack follows the task, whether it returned or raised
Ack(w) ==
  /\ pc[w] = "acking"
  /\ Rollback(w)
  /\ UNCHANGED <<db, api, queue, restored, spent>>

Redeliver(w) ==
  /\ pc[w] # "idle"
  /\ ~restored[w]
  /\ Spend("redelivery")
  /\ restored' = [restored EXCEPT ![w] = TRUE]
  /\ queue' = [queue EXCEPT ![job[w]] = @ + 1]
  /\ UNCHANGED <<db, api, exec>>

\* mutation: acks_late = False, the message died with the worker
WorkerRestartAcked(w) ==
  /\ pc[w] # "idle"
  /\ Spend("restart")
  /\ Rollback(w)
  /\ UNCHANGED <<db, api, queue, restored>>

WorkerRestart(w) ==
  /\ pc[w] # "idle"
  /\ Spend("restart")
  /\ queue' = IF restored[w] THEN queue ELSE [queue EXCEPT ![job[w]] = @ + 1]
  /\ Rollback(w)
  /\ UNCHANGED <<db, api, restored>>

ChildLost(w) ==
  /\ pc[w] # "idle"
  /\ Spend("lostchild")
  /\ Rollback(w)
  /\ UNCHANGED <<db, api, queue, restored>>

-----------------------------------------------------------------------------
(* Executing a run *)

Goto(e, l) == pc' = [pc EXCEPT ![e] = l]

\* A failed statement: everything flushed is gone, the session refuses more.
Poison(e) == /\ txn' = [txn EXCEPT ![e] = Empty("poisoned")]
             /\ Goto(e, "next")
             /\ cur' = [cur EXCEPT ![e] = NoSymbol]
             /\ UNCHANGED job

\* No guard on the status the run already has.
Start(w) ==
  /\ pc[w] = "received"
  /\ UpdateStatus(job[w], "RUNNING", "none")
  /\ Goto(w, "next")
  /\ UNCHANGED <<tick, recs, api, queue, job, cur, txn, restored, spent>>

Remaining(e) == {s \in Symbols : txn[e].tick[s] = "none"}

NextTicker(e) ==
  /\ pc[e] = "next"
  /\ txn[e].mode = "open"
  /\ \E s \in Remaining(e) : cur' = [cur EXCEPT ![e] = s]
  /\ Goto(e, "enter")
  /\ UNCHANGED <<db, api, queue, job, txn, restored, spent>>

\* o has written the row that e's next statement writes.
Blocks(o, e) ==
  /\ o # e
  /\ \/ /\ pc[e] = "enter"
        /\ job[o] = job[e]
        /\ txn[o].tick[cur[e]] # "none"
     \/ /\ pc[e] = "fetch"
        /\ cur[e] \in txn[o].data

Blocked(e) == \E o \in Executors : Blocks(o, e)

\* ticker.status = RUNNING and the flush before the graph
EnterTicker(e) ==
  /\ pc[e] = "enter"
  /\ ~Blocked(e)
  /\ txn' = [txn EXCEPT ![e] = Flushed(@, cur[e], "RUNNING", {})]
  /\ \E l \in {"graph"} \cup (IF SharedWrites THEN {"fetch"} ELSE {}) : Goto(e, l)
  /\ UNCHANGED <<db, api, queue, job, cur, restored, spent>>

\* stale prices, fundamentals or new articles are upserted for all runs
WriteSharedData(e) ==
  /\ pc[e] = "fetch"
  /\ ~Blocked(e)
  /\ txn' = [txn EXCEPT ![e] = Wrote(@, cur[e])]
  /\ Goto(e, "graph")
  /\ UNCHANGED <<db, api, queue, job, cur, restored, spent>>

\* Every member of W waits for one and is waited for by one: with exclusive
\* row locks W is made of cycles.
OnWaitCycle(e) ==
  \E W \in SUBSET Executors :
    /\ e \in W
    /\ \A x \in W : \E y \in W : Blocks(y, x)
    /\ \A y \in W : \E x \in W : Blocks(y, x)

DeadlockVictim(e) ==
  /\ OnWaitCycle(e)
  /\ Poison(e)
  /\ UNCHANGED <<db, api, queue, restored, spent>>

\* mutation: persist_results commits what it writes
LeaveTickerCommitting(e, result, saved) ==
  /\ pc[e] = "graph"
  /\ recs' = IF saved THEN [recs EXCEPT ![job[e]][cur[e]] = @ + 1] ELSE recs
  /\ txn' = [txn EXCEPT ![e] = Flushed(@, cur[e], result, {})]
  /\ cur' = [cur EXCEPT ![e] = NoSymbol]
  /\ Goto(e, "next")
  /\ UNCHANGED <<status, error, tick, api, queue, job, restored>>

\* How the graph leaves the ticker: its status, and whether its neutral
\* recommendation was flushed.
LeaveTicker(e, result, saved) ==
  /\ pc[e] = "graph"
  /\ txn' = [txn EXCEPT ![e] = Flushed(@, cur[e], result, IF saved THEN {cur[e]} ELSE {})]
  /\ cur' = [cur EXCEPT ![e] = NoSymbol]
  /\ Goto(e, "next")
  /\ UNCHANGED <<db, api, queue, job, restored>>

Recommend(e) == LeaveTicker(e, "COMPLETED", TRUE) /\ UNCHANGED spent

NeutralFails(e) == Spend("norec") /\ LeaveTicker(e, "COMPLETED", FALSE)

\* The node returns an error; the runner counts the symbol completed.
PersistRaises(e) == /\ Spend("persist")
                    /\ \E saved \in BOOLEAN : LeaveTicker(e, "FAILED", saved)

NodeRaises(e) ==
  /\ pc[e] = "graph"
  /\ Spend("node")
  /\ txn' = [txn EXCEPT ![e] = Failed(@, cur[e])]
  /\ cur' = [cur EXCEPT ![e] = NoSymbol]
  /\ Goto(e, "next")
  /\ UNCHANGED <<db, api, queue, job, restored>>

\* The exception is swallowed, the session is not usable any more.
WriteFails(e) ==
  /\ pc[e] = "graph"
  /\ Spend("write")
  /\ Poison(e)
  /\ UNCHANGED <<db, api, queue, restored>>

DbError(e) ==
  /\ pc[e] \in {"received", "next", "enter", "fetch", "graph"}
  /\ Spend("dberror")
  /\ Poison(e)
  /\ UNCHANGED <<db, api, queue, restored>>

SetupFails(e) ==
  /\ pc[e] = "next"
  /\ txn[e] = Clean
  /\ Spend("setup")
  /\ txn' = [txn EXCEPT ![e] = Empty("error")]
  /\ UNCHANGED <<db, api, queue, pc, job, cur, restored>>

\* mutation: the run is settled while tickers are left
FinishedEarly(e) == pc[e] = "next" /\ txn[e].mode # "poisoned"

Finished(e) == /\ pc[e] = "next"
               /\ \/ txn[e].mode = "open" /\ Remaining(e) = {}
                  \/ txn[e].mode = "error"

Verdict(e) == IF txn[e].mode = "error" \/ txn[e].failed # {} THEN "FAILED" ELSE "COMPLETED"

\* mutation: the message is written whatever the verdict
MessageAlways(e) == IF e \in Workers THEN "graph" ELSE "none"

\* Only the worker writes a message.
Message(e) == IF e \in Workers /\ Verdict(e) = "FAILED" THEN "graph" ELSE "none"

\* A worker still has to ack; a request is answered.
Leave(e) == /\ txn' = [txn EXCEPT ![e] = Clean]
            /\ cur' = [cur EXCEPT ![e] = NoSymbol]
            /\ IF e \in Workers
               THEN Goto(e, "acking") /\ UNCHANGED <<job, api>>
               ELSE /\ Goto(e, "idle")
                    /\ job' = [job EXCEPT ![e] = NoRun]
                    /\ api' = [api EXCEPT ![e] = "done"]

\* mutation: tickers the execution never reached are overwritten
MergedTicksAll(e) == txn[e].tick

MergedTicks(e) ==
  [s \in Symbols |-> IF txn[e].tick[s] = "none" THEN tick[job[e]][s] ELSE txn[e].tick[s]]

\* final update_status and the commit of everything the execution flushed
Commit(e) ==
  /\ Finished(e)
  /\ UpdateStatus(job[e], Verdict(e), Message(e))
  /\ tick' = [tick EXCEPT ![job[e]] = MergedTicks(e)]
  /\ recs' = [recs EXCEPT ![job[e]] =
       [s \in Symbols |-> IF s \in txn[e].recs THEN @[s] + 1 ELSE @[s]]]
  /\ Leave(e)
  /\ UNCHANGED <<queue, restored, spent>>

\* the final update_status raises: the task fails, the run keeps its status
Raise(e) ==
  /\ pc[e] = "next"
  /\ txn[e].mode = "poisoned"
  /\ Leave(e)
  /\ UNCHANGED <<db, queue, restored, spent>>

-----------------------------------------------------------------------------
Request(r) == \/ Enqueue(r) \/ EnqueueFails(r) \/ RejectRun(r)

Progress(e) == \/ NextTicker(e) \/ EnterTicker(e) \/ WriteSharedData(e)
               \/ DeadlockVictim(e) \/ Recommend(e) \/ Commit(e) \/ Raise(e)

GraphFault(e) == \/ NeutralFails(e) \/ PersistRaises(e) \/ NodeRaises(e)
                 \/ WriteFails(e) \/ DbError(e) \/ SetupFails(e)

WorkerStep(w) == Start(w) \/ Ack(w)

WorkerFault(w) == Redeliver(w) \/ WorkerRestart(w) \/ ChildLost(w)

Next == \/ \E r \in Runs : SubmitAsync(r) \/ SubmitSync(r) \/ Request(r) \/ ApiCrash(r)
        \/ \E w \in Workers : \/ \E r \in Runs : Deliver(w, r)
                              \/ WorkerStep(w) \/ WorkerFault(w)
        \/ \E e \in Executors : Progress(e) \/ GraphFault(e)

Spec == Init /\ [][Next]_vars

\* A live API process finishes its requests, an idle worker takes a message,
\* and neither stops in the middle of an execution.  Nothing forces a client
\* to submit, nor any fault to happen.
Fairness == /\ \A r \in Runs : /\ WF_vars(Request(r))
                               /\ WF_vars(\E w \in Workers : Deliver(w, r))
            /\ \A w \in Workers : WF_vars(WorkerStep(w))
            /\ \A e \in Executors : WF_vars(Progress(e))

FairSpec == Spec /\ Fairness

-----------------------------------------------------------------------------
(* Properties *)

Terminal == {"COMPLETED", "FAILED"}

\* Type invariant: the values every variable of the model ranges over.
TypeOK ==
  /\ status \in [Runs -> {"ABSENT", "QUEUED", "RUNNING"} \cup Terminal]
  /\ error \in [Runs -> {"none", "queue", "graph"}]
  /\ tick \in [Runs -> [Symbols -> {"CREATED", "RUNNING", "COMPLETED", "FAILED"}]]
  /\ recs \in [Runs -> [Symbols -> Nat]]
  /\ api \in [Runs -> {"idle", "enqueue", "reject", "running", "done"}]
  /\ queue \in [Runs -> Nat]
  /\ pc \in [Executors ->
        {"idle", "received", "next", "enter", "fetch", "graph", "acking"}]
  /\ job \in [Executors -> Runs \cup {NoRun}]
  /\ cur \in [Executors -> Symbols \cup {NoSymbol}]
  /\ txn \in [Executors -> Txns]
  /\ restored \in [Workers -> BOOLEAN]
  /\ spent \in [FaultKinds -> Nat]

\* A reader never sees half an execution.  A COMPLETED run has every ticker
\* settled, no ticker is ever seen RUNNING, and a ticker nobody settled has no
\* recommendation: all of it is committed with the final status (research.py).
WholeOutcome ==
  \A r \in Runs :
    /\ status[r] = "COMPLETED" => \A s \in Symbols : tick[r][s] \in Terminal
    /\ \A s \in Symbols : /\ tick[r][s] # "RUNNING"
                          /\ tick[r][s] = "CREATED" => recs[r][s] = 0

\* Until an execution of the run has committed RUNNING there is nothing of it
\* to read, and a message never names a run the worker cannot load
\* (commit before send_task, research_runs.py; not_found, research.py).
NothingBeforeStart ==
  \A r \in Runs :
    /\ status[r] \in {"ABSENT", "QUEUED"} =>
         \A s \in Symbols : tick[r][s] = "CREATED" /\ recs[r][s] = 0
    /\ queue[r] > 0 => status[r] # "ABSENT"

\* Recommendations appear only in the step that settles the run: whoever polls
\* the status never reads a settled run whose rows are still to come
\* (the commit after the final update_status, research.py).
RecsWithVerdict ==
  [][\A r \in Runs : recs'[r] # recs[r] => status'[r] \in Terminal]_vars

\* A second recommendation for a ticker takes a second delivery of the
\* message: nothing but a redelivery or a restart duplicates rows
\* (acks_late and no status guard, research.py).
DuplicatesNeedRedelivery ==
  \A r \in Runs, s \in Symbols :
    recs[r][s] <= 1 + spent["redelivery"] + spent["restart"]

-----------------------------------------------------------------------------
(* Why the three state properties above are inductive together. *)

\* A run nobody submitted is invisible and has no message.
RequestInv ==
  \A r \in Runs : IF api[r] = "idle" THEN status[r] = "ABSENT" /\ queue[r] = 0
                                     ELSE status[r] # "ABSENT"

\* A busy executor works on a submitted run, a synchronous request on its own,
\* and has nothing flushed before it starts and after it settled.
ExecutorInv ==
  \A e \in Executors :
    /\ pc[e] # "idle" => /\ job[e] \in Runs
                         /\ api[job[e]] # "idle"
                         /\ e \in Runs => job[e] = e
    /\ pc[e] \in {"enter", "fetch", "graph"} => cur[e] \in Symbols
    /\ pc[e] \in {"idle", "received", "acking"} => txn[e] = Clean

\* Only the ticker in the graph is flushed as RUNNING, recommendations belong
\* to tickers that left the graph, and a failed set-up flushed nothing.
TxnInv ==
  \A e \in Executors :
    /\ pc[e] = "enter" => txn[e].tick[cur[e]] = "none"
    /\ pc[e] \in {"fetch", "graph"} => txn[e].tick[cur[e]] = "RUNNING"
    /\ pc[e] \in {"enter", "fetch", "graph"} => txn[e].mode = "open"
    /\ \A s \in Symbols :
         /\ txn[e].tick[s] = "RUNNING" => pc[e] \in {"fetch", "graph"} /\ cur[e] = s
         /\ s \in txn[e].recs => txn[e].tick[s] \in Terminal
         /\ txn[e].mode = "error" => txn[e].tick[s] = "none"

\* The inductive invariant of ResearchRuns_proofs.
IInv == /\ TypeOK
        /\ WholeOutcome /\ NothingBeforeStart
        /\ RequestInv /\ ExecutorInv /\ TxnInv
-----------------------------------------------------------------------------
\* A worker is past Start and will still settle the run, or a message that
\* will restart it is pending.
Attended(r) == \/ queue[r] > 0
               \/ \E e \in Executors : job[e] = r /\ pc[e] # "acking"
               \/ api[r] \in {"enqueue", "reject"}

\* A run that is not settled is in somebody's hands: the request that will
\* enqueue or reject it, a message, or an executor.  "Mark the run FAILED so
\* it does not sit as QUEUED forever" (research_runs.py).
NoStrandedRun ==
  \A r \in Runs : status[r] \in {"QUEUED", "RUNNING"} => Attended(r)

\* An execution that ends has settled its run, whatever went wrong inside it:
\* writing news to the database is "best-effort, do not fail the run"
\* (news/service.py) and no node halts the run (Principles.md).
ExecutionSettles ==
  [][\A e \in Executors :
       pc[e] = "next" /\ pc'[e] \in {"acking", "idle"} =>
         status'[job[e]] \in Terminal]_vars

\* A completed run carries no error message of an earlier verdict
\* (update_status never clears error_message, repositories.py).
CompletedWithoutError ==
  \A r \in Runs : status[r] = "COMPLETED" => error[r] = "none"

\* The lifecycle of docs/MILESTONES.md (RunLifecycle.tla).
Lifecycle == INSTANCE RunLifecycle
LifecycleSpec == Lifecycle!Spec

\* Every run a client submitted is settled in the end.
EventuallySettled ==
  \A r \in Runs : status[r] \in {"QUEUED", "RUNNING"} ~> status[r] \in Terminal

\* Every settled, COMPLETED run has a recommendation for each symbol: "The
\* unacceptable outcome is a crash with no recommendation saved" (Principles.md).
CompletedHasRecommendations ==
  \A r \in Runs : status[r] = "COMPLETED" => \A s \in Symbols : recs[r][s] > 0
=============================================================================
