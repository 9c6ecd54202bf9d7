------------------------- MODULE ResearchRuns_proofs -------------------------
(* Proofs about ResearchRuns, for every set of runs, symbols and workers and *)
(* every fault budget.                                                       *)
EXTENDS ResearchRuns, TLAPS, FiniteSetTheorems

\* the states of a ticker in a transaction
TickStates == {"none", "RUNNING", "COMPLETED", "FAILED"}

(* What the operators on transactions return, field by field. *)

\* An empty transaction has touched no ticker and no recommendation.
LEMMA EmptyTxn ==
  ASSUME NEW m \in {"open", "error", "poisoned"}
  PROVE  /\ Empty(m) \in Txns
         /\ Empty(m).mode = m /\ Empty(m).recs = {}
         /\ \A s \in Symbols : Empty(m).tick[s] = "none"
BY DEF Empty, Txns

\* Setting one ticker of a transaction leaves the others alone.
LEMMA TickTxn ==
  ASSUME NEW t \in Txns, NEW s \in Symbols, NEW v \in TickStates
  PROVE  /\ [t EXCEPT !.tick[s] = v] \in Txns
         /\ \A x \in Symbols :
              [t EXCEPT !.tick[s] = v].tick[x] = IF x = s THEN v ELSE t.tick[x]
BY DEF Txns, TickStates

\* Flushing a ticker sets its status and adds the saved recommendations.
LEMMA FlushedTxn ==
  ASSUME NEW t \in Txns, NEW s \in Symbols, NEW v \in TickStates, NEW S \in SUBSET Symbols
  PROVE  /\ Flushed(t, s, v, S) \in Txns
         /\ Flushed(t, s, v, S).mode = t.mode
         /\ Flushed(t, s, v, S).recs = t.recs \cup S
         /\ \A x \in Symbols :
              Flushed(t, s, v, S).tick[x] = IF x = s THEN v ELSE t.tick[x]
<1>1. PICK u \in Txns : u = [t EXCEPT !.tick[s] = v]
  BY TickTxn
<1>2. /\ u.mode = t.mode /\ u.recs = t.recs
      /\ \A x \in Symbols : u.tick[x] = IF x = s THEN v ELSE t.tick[x]
  BY <1>1, TickTxn DEF Txns
<1>3. Flushed(t, s, v, S) = [u EXCEPT !.recs = t.recs \cup S]
  BY <1>1 DEF Flushed, Txns
<1>4. t.recs \cup S \in SUBSET Symbols
  BY DEF Txns
<1> QED BY <1>2, <1>3, <1>4 DEF Txns

\* The runner's except clause sets the ticker FAILED and nothing else readers see.
LEMMA FailedTxn ==
  ASSUME NEW t \in Txns, NEW s \in Symbols
  PROVE  /\ Failed(t, s) \in Txns
         /\ Failed(t, s).mode = t.mode /\ Failed(t, s).recs = t.recs
         /\ \A x \in Symbols :
              Failed(t, s).tick[x] = IF x = s THEN "FAILED" ELSE t.tick[x]
<1>1. PICK u \in Txns : u = [t EXCEPT !.tick[s] = "FAILED"]
  BY TickTxn DEF TickStates
<1>2. /\ u.mode = t.mode /\ u.recs = t.recs /\ u.failed = t.failed
      /\ \A x \in Symbols : u.tick[x] = IF x = s THEN "FAILED" ELSE t.tick[x]
  BY <1>1, TickTxn DEF Txns, TickStates
<1>3. Failed(t, s) = [u EXCEPT !.failed = t.failed \cup {s}]
  BY <1>1 DEF Failed, Txns
<1> QED BY <1>2, <1>3 DEF Txns

\* Writing shared rows changes neither tickers nor recommendations.
LEMMA WroteTxn ==
  ASSUME NEW t \in Txns, NEW s \in Symbols
  PROVE  /\ Wrote(t, s) \in Txns
         /\ Wrote(t, s).mode = t.mode /\ Wrote(t, s).recs = t.recs
         /\ \A x \in Symbols : Wrote(t, s).tick[x] = t.tick[x]
BY DEF Wrote, Txns

-----------------------------------------------------------------------------
(* What the parts shared by several actions do to the variables' types. *)

TickSeen == {"CREATED", "RUNNING", "COMPLETED", "FAILED"}
Places   == {"idle", "received", "next", "enter", "fetch", "graph", "acking"}

\* Spending a fault keeps the counters natural numbers.
LEMMA SpendType ==
  ASSUME TypeOK, NEW k \in FaultKinds, Spend(k)
  PROVE  spent' \in [FaultKinds -> Nat]
BY DEF TypeOK, Spend

\* update_status keeps the types of status and error.
LEMMA StatusType ==
  ASSUME TypeOK, NEW r \in Runs,
         NEW s \in {"QUEUED", "RUNNING", "COMPLETED", "FAILED"},
         NEW m \in {"none", "queue", "graph"}, UpdateStatus(r, s, m)
  PROVE  /\ status' \in [Runs -> {"ABSENT", "QUEUED", "RUNNING"} \cup Terminal]
         /\ error' \in [Runs -> {"none", "queue", "graph"}]
BY DEF TypeOK, UpdateStatus, Terminal

\* Replacing the transaction of one executor by another keeps the type.
LEMMA TxnType ==
  ASSUME TypeOK, NEW e \in Executors, NEW t \in Txns
  PROVE  [txn EXCEPT ![e] = t] \in [Executors -> Txns]
BY DEF TypeOK

\* An executor that stops leaves well-typed variables.
LEMMA RollbackType ==
  ASSUME TypeOK, NEW e \in Executors, Rollback(e)
  PROVE  /\ txn' \in [Executors -> Txns]
         /\ pc' \in [Executors -> Places]
         /\ job' \in [Executors -> Runs \cup {NoRun}]
         /\ cur' \in [Executors -> Symbols \cup {NoSymbol}]
<1>1. txn' \in [Executors -> Txns]
  BY EmptyTxn, TxnType DEF Rollback, Clean
<1> QED BY <1>1 DEF TypeOK, Rollback, Places

\* So does one whose statement failed,
LEMMA PoisonType ==
  ASSUME TypeOK, NEW e \in Executors, Poison(e)
  PROVE  /\ txn' \in [Executors -> Txns]
         /\ pc' \in [Executors -> Places]
         /\ job' \in [Executors -> Runs \cup {NoRun}]
         /\ cur' \in [Executors -> Symbols \cup {NoSymbol}]
<1>1. txn' \in [Executors -> Txns]
  BY EmptyTxn, TxnType DEF Poison
<1> QED BY <1>1 DEF TypeOK, Poison, Goto, Places

\* one that settled or gave up its run,
LEMMA LeaveType ==
  ASSUME TypeOK, NEW e \in Executors, Leave(e)
  PROVE  /\ txn' \in [Executors -> Txns]
         /\ pc' \in [Executors -> Places]
         /\ job' \in [Executors -> Runs \cup {NoRun}]
         /\ cur' \in [Executors -> Symbols \cup {NoSymbol}]
         /\ api' \in [Runs -> {"idle", "enqueue", "reject", "running", "done"}]
<1>1. txn' \in [Executors -> Txns]
  BY EmptyTxn, TxnType DEF Leave, Clean
<1>2. CASE e \in Workers
  BY <1>1, <1>2 DEF TypeOK, Leave, Goto, Places
<1>3. CASE e \notin Workers
  BY <1>1, <1>3 DEF TypeOK, Leave, Goto, Places
<1> QED BY <1>2, <1>3

\* and one that left a ticker; the latter changes nothing readers see.
LEMMA LeaveTickerType ==
  ASSUME TypeOK, ExecutorInv, NEW e \in Executors,
         NEW v \in {"COMPLETED", "FAILED"}, NEW b \in BOOLEAN, LeaveTicker(e, v, b)
  PROVE  /\ txn' \in [Executors -> Txns]
         /\ pc' \in [Executors -> Places]
         /\ cur' \in [Executors -> Symbols \cup {NoSymbol}]
         /\ UNCHANGED <<db, api, queue, job, restored>>
<1>1. txn[e] \in Txns /\ cur[e] \in Symbols
  BY DEF LeaveTicker, TypeOK, ExecutorInv
<1>2. PICK S \in SUBSET Symbols : S = IF b THEN {cur[e]} ELSE {}
  BY <1>1
<1>4. Flushed(txn[e], cur[e], v, S) \in Txns
  BY <1>1, FlushedTxn DEF TickStates
<1>3. txn' \in [Executors -> Txns]
  BY <1>2, <1>4, TxnType DEF LeaveTicker, TypeOK
<1> QED BY <1>3 DEF TypeOK, LeaveTicker, Goto, Places

\* Every step keeps the types; ExecutorInv says which run and ticker are indexed.
LEMMA TypeStep ==
  ASSUME TypeOK, ExecutorInv, [Next]_vars
  PROVE  TypeOK'
<1> USE Distinct, BudgetIsNat DEF Executors, db, exec, Terminal, TickStates, TickSeen, Places
<1>1. ASSUME NEW r \in Runs, SubmitAsync(r)
     PROVE  TypeOK'
  BY <1>1, StatusType DEF SubmitAsync, TypeOK
<1>2. ASSUME NEW r \in Runs, SubmitSync(r)
     PROVE  TypeOK'
  BY <1>2, StatusType DEF SubmitSync, TypeOK
<1>3. ASSUME NEW r \in Runs, Enqueue(r)
     PROVE  TypeOK'
  BY <1>3 DEF Enqueue, TypeOK
<1>4. ASSUME NEW r \in Runs, EnqueueFails(r)
     PROVE  TypeOK'
  BY <1>4, SpendType DEF EnqueueFails, TypeOK, FaultKinds
<1>5. ASSUME NEW r \in Runs, RejectRun(r)
     PROVE  TypeOK'
  BY <1>5, StatusType DEF RejectRun, TypeOK
<1>6. ASSUME NEW r \in Runs, ApiCrash(r)
     PROVE  TypeOK'
  BY <1>6, SpendType, RollbackType DEF ApiCrash, TypeOK, FaultKinds
<1>7. ASSUME NEW w \in Workers, NEW r \in Runs, Deliver(w, r)
     PROVE  TypeOK'
  BY <1>7 DEF Deliver, TypeOK
<1>8. ASSUME NEW w \in Workers, Start(w)
     PROVE  TypeOK'
  BY <1>8, StatusType DEF Start, TypeOK, Goto, ExecutorInv
<1>9. ASSUME NEW w \in Workers, Ack(w)
     PROVE  TypeOK'
  BY <1>9, RollbackType DEF Ack, TypeOK
<1>10. ASSUME NEW w \in Workers, Redeliver(w)
     PROVE  TypeOK'
  BY <1>10, SpendType DEF Redeliver, TypeOK, FaultKinds, ExecutorInv
<1>11. ASSUME NEW w \in Workers, WorkerRestart(w)
     PROVE  TypeOK'
  BY <1>11, SpendType, RollbackType DEF WorkerRestart, TypeOK, FaultKinds, ExecutorInv
<1>12. ASSUME NEW w \in Workers, ChildLost(w)
     PROVE  TypeOK'
  BY <1>12, SpendType, RollbackType DEF ChildLost, TypeOK, FaultKinds
<1>13. ASSUME NEW e \in Executors, NextTicker(e)
     PROVE  TypeOK'
  BY <1>13 DEF NextTicker, TypeOK, Goto, Remaining
<1>14. ASSUME NEW e \in Executors, EnterTicker(e)
     PROVE  TypeOK'
  <2>1. txn[e] \in Txns /\ cur[e] \in Symbols
    BY <1>14 DEF EnterTicker, TypeOK, ExecutorInv
  <2>2. Flushed(txn[e], cur[e], "RUNNING", {}) \in Txns
    BY <2>1, FlushedTxn
  <2>3. txn' \in [Executors -> Txns]
    BY <1>14, <2>2, TxnType DEF EnterTicker, TypeOK
  <2> QED BY <1>14, <2>3 DEF EnterTicker, TypeOK, Goto
<1>15. ASSUME NEW e \in Executors, WriteSharedData(e)
     PROVE  TypeOK'
  BY <1>15, WroteTxn, TxnType DEF WriteSharedData, TypeOK, Goto, ExecutorInv
<1>16. ASSUME NEW e \in Executors, DeadlockVictim(e)
     PROVE  TypeOK'
  BY <1>16, PoisonType DEF DeadlockVictim, TypeOK
<1>17. ASSUME NEW e \in Executors, Recommend(e)
     PROVE  TypeOK'
  BY <1>17, LeaveTickerType DEF Recommend, TypeOK
<1>18. ASSUME NEW e \in Executors, Commit(e)
     PROVE  TypeOK'
  <2>1. job[e] \in Runs /\ txn[e] \in Txns
    BY <1>18 DEF Commit, Finished, TypeOK, ExecutorInv
  <2>2. /\ Verdict(e) \in {"COMPLETED", "FAILED"}
        /\ Message(e) \in {"none", "queue", "graph"}
    BY DEF Verdict, Message
  <2>3. MergedTicks(e) \in [Symbols -> TickSeen]
    BY <2>1 DEF MergedTicks, Txns, TypeOK
  <2>4. tick' \in [Runs -> [Symbols -> TickSeen]]
    BY <1>18, <2>1, <2>3 DEF Commit, TypeOK
  <2>5. recs' \in [Runs -> [Symbols -> Nat]]
    BY <1>18, <2>1 DEF Commit, TypeOK
  <2> QED BY <1>18, <2>1, <2>2, <2>4, <2>5, StatusType, LeaveType DEF Commit, TypeOK
<1>19. ASSUME NEW e \in Executors, Raise(e)
     PROVE  TypeOK'
  BY <1>19, LeaveType DEF Raise, TypeOK, ExecutorInv
<1>20. ASSUME NEW e \in Executors, NeutralFails(e)
     PROVE  TypeOK'
  BY <1>20, SpendType, LeaveTickerType DEF NeutralFails, TypeOK, FaultKinds
<1>21. ASSUME NEW e \in Executors, PersistRaises(e)
     PROVE  TypeOK'
  BY <1>21, SpendType, LeaveTickerType DEF PersistRaises, TypeOK, FaultKinds
<1>22. ASSUME NEW e \in Executors, NodeRaises(e)
     PROVE  TypeOK'
  BY <1>22, SpendType, FailedTxn, TxnType DEF NodeRaises, TypeOK, FaultKinds, Goto, ExecutorInv
<1>23. ASSUME NEW e \in Executors, WriteFails(e)
     PROVE  TypeOK'
  BY <1>23, SpendType, PoisonType DEF WriteFails, TypeOK, FaultKinds
<1>24. ASSUME NEW e \in Executors, DbError(e)
     PROVE  TypeOK'
  BY <1>24, SpendType, PoisonType DEF DbError, TypeOK, FaultKinds
<1>25. ASSUME NEW e \in Executors, SetupFails(e)
     PROVE  TypeOK'
  BY <1>25, SpendType, EmptyTxn, TxnType DEF SetupFails, TypeOK, FaultKinds
<1>26. CASE UNCHANGED vars
  BY <1>26 DEF vars, TypeOK
<1> QED BY <1>1, <1>2, <1>3, <1>4, <1>5, <1>6, <1>7, <1>8, <1>9, <1>10, <1>11, <1>12, <1>13, <1>14, <1>15, <1>16, <1>17, <1>18, <1>19, <1>20, <1>21, <1>22, <1>23, <1>24, <1>25, <1>26 DEF Next, Request, Progress, GraphFault, WorkerStep, WorkerFault

\* Every step keeps RequestInv: messages and executors exist for submitted runs only.
LEMMA RequestStep ==
  ASSUME TypeOK, RequestInv, ExecutorInv, [Next]_vars
  PROVE  RequestInv'
<1> USE Distinct, BudgetIsNat DEF Executors, UpdateStatus, Spend, db, exec, Terminal
<1>1. ASSUME NEW r \in Runs, SubmitAsync(r)
     PROVE  RequestInv'
  BY <1>1 DEF SubmitAsync, RequestInv, TypeOK
<1>2. ASSUME NEW r \in Runs, SubmitSync(r)
     PROVE  RequestInv'
  BY <1>2 DEF SubmitSync, RequestInv, TypeOK
<1>3. ASSUME NEW r \in Runs, Enqueue(r)
     PROVE  RequestInv'
  BY <1>3 DEF Enqueue, RequestInv, TypeOK
<1>4. ASSUME NEW r \in Runs, EnqueueFails(r)
     PROVE  RequestInv'
  BY <1>4 DEF EnqueueFails, RequestInv, TypeOK
<1>5. ASSUME NEW r \in Runs, RejectRun(r)
     PROVE  RequestInv'
  BY <1>5 DEF RejectRun, RequestInv, TypeOK
<1>6. ASSUME NEW r \in Runs, ApiCrash(r)
     PROVE  RequestInv'
  BY <1>6 DEF ApiCrash, Rollback, RequestInv, TypeOK
<1>7. ASSUME NEW w \in Workers, NEW r \in Runs, Deliver(w, r)
     PROVE  RequestInv'
  BY <1>7 DEF Deliver, RequestInv, TypeOK
<1>8. ASSUME NEW w \in Workers, Start(w)
     PROVE  RequestInv'
  BY <1>8 DEF Start, Goto, RequestInv, TypeOK, ExecutorInv
<1>9. ASSUME NEW w \in Workers, Ack(w)
     PROVE  RequestInv'
  BY <1>9 DEF Ack, Rollback, RequestInv, TypeOK
<1>10. ASSUME NEW w \in Workers, Redeliver(w)
     PROVE  RequestInv'
  BY <1>10 DEF Redeliver, RequestInv, TypeOK, ExecutorInv
<1>11. ASSUME NEW w \in Workers, WorkerRestart(w)
     PROVE  RequestInv'
  BY <1>11 DEF WorkerRestart, Rollback, RequestInv, TypeOK, ExecutorInv
<1>12. ASSUME NEW w \in Workers, ChildLost(w)
     PROVE  RequestInv'
  BY <1>12 DEF ChildLost, Rollback, RequestInv, TypeOK
<1>13. ASSUME NEW e \in Executors, NextTicker(e)
     PROVE  RequestInv'
  BY <1>13 DEF NextTicker, Goto, Remaining, RequestInv, TypeOK
<1>14. ASSUME NEW e \in Executors, EnterTicker(e)
     PROVE  RequestInv'
  BY <1>14 DEF EnterTicker, Goto, RequestInv, TypeOK
<1>15. ASSUME NEW e \in Executors, WriteSharedData(e)
     PROVE  RequestInv'
  BY <1>15 DEF WriteSharedData, Goto, RequestInv, TypeOK
<1>16. ASSUME NEW e \in Executors, DeadlockVictim(e)
     PROVE  RequestInv'
  BY <1>16 DEF DeadlockVictim, Poison, Goto, RequestInv, TypeOK
<1>17. ASSUME NEW e \in Executors, Recommend(e)
     PROVE  RequestInv'
  BY <1>17 DEF Recommend, LeaveTicker, Goto, RequestInv, TypeOK
<1>18. ASSUME NEW e \in Executors, Commit(e)
     PROVE  RequestInv'
  <2>1. /\ job[e] \in Runs /\ api[job[e]] # "idle"
        /\ e \in Runs => job[e] = e
        /\ Verdict(e) # "ABSENT" /\ queue' = queue
        /\ status' = [status EXCEPT ![job[e]] = Verdict(e)]
    BY <1>18 DEF Commit, Finished, ExecutorInv, Verdict
  <2>2. api' = api \/ (e \in Runs /\ api' = [api EXCEPT ![e] = "done"])
    BY <1>18 DEF Commit, Leave
  <2> QED BY <2>1, <2>2 DEF RequestInv, TypeOK
<1>19. ASSUME NEW e \in Executors, Raise(e)
     PROVE  RequestInv'
  BY <1>19 DEF Raise, Leave, Goto, RequestInv, TypeOK, ExecutorInv
<1>20. ASSUME NEW e \in Executors, NeutralFails(e)
     PROVE  RequestInv'
  BY <1>20 DEF NeutralFails, LeaveTicker, Goto, RequestInv, TypeOK
<1>21. ASSUME NEW e \in Executors, PersistRaises(e)
     PROVE  RequestInv'
  BY <1>21 DEF PersistRaises, LeaveTicker, Goto, RequestInv, TypeOK
<1>22. ASSUME NEW e \in Executors, NodeRaises(e)
     PROVE  RequestInv'
  BY <1>22 DEF NodeRaises, Goto, RequestInv, TypeOK
<1>23. ASSUME NEW e \in Executors, WriteFails(e)
     PROVE  RequestInv'
  BY <1>23 DEF WriteFails, Poison, Goto, RequestInv, TypeOK
<1>24. ASSUME NEW e \in Executors, DbError(e)
     PROVE  RequestInv'
  BY <1>24 DEF DbError, Poison, Goto, RequestInv, TypeOK
<1>25. ASSUME NEW e \in Executors, SetupFails(e)
     PROVE  RequestInv'
  BY <1>25 DEF SetupFails, RequestInv, TypeOK
<1>26. CASE UNCHANGED vars
  BY <1>26 DEF vars, RequestInv
<1> QED BY <1>1, <1>2, <1>3, <1>4, <1>5, <1>6, <1>7, <1>8, <1>9, <1>10, <1>11, <1>12, <1>13, <1>14, <1>15, <1>16, <1>17, <1>18, <1>19, <1>20, <1>21, <1>22, <1>23, <1>24, <1>25, <1>26 DEF Next, Request, Progress, GraphFault, WorkerStep, WorkerFault

\* Only an executor about to write a row can be on a cycle of waits.
LEMMA WaitsInside ==
  ASSUME NEW e \in Executors, OnWaitCycle(e)
  PROVE  pc[e] \in {"enter", "fetch"}
BY DEF OnWaitCycle, Blocks

\* Every step keeps ExecutorInv.
LEMMA ExecutorStep ==
  ASSUME TypeOK, RequestInv, ExecutorInv, [Next]_vars
  PROVE  ExecutorInv'
<1> USE Distinct, BudgetIsNat DEF Executors, UpdateStatus, Spend, db, exec, Terminal
<1>1. ASSUME NEW r \in Runs, SubmitAsync(r)
     PROVE  ExecutorInv'
  BY <1>1 DEF SubmitAsync, ExecutorInv, TypeOK
<1>2. ASSUME NEW r \in Runs, SubmitSync(r)
     PROVE  ExecutorInv'
  BY <1>2 DEF SubmitSync, ExecutorInv, TypeOK
<1>3. ASSUME NEW r \in Runs, Enqueue(r)
     PROVE  ExecutorInv'
  BY <1>3 DEF Enqueue, ExecutorInv, TypeOK
<1>4. ASSUME NEW r \in Runs, EnqueueFails(r)
     PROVE  ExecutorInv'
  BY <1>4 DEF EnqueueFails, ExecutorInv, TypeOK
<1>5. ASSUME NEW r \in Runs, RejectRun(r)
     PROVE  ExecutorInv'
  BY <1>5 DEF RejectRun, ExecutorInv, TypeOK
<1>6. ASSUME NEW r \in Runs, ApiCrash(r)
     PROVE  ExecutorInv'
  BY <1>6 DEF ApiCrash, Rollback, ExecutorInv, TypeOK
<1>7. ASSUME NEW w \in Workers, NEW r \in Runs, Deliver(w, r)
     PROVE  ExecutorInv'
  BY <1>7 DEF Deliver, ExecutorInv, TypeOK, RequestInv
<1>8. ASSUME NEW w \in Workers, Start(w)
     PROVE  ExecutorInv'
  BY <1>8 DEF Start, Goto, ExecutorInv, TypeOK
<1>9. ASSUME NEW w \in Workers, Ack(w)
     PROVE  ExecutorInv'
  BY <1>9 DEF Ack, Rollback, ExecutorInv, TypeOK
<1>10. ASSUME NEW w \in Workers, Redeliver(w)
     PROVE  ExecutorInv'
  BY <1>10 DEF Redeliver, ExecutorInv, TypeOK
<1>11. ASSUME NEW w \in Workers, WorkerRestart(w)
     PROVE  ExecutorInv'
  BY <1>11 DEF WorkerRestart, Rollback, ExecutorInv, TypeOK
<1>12. ASSUME NEW w \in Workers, ChildLost(w)
     PROVE  ExecutorInv'
  BY <1>12 DEF ChildLost, Rollback, ExecutorInv, TypeOK
<1>13. ASSUME NEW e \in Executors, NextTicker(e)
     PROVE  ExecutorInv'
  BY <1>13 DEF NextTicker, Goto, Remaining, ExecutorInv, TypeOK
<1>14. ASSUME NEW e \in Executors, EnterTicker(e)
     PROVE  ExecutorInv'
  <2>1. PICK l \in {"graph", "fetch"} : pc' = [pc EXCEPT ![e] = l]
    BY <1>14 DEF EnterTicker, Goto
  <2>2. \A x \in Executors \ {e} : txn'[x] = txn[x] /\ pc'[x] = pc[x]
    BY <1>14, <2>1 DEF EnterTicker, TypeOK
  <2>3. pc[e] = "enter" /\ pc'[e] = l /\ UNCHANGED <<api, job, cur>>
    BY <1>14, <2>1 DEF EnterTicker, TypeOK
  <2>4. Clean' = Clean
    BY DEF Clean, Empty
  <2> QED BY <2>1, <2>2, <2>3, <2>4 DEF ExecutorInv
<1>15. ASSUME NEW e \in Executors, WriteSharedData(e)
     PROVE  ExecutorInv'
  BY <1>15 DEF WriteSharedData, Goto, ExecutorInv, TypeOK
<1>16. ASSUME NEW e \in Executors, DeadlockVictim(e)
     PROVE  ExecutorInv'
  BY <1>16, WaitsInside DEF DeadlockVictim, Poison, Goto, ExecutorInv, TypeOK
<1>17. ASSUME NEW e \in Executors, Recommend(e)
     PROVE  ExecutorInv'
  BY <1>17 DEF Recommend, LeaveTicker, Goto, ExecutorInv, TypeOK
<1>18. ASSUME NEW e \in Executors, Commit(e)
     PROVE  ExecutorInv'
  BY <1>18 DEF Commit, Leave, Goto, Finished, ExecutorInv, TypeOK, RequestInv
<1>19. ASSUME NEW e \in Executors, Raise(e)
     PROVE  ExecutorInv'
  BY <1>19 DEF Raise, Leave, Goto, ExecutorInv, TypeOK, RequestInv
<1>20. ASSUME NEW e \in Executors, NeutralFails(e)
     PROVE  ExecutorInv'
  BY <1>20 DEF NeutralFails, LeaveTicker, Goto, ExecutorInv, TypeOK
<1>21. ASSUME NEW e \in Executors, PersistRaises(e)
     PROVE  ExecutorInv'
  BY <1>21 DEF PersistRaises, LeaveTicker, Goto, ExecutorInv, TypeOK
<1>22. ASSUME NEW e \in Executors, NodeRaises(e)
     PROVE  ExecutorInv'
  BY <1>22 DEF NodeRaises, Goto, ExecutorInv, TypeOK
<1>23. ASSUME NEW e \in Executors, WriteFails(e)
     PROVE  ExecutorInv'
  BY <1>23 DEF WriteFails, Poison, Goto, ExecutorInv, TypeOK
<1>24. ASSUME NEW e \in Executors, DbError(e)
     PROVE  ExecutorInv'
  BY <1>24 DEF DbError, Poison, Goto, ExecutorInv, TypeOK
<1>25. ASSUME NEW e \in Executors, SetupFails(e)
     PROVE  ExecutorInv'
  BY <1>25 DEF SetupFails, ExecutorInv, TypeOK
<1>26. CASE UNCHANGED vars
  BY <1>26 DEF vars, ExecutorInv, Clean, Empty
<1> QED BY <1>1, <1>2, <1>3, <1>4, <1>5, <1>6, <1>7, <1>8, <1>9, <1>10, <1>11, <1>12, <1>13, <1>14, <1>15, <1>16, <1>17, <1>18, <1>19, <1>20, <1>21, <1>22, <1>23, <1>24, <1>25, <1>26 DEF Next, Request, Progress, GraphFault, WorkerStep, WorkerFault

\* A ticker that leaves the graph is settled, and its recommendation with it.
LEMMA LeaveTickerTxn ==
  ASSUME TypeOK, ExecutorInv, TxnInv, NEW e \in Executors,
         NEW v \in {"COMPLETED", "FAILED"}, NEW b \in BOOLEAN, LeaveTicker(e, v, b)
  PROVE  TxnInv'
<1>1. /\ txn[e] \in Txns /\ cur[e] \in Symbols
      /\ pc[e] = "graph" /\ pc'[e] = "next"
  BY DEF LeaveTicker, Goto, TypeOK, ExecutorInv
<1>2. PICK S \in SUBSET Symbols : S = IF b THEN {cur[e]} ELSE {}
  BY <1>1
<1>6. txn'[e] = Flushed(txn[e], cur[e], v, S)
  BY <1>2 DEF LeaveTicker, TypeOK
<1>7. S \subseteq {cur[e]}
  BY <1>2
<1>8. PICK f : /\ txn'[e] = f /\ f.mode = txn[e].mode
               /\ f.recs = txn[e].recs \cup S
               /\ \A s \in Symbols :
                    f.tick[s] = IF s = cur[e] THEN v ELSE txn[e].tick[s]
  BY <1>1, <1>6, FlushedTxn DEF TickStates
<1>3. \A x \in Executors \ {e} :
        txn'[x] = txn[x] /\ pc'[x] = pc[x] /\ cur'[x] = cur[x]
  BY DEF LeaveTicker, Goto, TypeOK
<1>4. /\ txn[e].mode = "open"
      /\ \A s \in Symbols : /\ txn[e].tick[s] = "RUNNING" => s = cur[e]
                            /\ s \in txn[e].recs => txn[e].tick[s] \in Terminal
  BY <1>1 DEF TxnInv
<1>5. \A s \in Symbols : /\ f.tick[s] # "RUNNING"
                         /\ s \in f.recs => f.tick[s] \in Terminal
  BY <1>1, <1>7, <1>8, <1>4 DEF Terminal
<1> QED BY <1>1, <1>3, <1>4, <1>5, <1>8 DEF TxnInv

\* Every step keeps TxnInv.
LEMMA TxnStep ==
  ASSUME TypeOK, ExecutorInv, TxnInv, [Next]_vars
  PROVE  TxnInv'
<1> USE Distinct, BudgetIsNat DEF Executors, UpdateStatus, Spend, db, exec, Terminal, TickStates
<1>1. ASSUME NEW r \in Runs, SubmitAsync(r)
     PROVE  TxnInv'
  BY <1>1 DEF SubmitAsync, TxnInv, TypeOK
<1>2. ASSUME NEW r \in Runs, SubmitSync(r)
     PROVE  TxnInv'
  BY <1>2 DEF SubmitSync, TxnInv, TypeOK, ExecutorInv
<1>3. ASSUME NEW r \in Runs, Enqueue(r)
     PROVE  TxnInv'
  BY <1>3 DEF Enqueue, TxnInv, TypeOK
<1>4. ASSUME NEW r \in Runs, EnqueueFails(r)
     PROVE  TxnInv'
  BY <1>4 DEF EnqueueFails, TxnInv, TypeOK
<1>5. ASSUME NEW r \in Runs, RejectRun(r)
     PROVE  TxnInv'
  BY <1>5 DEF RejectRun, TxnInv, TypeOK
<1>6. ASSUME NEW r \in Runs, ApiCrash(r)
     PROVE  TxnInv'
  BY <1>6, EmptyTxn DEF ApiCrash, Rollback, Clean, TxnInv, TypeOK
<1>7. ASSUME NEW w \in Workers, NEW r \in Runs, Deliver(w, r)
     PROVE  TxnInv'
  BY <1>7 DEF Deliver, TxnInv, TypeOK
<1>8. ASSUME NEW w \in Workers, Start(w)
     PROVE  TxnInv'
  BY <1>8 DEF Start, Goto, TxnInv, TypeOK
<1>9. ASSUME NEW w \in Workers, Ack(w)
     PROVE  TxnInv'
  BY <1>9, EmptyTxn DEF Ack, Rollback, Clean, TxnInv, TypeOK
<1>10. ASSUME NEW w \in Workers, Redeliver(w)
     PROVE  TxnInv'
  BY <1>10 DEF Redeliver, TxnInv, TypeOK
<1>11. ASSUME NEW w \in Workers, WorkerRestart(w)
     PROVE  TxnInv'
  BY <1>11, EmptyTxn DEF WorkerRestart, Rollback, Clean, TxnInv, TypeOK
<1>12. ASSUME NEW w \in Workers, ChildLost(w)
     PROVE  TxnInv'
  BY <1>12, EmptyTxn DEF ChildLost, Rollback, Clean, TxnInv, TypeOK
<1>13. ASSUME NEW e \in Executors, NextTicker(e)
     PROVE  TxnInv'
  BY <1>13 DEF NextTicker, Goto, Remaining, TxnInv, TypeOK
<1>14. ASSUME NEW e \in Executors, EnterTicker(e)
     PROVE  TxnInv'
  <2>1. /\ txn[e] \in Txns /\ cur[e] \in Symbols
        /\ pc[e] = "enter" /\ pc'[e] \in {"fetch", "graph"}
    BY <1>14 DEF EnterTicker, Goto, TypeOK, ExecutorInv
  <2>5. txn'[e] = Flushed(txn[e], cur[e], "RUNNING", {}) /\ cur' = cur
    BY <1>14 DEF EnterTicker, TypeOK
  <2>2. PICK f : /\ txn'[e] = f /\ f.mode = txn[e].mode
                 /\ f.recs = txn[e].recs \cup {}
                 /\ \A s \in Symbols :
                      f.tick[s] = IF s = cur[e] THEN "RUNNING" ELSE txn[e].tick[s]
    <3>1. PICK v \in TickStates, S \in SUBSET Symbols : v = "RUNNING" /\ S = {}
      BY DEF TickStates
    <3>2. txn'[e] = Flushed(txn[e], cur[e], v, S)
      BY <2>5, <3>1
    <3>3. /\ Flushed(txn[e], cur[e], v, S).mode = txn[e].mode
          /\ Flushed(txn[e], cur[e], v, S).recs = txn[e].recs \cup S
          /\ \A s \in Symbols : Flushed(txn[e], cur[e], v, S).tick[s]
                                 = IF s = cur[e] THEN v ELSE txn[e].tick[s]
      BY <2>1, FlushedTxn
    <3> QED BY <3>1, <3>2, <3>3
  <2>3. \A x \in Executors \ {e} : txn'[x] = txn[x] /\ pc'[x] = pc[x]
    BY <1>14 DEF EnterTicker, Goto, TypeOK
  <2>4. /\ txn[e].mode = "open" /\ txn[e].tick[cur[e]] = "none"
        /\ \A s \in Symbols : /\ txn[e].tick[s] # "RUNNING"
                              /\ s \in txn[e].recs => txn[e].tick[s] \in Terminal
    BY <2>1 DEF TxnInv
  <2> QED BY <2>1, <2>2, <2>3, <2>4, <2>5 DEF TxnInv
<1>15. ASSUME NEW e \in Executors, WriteSharedData(e)
     PROVE  TxnInv'
  BY <1>15, WroteTxn DEF WriteSharedData, Goto, TxnInv, TypeOK, ExecutorInv
<1>16. ASSUME NEW e \in Executors, DeadlockVictim(e)
     PROVE  TxnInv'
  BY <1>16, EmptyTxn DEF DeadlockVictim, Poison, Goto, TxnInv, TypeOK
<1>17. ASSUME NEW e \in Executors, Recommend(e)
     PROVE  TxnInv'
  BY <1>17, LeaveTickerTxn DEF Recommend
<1>18. ASSUME NEW e \in Executors, Commit(e)
     PROVE  TxnInv'
  BY <1>18, EmptyTxn DEF Commit, Leave, Goto, Finished, Clean, TxnInv, TypeOK
<1>19. ASSUME NEW e \in Executors, Raise(e)
     PROVE  TxnInv'
  BY <1>19, EmptyTxn DEF Raise, Leave, Goto, Clean, TxnInv, TypeOK
<1>20. ASSUME NEW e \in Executors, NeutralFails(e)
     PROVE  TxnInv'
  BY <1>20, LeaveTickerTxn DEF NeutralFails
<1>21. ASSUME NEW e \in Executors, PersistRaises(e)
     PROVE  TxnInv'
  BY <1>21, LeaveTickerTxn DEF PersistRaises
<1>22. ASSUME NEW e \in Executors, NodeRaises(e)
     PROVE  TxnInv'
  BY <1>22, FailedTxn DEF NodeRaises, Goto, TxnInv, TypeOK, ExecutorInv
<1>23. ASSUME NEW e \in Executors, WriteFails(e)
     PROVE  TxnInv'
  BY <1>23, EmptyTxn DEF WriteFails, Poison, Goto, TxnInv, TypeOK
<1>24. ASSUME NEW e \in Executors, DbError(e)
     PROVE  TxnInv'
  BY <1>24, EmptyTxn DEF DbError, Poison, Goto, TxnInv, TypeOK
<1>25. ASSUME NEW e \in Executors, SetupFails(e)
     PROVE  TxnInv'
  BY <1>25, EmptyTxn DEF SetupFails, Clean, TxnInv, TypeOK
<1>26. CASE UNCHANGED vars
  BY <1>26 DEF vars, TxnInv
<1> QED BY <1>1, <1>2, <1>3, <1>4, <1>5, <1>6, <1>7, <1>8, <1>9, <1>10, <1>11, <1>12, <1>13, <1>14, <1>15, <1>16, <1>17, <1>18, <1>19, <1>20, <1>21, <1>22, <1>23, <1>24, <1>25, <1>26 DEF Next, Request, Progress, GraphFault, WorkerStep, WorkerFault

\* Every step keeps WholeOutcome: only Commit changes what it is about.
LEMMA WholeOutcomeStep ==
  ASSUME TypeOK, RequestInv, ExecutorInv, TxnInv, WholeOutcome, [Next]_vars
  PROVE  WholeOutcome'
<1> USE Distinct, BudgetIsNat DEF Executors, UpdateStatus, Spend, db, exec, Terminal, TickStates
<1>1. ASSUME NEW r \in Runs, SubmitAsync(r)
     PROVE  WholeOutcome'
  BY <1>1 DEF SubmitAsync, WholeOutcome, TypeOK
<1>2. ASSUME NEW r \in Runs, SubmitSync(r)
     PROVE  WholeOutcome'
  BY <1>2 DEF SubmitSync, WholeOutcome, TypeOK
<1>3. ASSUME NEW r \in Runs, Enqueue(r)
     PROVE  WholeOutcome'
  BY <1>3 DEF Enqueue, WholeOutcome, TypeOK
<1>4. ASSUME NEW r \in Runs, EnqueueFails(r)
     PROVE  WholeOutcome'
  BY <1>4 DEF EnqueueFails, WholeOutcome, TypeOK
<1>5. ASSUME NEW r \in Runs, RejectRun(r)
     PROVE  WholeOutcome'
  BY <1>5 DEF RejectRun, WholeOutcome, TypeOK
<1>6. ASSUME NEW r \in Runs, ApiCrash(r)
     PROVE  WholeOutcome'
  BY <1>6 DEF ApiCrash, Rollback, WholeOutcome, TypeOK
<1>7. ASSUME NEW w \in Workers, NEW r \in Runs, Deliver(w, r)
     PROVE  WholeOutcome'
  BY <1>7 DEF Deliver, WholeOutcome, TypeOK
<1>8. ASSUME NEW w \in Workers, Start(w)
     PROVE  WholeOutcome'
  BY <1>8 DEF Start, Goto, WholeOutcome, TypeOK
<1>9. ASSUME NEW w \in Workers, Ack(w)
     PROVE  WholeOutcome'
  BY <1>9 DEF Ack, Rollback, WholeOutcome, TypeOK
<1>10. ASSUME NEW w \in Workers, Redeliver(w)
     PROVE  WholeOutcome'
  BY <1>10 DEF Redeliver, WholeOutcome, TypeOK
<1>11. ASSUME NEW w \in Workers, WorkerRestart(w)
     PROVE  WholeOutcome'
  BY <1>11 DEF WorkerRestart, Rollback, WholeOutcome, TypeOK
<1>12. ASSUME NEW w \in Workers, ChildLost(w)
     PROVE  WholeOutcome'
  BY <1>12 DEF ChildLost, Rollback, WholeOutcome, TypeOK
<1>13. ASSUME NEW e \in Executors, NextTicker(e)
     PROVE  WholeOutcome'
  BY <1>13 DEF NextTicker, Goto, Remaining, WholeOutcome, TypeOK
<1>14. ASSUME NEW e \in Executors, EnterTicker(e)
     PROVE  WholeOutcome'
  BY <1>14 DEF EnterTicker, Goto, WholeOutcome, TypeOK
<1>15. ASSUME NEW e \in Executors, WriteSharedData(e)
     PROVE  WholeOutcome'
  BY <1>15 DEF WriteSharedData, Goto, WholeOutcome, TypeOK
<1>16. ASSUME NEW e \in Executors, DeadlockVictim(e)
     PROVE  WholeOutcome'
  BY <1>16 DEF DeadlockVictim, Poison, Goto, WholeOutcome, TypeOK
<1>17. ASSUME NEW e \in Executors, Recommend(e)
     PROVE  WholeOutcome'
  BY <1>17 DEF Recommend, LeaveTicker, Goto, WholeOutcome, TypeOK
<1>18. ASSUME NEW e \in Executors, Commit(e)
     PROVE  WholeOutcome'
  <2>1. /\ job[e] \in Runs /\ txn[e] \in Txns /\ pc[e] = "next"
        /\ status' = [status EXCEPT ![job[e]] = Verdict(e)]
        /\ tick' = [tick EXCEPT ![job[e]] = MergedTicks(e)]
    BY <1>18 DEF Commit, Finished, TypeOK, ExecutorInv
  <2>2. \A s \in Symbols :
          recs'[job[e]][s] = IF s \in txn[e].recs THEN recs[job[e]][s] + 1
                                                  ELSE recs[job[e]][s]
    BY <1>18, <2>1 DEF Commit, TypeOK
  <2>3. \A s \in Symbols : /\ txn[e].tick[s] \in TickStates \ {"RUNNING"}
                           /\ s \in txn[e].recs => txn[e].tick[s] \in Terminal
    BY <2>1 DEF TxnInv, Txns
  <2>4. Verdict(e) = "COMPLETED" => \A s \in Symbols : txn[e].tick[s] # "none"
    BY <1>18 DEF Commit, Finished, Verdict, Remaining
  <2>5. \A s \in Symbols :
          MergedTicks(e)[s] = IF txn[e].tick[s] = "none" THEN tick[job[e]][s]
                                                         ELSE txn[e].tick[s]
    BY DEF MergedTicks
  <2>6. ASSUME NEW r \in Runs \ {job[e]}
        PROVE  status'[r] = status[r] /\ tick'[r] = tick[r] /\ recs'[r] = recs[r]
    BY <1>18, <2>1, <2>6 DEF Commit, TypeOK
  <2>7. status'[job[e]] = Verdict(e) /\ tick'[job[e]] = MergedTicks(e)
    BY <2>1 DEF TypeOK
  <2>8. ASSUME NEW s \in Symbols
        PROVE  /\ tick'[job[e]][s] # "RUNNING"
               /\ tick'[job[e]][s] = "CREATED" => recs'[job[e]][s] = 0
               /\ Verdict(e) = "COMPLETED" => tick'[job[e]][s] \in Terminal
    BY <2>1, <2>2, <2>3, <2>4, <2>5, <2>7 DEF WholeOutcome
  <2> QED BY <2>1, <2>6, <2>7, <2>8 DEF WholeOutcome
<1>19. ASSUME NEW e \in Executors, Raise(e)
     PROVE  WholeOutcome'
  BY <1>19 DEF Raise, Leave, Goto, WholeOutcome, TypeOK
<1>20. ASSUME NEW e \in Executors, NeutralFails(e)
     PROVE  WholeOutcome'
  BY <1>20 DEF NeutralFails, LeaveTicker, Goto, WholeOutcome, TypeOK
<1>21. ASSUME NEW e \in Executors, PersistRaises(e)
     PROVE  WholeOutcome'
  BY <1>21 DEF PersistRaises, LeaveTicker, Goto, WholeOutcome, TypeOK
<1>22. ASSUME NEW e \in Executors, NodeRaises(e)
     PROVE  WholeOutcome'
  BY <1>22 DEF NodeRaises, Goto, WholeOutcome, TypeOK
<1>23. ASSUME NEW e \in Executors, WriteFails(e)
     PROVE  WholeOutcome'
  BY <1>23 DEF WriteFails, Poison, Goto, WholeOutcome, TypeOK
<1>24. ASSUME NEW e \in Executors, DbError(e)
     PROVE  WholeOutcome'
  BY <1>24 DEF DbError, Poison, Goto, WholeOutcome, TypeOK
<1>25. ASSUME NEW e \in Executors, SetupFails(e)
     PROVE  WholeOutcome'
  BY <1>25 DEF SetupFails, WholeOutcome, TypeOK
<1>26. CASE UNCHANGED vars
  BY <1>26 DEF vars, WholeOutcome
<1> QED BY <1>1, <1>2, <1>3, <1>4, <1>5, <1>6, <1>7, <1>8, <1>9, <1>10, <1>11, <1>12, <1>13, <1>14, <1>15, <1>16, <1>17, <1>18, <1>19, <1>20, <1>21, <1>22, <1>23, <1>24, <1>25, <1>26 DEF Next, Request, Progress, GraphFault, WorkerStep, WorkerFault

\* Every step keeps NothingBeforeStart.
LEMMA NothingStep ==
  ASSUME TypeOK, RequestInv, ExecutorInv, NothingBeforeStart, [Next]_vars
  PROVE  NothingBeforeStart'
<1> USE Distinct, BudgetIsNat DEF Executors, UpdateStatus, Spend, db, exec, Terminal, TickStates
<1>1. ASSUME NEW r \in Runs, SubmitAsync(r)
     PROVE  NothingBeforeStart'
  BY <1>1 DEF SubmitAsync, NothingBeforeStart, TypeOK, RequestInv
<1>2. ASSUME NEW r \in Runs, SubmitSync(r)
     PROVE  NothingBeforeStart'
  BY <1>2 DEF SubmitSync, NothingBeforeStart, TypeOK, RequestInv
<1>3. ASSUME NEW r \in Runs, Enqueue(r)
     PROVE  NothingBeforeStart'
  BY <1>3 DEF Enqueue, NothingBeforeStart, TypeOK, RequestInv
<1>4. ASSUME NEW r \in Runs, EnqueueFails(r)
     PROVE  NothingBeforeStart'
  BY <1>4 DEF EnqueueFails, NothingBeforeStart, TypeOK, RequestInv
<1>5. ASSUME NEW r \in Runs, RejectRun(r)
     PROVE  NothingBeforeStart'
  BY <1>5 DEF RejectRun, NothingBeforeStart, TypeOK
<1>6. ASSUME NEW r \in Runs, ApiCrash(r)
     PROVE  NothingBeforeStart'
  BY <1>6 DEF ApiCrash, Rollback, NothingBeforeStart, TypeOK
<1>7. ASSUME NEW w \in Workers, NEW r \in Runs, Deliver(w, r)
     PROVE  NothingBeforeStart'
  BY <1>7 DEF Deliver, NothingBeforeStart, TypeOK
<1>8. ASSUME NEW w \in Workers, Start(w)
     PROVE  NothingBeforeStart'
  BY <1>8 DEF Start, Goto, NothingBeforeStart, TypeOK, ExecutorInv
<1>9. ASSUME NEW w \in Workers, Ack(w)
     PROVE  NothingBeforeStart'
  BY <1>9 DEF Ack, Rollback, NothingBeforeStart, TypeOK
<1>10. ASSUME NEW w \in Workers, Redeliver(w)
     PROVE  NothingBeforeStart'
  BY <1>10 DEF Redeliver, NothingBeforeStart, TypeOK, ExecutorInv, RequestInv
<1>11. ASSUME NEW w \in Workers, WorkerRestart(w)
     PROVE  NothingBeforeStart'
  BY <1>11 DEF WorkerRestart, Rollback, NothingBeforeStart, TypeOK, ExecutorInv, RequestInv
<1>12. ASSUME NEW w \in Workers, ChildLost(w)
     PROVE  NothingBeforeStart'
  BY <1>12 DEF ChildLost, Rollback, NothingBeforeStart, TypeOK
<1>13. ASSUME NEW e \in Executors, NextTicker(e)
     PROVE  NothingBeforeStart'
  BY <1>13 DEF NextTicker, Goto, Remaining, NothingBeforeStart, TypeOK
<1>14. ASSUME NEW e \in Executors, EnterTicker(e)
     PROVE  NothingBeforeStart'
  BY <1>14 DEF EnterTicker, Goto, NothingBeforeStart, TypeOK
<1>15. ASSUME NEW e \in Executors, WriteSharedData(e)
     PROVE  NothingBeforeStart'
  BY <1>15 DEF WriteSharedData, Goto, NothingBeforeStart, TypeOK
<1>16. ASSUME NEW e \in Executors, DeadlockVictim(e)
     PROVE  NothingBeforeStart'
  BY <1>16 DEF DeadlockVictim, Poison, Goto, NothingBeforeStart, TypeOK
<1>17. ASSUME NEW e \in Executors, Recommend(e)
     PROVE  NothingBeforeStart'
  BY <1>17 DEF Recommend, LeaveTicker, Goto, NothingBeforeStart, TypeOK
<1>18. ASSUME NEW e \in Executors, Commit(e)
     PROVE  NothingBeforeStart'
  <2>1. /\ job[e] \in Runs /\ queue' = queue
        /\ Verdict(e) \notin {"ABSENT", "QUEUED"}
        /\ status' = [status EXCEPT ![job[e]] = Verdict(e)]
    BY <1>18 DEF Commit, Finished, ExecutorInv, Verdict
  <2>2. ASSUME NEW r \in Runs \ {job[e]}
        PROVE  status'[r] = status[r] /\ tick'[r] = tick[r] /\ recs'[r] = recs[r]
    BY <1>18, <2>1, <2>2 DEF Commit, TypeOK
  <2> QED BY <2>1, <2>2 DEF NothingBeforeStart, TypeOK
<1>19. ASSUME NEW e \in Executors, Raise(e)
     PROVE  NothingBeforeStart'
  BY <1>19 DEF Raise, Leave, Goto, NothingBeforeStart, TypeOK
<1>20. ASSUME NEW e \in Executors, NeutralFails(e)
     PROVE  NothingBeforeStart'
  BY <1>20 DEF NeutralFails, LeaveTicker, Goto, NothingBeforeStart, TypeOK
<1>21. ASSUME NEW e \in Executors, PersistRaises(e)
     PROVE  NothingBeforeStart'
  BY <1>21 DEF PersistRaises, LeaveTicker, Goto, NothingBeforeStart, TypeOK
<1>22. ASSUME NEW e \in Executors, NodeRaises(e)
     PROVE  NothingBeforeStart'
  BY <1>22 DEF NodeRaises, Goto, NothingBeforeStart, TypeOK
<1>23. ASSUME NEW e \in Executors, WriteFails(e)
     PROVE  NothingBeforeStart'
  BY <1>23 DEF WriteFails, Poison, Goto, NothingBeforeStart, TypeOK
<1>24. ASSUME NEW e \in Executors, DbError(e)
     PROVE  NothingBeforeStart'
  BY <1>24 DEF DbError, Poison, Goto, NothingBeforeStart, TypeOK
<1>25. ASSUME NEW e \in Executors, SetupFails(e)
     PROVE  NothingBeforeStart'
  BY <1>25 DEF SetupFails, NothingBeforeStart, TypeOK
<1>26. CASE UNCHANGED vars
  BY <1>26 DEF vars, NothingBeforeStart
<1> QED BY <1>1, <1>2, <1>3, <1>4, <1>5, <1>6, <1>7, <1>8, <1>9, <1>10, <1>11, <1>12, <1>13, <1>14, <1>15, <1>16, <1>17, <1>18, <1>19, <1>20, <1>21, <1>22, <1>23, <1>24, <1>25, <1>26 DEF Next, Request, Progress, GraphFault, WorkerStep, WorkerFault

-----------------------------------------------------------------------------
(* The theorems. *)

\* The initial state satisfies the inductive invariant.
LEMMA InvInit == Init => IInv
<1> SUFFICES ASSUME Init PROVE IInv
  OBVIOUS
<1>1. /\ Clean \in Txns /\ Clean.recs = {} /\ Clean.mode = "open"
      /\ \A s \in Symbols : Clean.tick[s] = "none"
  BY EmptyTxn DEF Clean
<1>2. TypeOK
  BY <1>1 DEF Init, TypeOK, FaultKinds, Executors
<1>3. WholeOutcome /\ NothingBeforeStart /\ RequestInv /\ ExecutorInv
  BY DEF Init, WholeOutcome, NothingBeforeStart, RequestInv, ExecutorInv, Executors
<1>4. TxnInv
  BY <1>1 DEF Init, TxnInv, Executors
<1> QED BY <1>2, <1>3, <1>4 DEF IInv

\* Every step keeps it.
LEMMA InvStep == IInv /\ [Next]_vars => IInv'
BY TypeStep, RequestStep, ExecutorStep, TxnStep, WholeOutcomeStep, NothingStep DEF IInv

\* Every reachable state satisfies the inductive invariant: a run is submitted
\* before anything works on it, executors hold well-formed transactions, and
\* these facts keep readers from seeing half an execution.
THEOREM Inductive == Spec => []IInv
BY InvInit, InvStep, PTL DEF Spec

\* Every variable keeps to its values, for any number of runs, symbols,
\* workers and faults.
THEOREM TypeCorrect == Spec => []TypeOK
<1>1. IInv => TypeOK
  BY DEF IInv
<1> QED BY <1>1, Inductive, PTL

\* A reader never sees half an execution: the final commit of research.py
\* shows the verdict, the tickers and the recommendations together.
THEOREM WholeOutcomeHolds == Spec => []WholeOutcome
<1>1. IInv => WholeOutcome
  BY DEF IInv
<1> QED BY <1>1, Inductive, PTL

\* Nothing of a run is readable before an execution has committed RUNNING, and
\* no message names an uncommitted run (commit before send_task).
THEOREM NothingBeforeStartHolds == Spec => []NothingBeforeStart
<1>1. IInv => NothingBeforeStart
  BY DEF IInv
<1> QED BY <1>1, Inductive, PTL

Verdicts == \A r \in Runs : recs'[r] # recs[r] => status'[r] \in Terminal

\* Only the final commit of an execution publishes recommendations.
LEMMA VerdictStep ==
  ASSUME TypeOK, ExecutorInv, [Next]_vars
  PROVE  Verdicts
<1>1. ASSUME NEW r \in Runs, SubmitAsync(r)
     PROVE  Verdicts
  BY <1>1 DEF SubmitAsync, Verdicts, db, exec
<1>2. ASSUME NEW r \in Runs, SubmitSync(r)
     PROVE  Verdicts
  BY <1>2 DEF SubmitSync, Verdicts, db, exec
<1>3. ASSUME NEW r \in Runs, Enqueue(r)
     PROVE  Verdicts
  BY <1>3 DEF Enqueue, Verdicts, db, exec
<1>4. ASSUME NEW r \in Runs, EnqueueFails(r)
     PROVE  Verdicts
  BY <1>4 DEF EnqueueFails, Verdicts, db, exec
<1>5. ASSUME NEW r \in Runs, RejectRun(r)
     PROVE  Verdicts
  BY <1>5 DEF RejectRun, Verdicts, db, exec
<1>6. ASSUME NEW r \in Runs, ApiCrash(r)
     PROVE  Verdicts
  BY <1>6 DEF ApiCrash, Verdicts, db, exec
<1>7. ASSUME NEW w \in Workers, NEW r \in Runs, Deliver(w, r)
     PROVE  Verdicts
  BY <1>7 DEF Deliver, Verdicts, db, exec
<1>8. ASSUME NEW w \in Workers, Start(w)
     PROVE  Verdicts
  BY <1>8 DEF Start, Verdicts, db, exec
<1>9. ASSUME NEW w \in Workers, Ack(w)
     PROVE  Verdicts
  BY <1>9 DEF Ack, Verdicts, db, exec
<1>10. ASSUME NEW w \in Workers, Redeliver(w)
     PROVE  Verdicts
  BY <1>10 DEF Redeliver, Verdicts, db, exec
<1>11. ASSUME NEW w \in Workers, WorkerRestart(w)
     PROVE  Verdicts
  BY <1>11 DEF WorkerRestart, Verdicts, db, exec
<1>12. ASSUME NEW w \in Workers, ChildLost(w)
     PROVE  Verdicts
  BY <1>12 DEF ChildLost, Verdicts, db, exec
<1>13. ASSUME NEW e \in Executors, NextTicker(e)
     PROVE  Verdicts
  BY <1>13 DEF NextTicker, Verdicts, db, exec
<1>14. ASSUME NEW e \in Executors, EnterTicker(e)
     PROVE  Verdicts
  BY <1>14 DEF EnterTicker, Verdicts, db, exec
<1>15. ASSUME NEW e \in Executors, WriteSharedData(e)
     PROVE  Verdicts
  BY <1>15 DEF WriteSharedData, Verdicts, db, exec
<1>16. ASSUME NEW e \in Executors, DeadlockVictim(e)
     PROVE  Verdicts
  BY <1>16 DEF DeadlockVictim, Verdicts, db, exec
<1>17. ASSUME NEW e \in Executors, Recommend(e)
     PROVE  Verdicts
  BY <1>17 DEF Recommend, LeaveTicker, Verdicts, db, exec
<1>18. ASSUME NEW e \in Executors, Commit(e)
     PROVE  Verdicts
  <2>1. /\ job[e] \in Runs /\ Verdict(e) \in Terminal
        /\ status' = [status EXCEPT ![job[e]] = Verdict(e)]
    BY <1>18 DEF Commit, Finished, ExecutorInv, Verdict, UpdateStatus, Terminal
  <2>2. \A r \in Runs \ {job[e]} : recs'[r] = recs[r]
    BY <1>18, <2>1 DEF Commit, TypeOK
  <2> QED BY <2>1, <2>2 DEF Verdicts, TypeOK
<1>19. ASSUME NEW e \in Executors, Raise(e)
     PROVE  Verdicts
  BY <1>19 DEF Raise, Verdicts, db, exec
<1>20. ASSUME NEW e \in Executors, NeutralFails(e)
     PROVE  Verdicts
  BY <1>20 DEF NeutralFails, LeaveTicker, Verdicts, db, exec
<1>21. ASSUME NEW e \in Executors, PersistRaises(e)
     PROVE  Verdicts
  BY <1>21 DEF PersistRaises, LeaveTicker, Verdicts, db, exec
<1>22. ASSUME NEW e \in Executors, NodeRaises(e)
     PROVE  Verdicts
  BY <1>22 DEF NodeRaises, Verdicts, db, exec
<1>23. ASSUME NEW e \in Executors, WriteFails(e)
     PROVE  Verdicts
  BY <1>23 DEF WriteFails, Verdicts, db, exec
<1>24. ASSUME NEW e \in Executors, DbError(e)
     PROVE  Verdicts
  BY <1>24 DEF DbError, Verdicts, db, exec
<1>25. ASSUME NEW e \in Executors, SetupFails(e)
     PROVE  Verdicts
  BY <1>25 DEF SetupFails, Verdicts, db, exec
<1>26. CASE UNCHANGED vars
  BY <1>26 DEF vars, db, Verdicts
<1> QED BY <1>1, <1>2, <1>3, <1>4, <1>5, <1>6, <1>7, <1>8, <1>9, <1>10, <1>11, <1>12, <1>13, <1>14, <1>15, <1>16, <1>17, <1>18, <1>19, <1>20, <1>21, <1>22, <1>23, <1>24, <1>25, <1>26 DEF Next, Request, Progress, GraphFault, WorkerStep, WorkerFault

\* Whoever polls the status never reads a settled run whose recommendations are
\* still to come (the commit after the final update_status, research.py).
THEOREM RecsWithVerdictHolds == Spec => RecsWithVerdict
<1>1. IInv /\ [Next]_vars => [Verdicts]_vars
  BY VerdictStep DEF IInv
<1> QED BY <1>1, Inductive, PTL DEF Spec, RecsWithVerdict, Verdicts

-----------------------------------------------------------------------------
(* How often a run can be executed *)

Busy == {"received", "next", "enter", "fetch", "graph"}

Working(r) == {e \in Executors : job[e] = r /\ pc[e] \in Busy}

\* what may still become a message or an execution
Unasked(r) == IF api[r] \in {"idle", "enqueue"} THEN 1 ELSE 0

Chances(r) == Unasked(r) + queue[r] + Cardinality(Working(r))

Duplicated == spent["redelivery"] + spent["restart"]

\* Every recommendation of a ticker took one chance, and only a message that
\* comes back gives another.
Counted == \A r \in Runs, s \in Symbols : recs[r][s] + Chances(r) <= 1 + Duplicated

\* Executors are finitely many.
LEMMA WorkingFinite ==
  ASSUME NEW r
  PROVE  IsFiniteSet(Working(r)) /\ Cardinality(Working(r)) \in Nat
<1>1. IsFiniteSet(Executors)
  BY ExecutorsFinite, FS_Union DEF Executors
<1> QED BY <1>1, FS_Subset, FS_CardinalityType DEF Working

\* A set with fewer members has not more of them, one more or less has one more
\* or less.
LEMMA Sizes ==
  ASSUME NEW S, IsFiniteSet(S), NEW T
  PROVE  /\ Cardinality(S) \in Nat
         /\ T \subseteq S => Cardinality(T) <= Cardinality(S) /\ Cardinality(T) \in Nat
         /\ \A e : T = S \cup {e} => Cardinality(T) <= Cardinality(S) + 1 /\ Cardinality(T) \in Nat
         /\ \A e \in S : T = S \ {e} => Cardinality(T) = Cardinality(S) - 1
<1>1. Cardinality(S) \in Nat
  BY FS_CardinalityType
<1>2. T \subseteq S => Cardinality(T) <= Cardinality(S) /\ Cardinality(T) \in Nat
  BY FS_Subset, FS_CardinalityType
<1>3. ASSUME NEW e, T = S \cup {e} PROVE Cardinality(T) <= Cardinality(S) + 1 /\ Cardinality(T) \in Nat
  <2>1. CASE e \in S
    <3>1. T = S
      BY <1>3, <2>1
    <3> QED BY <1>1, <3>1
  <2>2. CASE e \notin S
    <3>1. Cardinality(T) = Cardinality(S) + 1
      BY <1>3, <2>2, FS_AddElement
    <3> QED BY <1>1, <3>1
  <2> QED BY <2>1, <2>2
<1>4. ASSUME NEW e \in S, T = S \ {e} PROVE Cardinality(T) = Cardinality(S) - 1
  BY <1>4, FS_RemoveElement
<1> QED BY <1>1, <1>2, <1>3, <1>4

\* What an executor does between Start and its last step: nobody sees it, and
\* only one that failed was not started.
Inside(e) == /\ UNCHANGED <<status, error, recs, api, queue, job>>
             /\ pc[e] \in Busy /\ pc'[e] \in Busy \ {"received"}
             /\ \A x \in Executors : x # e => pc'[x] = pc[x] /\ txn'[x] = txn[x]
             /\ txn'[e].mode # "poisoned" => pc[e] # "received" /\ txn[e].mode # "poisoned"
             /\ Duplicated' = Duplicated

\* A failed statement poisons the session.
LEMMA PoisonInside ==
  ASSUME TypeOK, NEW e \in Executors, Poison(e), pc[e] \in Busy,
         UNCHANGED <<db, api, queue>>, Duplicated' = Duplicated
  PROVE  Inside(e)
<1>1. txn'[e] = Empty("poisoned") /\ pc'[e] = "next"
      /\ \A x \in Executors : x # e => pc'[x] = pc[x] /\ txn'[x] = txn[x]
  BY DEF Poison, Goto, TypeOK
<1>2. txn'[e].mode = "poisoned"
  BY <1>1, EmptyTxn
<1> QED BY <1>1, <1>2 DEF Inside, Busy, Poison, db

\* The ticker leaves the graph.
LEMMA LeaveTickerInside ==
  ASSUME TypeOK, ExecutorInv, TxnInv, NEW e \in Executors, NEW v, NEW b \in BOOLEAN,
         LeaveTicker(e, v, b), Duplicated' = Duplicated
  PROVE  Inside(e)
<1>1. pc[e] = "graph" /\ pc'[e] = "next"
      /\ \A x \in Executors : x # e => pc'[x] = pc[x] /\ txn'[x] = txn[x]
  BY DEF LeaveTicker, Goto, TypeOK
<1>2. txn[e].mode = "open"
  BY <1>1 DEF TxnInv
<1> QED BY <1>1, <1>2 DEF Inside, Busy, LeaveTicker, db

\* Faults other than a message that comes back duplicate nothing.
LEMMA SpendOther ==
  ASSUME TypeOK, NEW k \in FaultKinds \ {"redelivery", "restart"}, Spend(k)
  PROVE  Duplicated' = Duplicated
BY DEF TypeOK, Spend, Duplicated, FaultKinds

\* All steps inside an execution are of this kind.
LEMMA InsideStep ==
  ASSUME TypeOK, ExecutorInv, TxnInv, NEW e \in Executors,
         Progress(e) \/ GraphFault(e), ~Commit(e), ~Raise(e)
  PROVE  Inside(e)
<1>0. UNCHANGED spent => Duplicated' = Duplicated
  BY DEF Duplicated
<1>1. CASE NextTicker(e)
  BY <1>0, <1>1 DEF NextTicker, Goto, Inside, Busy, TypeOK, db
<1>2. CASE EnterTicker(e)
  <2>1. pc[e] = "enter" /\ pc'[e] \in {"graph", "fetch"}
        /\ \A x \in Executors : x # e => pc'[x] = pc[x] /\ txn'[x] = txn[x]
    BY <1>2 DEF EnterTicker, Goto, TypeOK
  <2>2. txn[e].mode = "open"
    BY <2>1 DEF TxnInv
  <2> QED BY <1>0, <1>2, <2>1, <2>2 DEF EnterTicker, Inside, Busy, db
<1>3. CASE WriteSharedData(e)
  <2>1. pc[e] = "fetch" /\ pc'[e] = "graph"
        /\ \A x \in Executors : x # e => pc'[x] = pc[x] /\ txn'[x] = txn[x]
    BY <1>3 DEF WriteSharedData, Goto, TypeOK
  <2>2. txn[e].mode = "open"
    BY <2>1 DEF TxnInv
  <2> QED BY <1>0, <1>3, <2>1, <2>2 DEF WriteSharedData, Inside, Busy, db
<1>4. CASE DeadlockVictim(e)
  BY <1>0, <1>4, WaitsInside, PoisonInside DEF DeadlockVictim, Busy
<1>5. CASE Recommend(e)
  BY <1>0, <1>5, LeaveTickerInside DEF Recommend
<1>6. CASE NeutralFails(e)
  BY <1>6, SpendOther, LeaveTickerInside DEF NeutralFails, FaultKinds
<1>7. CASE PersistRaises(e)
  BY <1>7, SpendOther, LeaveTickerInside DEF PersistRaises, FaultKinds
<1>8. CASE NodeRaises(e)
  <2>1. pc[e] = "graph" /\ pc'[e] = "next"
        /\ \A x \in Executors : x # e => pc'[x] = pc[x] /\ txn'[x] = txn[x]
    BY <1>8 DEF NodeRaises, Goto, TypeOK
  <2>2. txn[e].mode = "open"
    BY <2>1 DEF TxnInv
  <2>3. Duplicated' = Duplicated
    BY <1>8, SpendOther DEF NodeRaises, FaultKinds
  <2> QED BY <1>8, <2>1, <2>2, <2>3 DEF NodeRaises, Inside, Busy, db
<1>9. CASE WriteFails(e)
  BY <1>9, SpendOther, PoisonInside DEF WriteFails, FaultKinds, Busy
<1>10. CASE DbError(e)
  BY <1>10, SpendOther, PoisonInside DEF DbError, FaultKinds, Busy
<1>11. CASE SetupFails(e)
  <2>1. pc[e] = "next" /\ pc' = pc /\ txn[e].mode = "open"
        /\ \A x \in Executors : x # e => txn'[x] = txn[x]
    BY <1>11, EmptyTxn DEF SetupFails, Clean, TypeOK
  <2>2. Duplicated' = Duplicated
    BY <1>11, SpendOther DEF SetupFails, FaultKinds
  <2> QED BY <1>11, <2>1, <2>2 DEF SetupFails, Inside, Busy, db
<1> QED BY <1>1, <1>2, <1>3, <1>4, <1>5, <1>6, <1>7, <1>8, <1>9, <1>10, <1>11 DEF Progress, GraphFault

\* Steps that give no chance.
LEMMA CountedStays ==
  ASSUME TypeOK, TypeOK', Counted, recs' = recs, queue' = queue, Duplicated' = Duplicated,
         \A r \in Runs : api[r] \notin {"idle", "enqueue"} => api'[r] \notin {"idle", "enqueue"},
         \A r \in Runs : Working(r)' \subseteq Working(r)
  PROVE  Counted'
<1>1. \A r \in Runs : /\ Cardinality(Working(r)') <= Cardinality(Working(r))
                      /\ Cardinality(Working(r)') \in Nat /\ Cardinality(Working(r)) \in Nat
  BY WorkingFinite, Sizes
<1>2. \A r \in Runs : Unasked(r)' <= Unasked(r) /\ Unasked(r) \in Nat /\ Unasked(r)' \in Nat
  BY DEF Unasked
<1>3. \A r \in Runs : Chances(r)' <= Chances(r) /\ Chances(r) \in Nat /\ Chances(r)' \in Nat
  BY <1>1, <1>2 DEF Chances, TypeOK
<1>4. Duplicated \in Nat /\ \A r \in Runs, s \in Symbols : recs[r][s] \in Nat
  BY DEF Duplicated, TypeOK, FaultKinds
<1> QED BY <1>3, <1>4 DEF Counted

\* One executor moves: what the others work on stays.
LEMMA OneMoves ==
  ASSUME NEW e \in Executors, NEW r,
         \A x \in Executors : x # e => job'[x] = job[x] /\ pc'[x] = pc[x]
  PROVE  /\ Working(r)' \subseteq Working(r) \cup {e}
         /\ Cardinality(Working(r)') <= Cardinality(Working(r)) + 1
         /\ job'[e] # r \/ pc'[e] \notin Busy =>
              /\ Working(r)' \subseteq Working(r)
              /\ Cardinality(Working(r)') <= Cardinality(Working(r))
              /\ e \in Working(r) => Cardinality(Working(r)') = Cardinality(Working(r)) - 1
         /\ Cardinality(Working(r)) \in Nat /\ Cardinality(Working(r)') \in Nat
<1>1. Working(r)' \subseteq Working(r) \cup {e}
  BY DEF Working
<1>2. job'[e] # r \/ pc'[e] \notin Busy => Working(r)' = Working(r) \ {e}
  BY DEF Working
<1>3. IsFiniteSet(Working(r)) /\ Cardinality(Working(r)) \in Nat
  BY WorkingFinite
<1>4. /\ IsFiniteSet(Working(r) \cup {e})
      /\ Cardinality(Working(r) \cup {e}) <= Cardinality(Working(r)) + 1
      /\ Cardinality(Working(r) \cup {e}) \in Nat
  <2>1. IsFiniteSet(Working(r) \cup {e})
    BY <1>3, FS_AddElement
  <2> QED BY <1>3, <2>1, Sizes
<1>5. Cardinality(Working(r)') <= Cardinality(Working(r)) + 1 /\ Cardinality(Working(r)') \in Nat
  BY <1>1, <1>3, <1>4, Sizes
<1>6. ASSUME job'[e] # r \/ pc'[e] \notin Busy
      PROVE  /\ Working(r)' \subseteq Working(r)
             /\ Cardinality(Working(r)') <= Cardinality(Working(r))
             /\ e \in Working(r) => Cardinality(Working(r)') = Cardinality(Working(r)) - 1
  <2>1. Working(r)' = Working(r) \ {e} /\ Working(r) \ {e} \subseteq Working(r)
    BY <1>2, <1>6
  <2> QED BY <1>3, <2>1, Sizes
<1> QED BY <1>1, <1>3, <1>5, <1>6

\* A chance becomes another, or a recommendation, or comes with a duplicate.
LEMMA CountedTraded ==
  ASSUME TypeOK, TypeOK', Counted,
         \A r \in Runs : Cardinality(Working(r)') \in Nat,
         \A r \in Runs, s \in Symbols :
           recs'[r][s] + Unasked(r)' + queue'[r] + Cardinality(Working(r)') + Duplicated
             <= recs[r][s] + Unasked(r) + queue[r] + Cardinality(Working(r)) + Duplicated'
  PROVE  Counted'
<1>1. /\ Duplicated \in Nat /\ Duplicated' \in Nat
      /\ \A r \in Runs : /\ queue[r] \in Nat /\ queue'[r] \in Nat
                         /\ Unasked(r) \in Nat /\ Unasked(r)' \in Nat
      /\ \A r \in Runs, s \in Symbols : recs[r][s] \in Nat /\ recs'[r][s] \in Nat
  BY DEF TypeOK, Duplicated, FaultKinds, Unasked
<1>2. \A r \in Runs : Cardinality(Working(r)) \in Nat
  BY WorkingFinite
<1> QED BY <1>1, <1>2 DEF Counted, Chances

\* The request of a run.
LEMMA CountedRequest ==
  ASSUME TypeOK, TypeOK', ExecutorInv, Counted, NEW r \in Runs,
         SubmitAsync(r) \/ SubmitSync(r) \/ Request(r) \/ ApiCrash(r)
  PROVE  Counted'
<1>0. UNCHANGED spent => Duplicated' = Duplicated
  BY DEF Duplicated
<1>1. ASSUME UNCHANGED <<recs, queue, pc, job>>, Duplicated' = Duplicated,
             \A x \in Runs : api[x] \notin {"idle", "enqueue"} => api'[x] \notin {"idle", "enqueue"}
      PROVE  Counted'
  <2>1. \A x \in Runs : Working(x)' \subseteq Working(x)
    BY <1>1 DEF Working
  <2> QED BY <1>1, <2>1, CountedStays
<1>2. CASE SubmitAsync(r)
  <2>1. \A x \in Runs : api[x] \notin {"idle", "enqueue"} => api'[x] \notin {"idle", "enqueue"}
    BY <1>2 DEF SubmitAsync, TypeOK
  <2> QED BY <1>0, <1>1, <1>2, <2>1 DEF SubmitAsync, exec
<1>3. CASE SubmitSync(r)
  <2>1. /\ api[r] = "idle" /\ job'[r] = r /\ recs' = recs /\ queue' = queue /\ Duplicated' = Duplicated
        /\ \A x \in Runs : x # r => api'[x] = api[x]
        /\ api'[r] = "running"
        /\ r \in Executors
        /\ \A x \in Executors : x # r => job'[x] = job[x] /\ pc'[x] = pc[x]
    BY <1>0, <1>3 DEF SubmitSync, TypeOK, Executors
  <2>2. \A x \in Runs : /\ Cardinality(Working(x)') <= Cardinality(Working(x)) + 1
                        /\ x # r => Cardinality(Working(x)') <= Cardinality(Working(x))
                        /\ Cardinality(Working(x)) \in Nat /\ Cardinality(Working(x)') \in Nat
    BY <2>1, OneMoves
  <2>3. /\ \A x \in Runs : x # r => Unasked(x)' = Unasked(x)
        /\ Unasked(r)' = 0 /\ Unasked(r) = 1 /\ \A x \in Runs : Unasked(x) \in Nat
    BY <2>1 DEF Unasked
  <2>4. \A x \in Runs : Unasked(x)' + Cardinality(Working(x)') <= Unasked(x) + Cardinality(Working(x))
    BY <2>2, <2>3
  <2> QED BY <2>1, <2>2, <2>3, <2>4, CountedTraded DEF TypeOK, Duplicated, FaultKinds, Unasked
<1>4. ASSUME NEW d \in {0, 1}, api[r] = "enqueue", api'[r] \in {"done", "reject"},
             \A x \in Runs : x # r => api'[x] = api[x] /\ queue'[x] = queue[x],
             queue'[r] = queue[r] + d, UNCHANGED <<recs, pc, job>>, Duplicated' = Duplicated
      PROVE  Counted'
  <2>1. \A x \in Runs : Working(x)' = Working(x) /\ Cardinality(Working(x)) \in Nat
    BY <1>4, WorkingFinite DEF Working
  <2>2. /\ \A x \in Runs : x # r => Unasked(x)' = Unasked(x)
        /\ Unasked(r)' = 0 /\ Unasked(r) = 1 /\ \A x \in Runs : Unasked(x) \in Nat
    BY <1>4 DEF Unasked
  <2>3. \A x \in Runs : Unasked(x)' + queue'[x] <= Unasked(x) + queue[x]
    <3>1. \A x \in Runs : queue[x] \in Nat /\ queue'[x] \in Nat
      BY DEF TypeOK
    <3>2. Unasked(r)' + queue'[r] <= Unasked(r) + queue[r]
      BY <1>4, <2>2, <3>1
    <3>3. ASSUME NEW x \in Runs, x # r PROVE Unasked(x)' + queue'[x] <= Unasked(x) + queue[x]
      BY <1>4, <2>2, <3>1, <3>3
    <3> QED BY <3>2, <3>3
  <2> QED BY <1>4, <2>1, <2>2, <2>3, CountedTraded DEF TypeOK, Duplicated, FaultKinds, Unasked
<1>5. CASE Enqueue(r)
  BY <1>0, <1>4, <1>5 DEF Enqueue, TypeOK, db, exec
<1>6. CASE EnqueueFails(r)
  <2>1. Duplicated' = Duplicated
    BY <1>6, SpendOther DEF EnqueueFails, FaultKinds
  <2>2. CASE queue' = queue
    <3>1. queue'[r] = queue[r] + 0
      BY <2>2 DEF TypeOK
    <3> QED BY <1>4, <1>6, <2>1, <2>2, <3>1 DEF EnqueueFails, TypeOK, db, exec
  <2>3. CASE queue' = [queue EXCEPT ![r] = @ + 1]
    BY <1>4, <1>6, <2>1, <2>3 DEF EnqueueFails, TypeOK, db, exec
  <2> QED BY <1>6, <2>2, <2>3 DEF EnqueueFails
<1>7. CASE RejectRun(r)
  <2>1. \A x \in Runs : api[x] \notin {"idle", "enqueue"} => api'[x] \notin {"idle", "enqueue"}
    BY <1>7 DEF RejectRun, TypeOK
  <2> QED BY <1>0, <1>1, <1>7, <2>1 DEF RejectRun, exec
<1>8. CASE ApiCrash(r)
  <2>1. \A x \in Runs : api[x] \notin {"idle", "enqueue"} => api'[x] \notin {"idle", "enqueue"}
    BY <1>8 DEF ApiCrash, TypeOK
  <2>2. Duplicated' = Duplicated
    BY <1>8, SpendOther DEF ApiCrash, FaultKinds
  <2>3. \A x \in Runs : Working(x)' \subseteq Working(x)
    BY <1>8 DEF ApiCrash, Rollback, Working, Busy, TypeOK
  <2> QED BY <1>8, <2>1, <2>2, <2>3, CountedStays DEF ApiCrash, db
<1> QED BY <1>2, <1>3, <1>5, <1>6, <1>7, <1>8 DEF Request

\* The broker and a worker.
LEMMA CountedWorker ==
  ASSUME TypeOK, TypeOK', ExecutorInv, Counted, NEW w \in Workers,
         (\E r \in Runs : Deliver(w, r)) \/ WorkerStep(w) \/ WorkerFault(w)
  PROVE  Counted'
<1>0. /\ UNCHANGED spent => Duplicated' = Duplicated
      /\ w \in Executors
      /\ \A x \in Runs : /\ queue[x] \in Nat /\ queue'[x] \in Nat
                         /\ Unasked(x) \in Nat /\ Unasked(x)' \in Nat
      /\ Duplicated \in Nat /\ Duplicated' \in Nat
      /\ \A x \in Runs, s \in Symbols : recs[x][s] \in Nat /\ recs'[x][s] \in Nat
  BY DEF Duplicated, TypeOK, FaultKinds, Executors, Unasked
<1>1. ASSUME NEW r \in Runs, Deliver(w, r) PROVE Counted'
  <2>1. /\ job'[w] = r /\ recs' = recs /\ api' = api /\ Duplicated' = Duplicated
        /\ \A x \in Executors : x # w => job'[x] = job[x] /\ pc'[x] = pc[x]
        /\ queue'[r] = queue[r] - 1
        /\ \A x \in Runs : x # r => queue'[x] = queue[x]
    BY <1>0, <1>1 DEF Deliver, TypeOK, db
  <2>2. \A x \in Runs : /\ Cardinality(Working(x)') <= Cardinality(Working(x)) + 1
                        /\ x # r => Cardinality(Working(x)') <= Cardinality(Working(x))
                        /\ Cardinality(Working(x)) \in Nat /\ Cardinality(Working(x)') \in Nat
    BY <1>0, <2>1, OneMoves
  <2>3. \A x \in Runs : Unasked(x)' = Unasked(x)
    BY <2>1 DEF Unasked
  <2>4. ASSUME NEW x \in Runs
        PROVE  queue'[x] + Cardinality(Working(x)') <= queue[x] + Cardinality(Working(x))
    BY <1>0, <2>1, <2>2
  <2> QED BY <1>0, <2>1, <2>2, <2>3, <2>4, CountedTraded
<1>2. CASE Start(w)
  <2>1. \A x \in Runs : Working(x)' \subseteq Working(x)
    BY <1>2 DEF Start, Goto, Working, Busy, TypeOK
  <2> QED BY <1>0, <1>2, <2>1, CountedStays DEF Start
<1>3. ASSUME Rollback(w) PROVE \A x \in Runs : Working(x)' \subseteq Working(x)
  BY <1>3 DEF Rollback, Working, Busy, TypeOK
<1>4. CASE Ack(w)
  BY <1>0, <1>3, <1>4, CountedStays DEF Ack, db
<1>5. CASE ChildLost(w)
  <2>1. Duplicated' = Duplicated
    BY <1>5, SpendOther DEF ChildLost, FaultKinds
  <2> QED BY <1>3, <1>5, <2>1, CountedStays DEF ChildLost, db
<1>6. ASSUME Spend("redelivery") \/ Spend("restart") PROVE Duplicated' = Duplicated + 1
  BY <1>6 DEF Spend, Duplicated, TypeOK, FaultKinds
<1>7. ASSUME recs' = recs, api' = api, Duplicated' = Duplicated + 1,
             \A x \in Runs : Working(x)' \subseteq Working(x),
             \A x \in Runs : queue'[x] <= queue[x] + 1
      PROVE  Counted'
  <2>1. \A x \in Runs : /\ Cardinality(Working(x)') <= Cardinality(Working(x))
                        /\ Cardinality(Working(x)') \in Nat /\ Cardinality(Working(x)) \in Nat
    BY <1>7, WorkingFinite, Sizes
  <2>2. \A x \in Runs : Unasked(x)' = Unasked(x)
    BY <1>7 DEF Unasked
  <2> QED BY <1>0, <1>7, <2>1, <2>2, CountedTraded
<1>8. CASE Redeliver(w)
  <2>1. \A x \in Runs : Working(x)' \subseteq Working(x)
    BY <1>8 DEF Redeliver, Working, exec
  <2>2. \A x \in Runs : queue'[x] <= queue[x] + 1
    BY <1>0, <1>8 DEF Redeliver, TypeOK
  <2> QED BY <1>6, <1>7, <1>8, <2>1, <2>2 DEF Redeliver, db
<1>9. CASE WorkerRestart(w)
  <2>1. \A x \in Runs : queue'[x] <= queue[x] + 1
    BY <1>0, <1>9 DEF WorkerRestart, TypeOK
  <2> QED BY <1>3, <1>6, <1>7, <1>9, <2>1 DEF WorkerRestart, db
<1> QED BY <1>1, <1>2, <1>4, <1>5, <1>8, <1>9 DEF WorkerStep, WorkerFault

\* An executor.
LEMMA CountedExecutor ==
  ASSUME TypeOK, TypeOK', ExecutorInv, TxnInv, Counted, NEW e \in Executors,
         Progress(e) \/ GraphFault(e)
  PROVE  Counted'
<1>0. /\ UNCHANGED spent => Duplicated' = Duplicated
      /\ Duplicated \in Nat
      /\ \A x \in Runs : /\ queue[x] \in Nat
                         /\ Unasked(x) \in Nat /\ Unasked(x)' \in Nat
      /\ \A x \in Runs, s \in Symbols : recs[x][s] \in Nat /\ recs'[x][s] \in Nat
  BY DEF Duplicated, TypeOK, FaultKinds, Unasked
<1>1. CASE ~Commit(e) /\ ~Raise(e)
  <2>1. Inside(e)
    BY <1>1, InsideStep
  <2>2. \A x \in Runs : Working(x)' \subseteq Working(x)
    BY <2>1 DEF Inside, Working
  <2> QED BY <2>1, <2>2, CountedStays DEF Inside
<1>2. ASSUME Leave(e)
      PROVE  /\ \A x \in Executors : x # e => job'[x] = job[x] /\ pc'[x] = pc[x]
             /\ pc'[e] \notin Busy
             /\ \A x \in Runs : api[x] \notin {"idle", "enqueue"} => api'[x] \notin {"idle", "enqueue"}
             /\ \A x \in Runs : Unasked(x)' <= Unasked(x)
  BY <1>2 DEF Leave, Goto, Busy, TypeOK, Unasked
<1>3. ASSUME Leave(e) PROVE \A x \in Runs : Working(x)' \subseteq Working(x)
  BY <1>2, <1>3 DEF Working
<1>4. CASE Raise(e)
  BY <1>0, <1>2, <1>3, <1>4, CountedStays DEF Raise, db
<1>5. CASE Commit(e)
  <2>1. Leave(e) /\ queue' = queue /\ Duplicated' = Duplicated
    BY <1>0, <1>5 DEF Commit
  <2>2. e \in Working(job[e]) /\ job[e] \in Runs
    BY <1>5 DEF Commit, Finished, Working, Busy, ExecutorInv
  <2>3. \A x \in Runs : /\ Cardinality(Working(x)') <= Cardinality(Working(x))
                        /\ Cardinality(Working(x)') \in Nat /\ Cardinality(Working(x)) \in Nat
                        /\ x = job[e] => Cardinality(Working(x)') = Cardinality(Working(x)) - 1
    BY <1>2, <2>1, <2>2, OneMoves
  <2>4. \A x \in Runs, s \in Symbols : /\ recs'[x][s] <= recs[x][s] + 1
                                       /\ x # job[e] => recs'[x][s] = recs[x][s]
    BY <1>0, <1>5, <2>2 DEF Commit, TypeOK
  <2>5. ASSUME NEW x \in Runs, NEW s \in Symbols
        PROVE  recs'[x][s] + Cardinality(Working(x)') <= recs[x][s] + Cardinality(Working(x))
    <3>1. CASE x = job[e]
      <4>1. Cardinality(Working(x)') = Cardinality(Working(x)) - 1
        BY <2>3, <3>1
      <4>2. recs'[x][s] <= recs[x][s] + 1
        BY <2>4
      <4> QED BY <1>0, <2>3, <4>1, <4>2
    <3>2. CASE x # job[e]
      <4>1. recs'[x][s] = recs[x][s]
        BY <2>4, <3>2
      <4> QED BY <1>0, <2>3, <4>1
    <3> QED BY <3>1, <3>2
  <2> QED BY <1>0, <1>2, <2>1, <2>3, <2>5, CountedTraded
<1> QED BY <1>1, <1>4, <1>5

\* A second recommendation for a ticker takes a message that came back,
\* whatever else fails (acks_late and no status guard, research.py).
THEOREM DuplicatesExplained == Spec => []DuplicatesNeedRedelivery
<1>1. Init => Counted
  <2> SUFFICES ASSUME Init PROVE Counted
    OBVIOUS
  <2>1. \A r \in Runs : Working(r) = {} /\ Unasked(r) = 1 /\ queue[r] = 0
    BY DEF Init, Working, Busy, Unasked
  <2>2. Duplicated = 0
    BY DEF Init, Duplicated, FaultKinds
  <2>3. \A r \in Runs : Chances(r) = 1
    <3>1. Cardinality({}) = 0
      BY FS_EmptySet
    <3> QED BY <2>1, <3>1 DEF Chances
  <2>4. \A r \in Runs, s \in Symbols : recs[r][s] = 0
    BY DEF Init
  <2> QED BY <2>2, <2>3, <2>4 DEF Counted
<1>2. ASSUME IInv, IInv', Counted, [Next]_vars PROVE Counted'
  <2>1. TypeOK /\ TypeOK' /\ ExecutorInv /\ TxnInv
    BY <1>2 DEF IInv
  <2>2. CASE UNCHANGED vars
    BY <1>2, <2>2 DEF vars, db, exec, Counted, Chances, Unasked, Working, Duplicated
  <2> QED BY <1>2, <2>1, <2>2, CountedRequest, CountedWorker, CountedExecutor DEF Next
<1>3. ASSUME IInv, Counted PROVE DuplicatesNeedRedelivery
  <2>1. TypeOK
    BY <1>3 DEF IInv
  <2>2. Duplicated \in Nat /\ \A r \in Runs : queue[r] \in Nat /\ Unasked(r) \in Nat
    BY <2>1 DEF TypeOK, Duplicated, FaultKinds, Unasked
  <2>3. \A r \in Runs : Cardinality(Working(r)) \in Nat
    BY WorkingFinite
  <2>4. \A r \in Runs : Chances(r) >= 0 /\ Chances(r) \in Nat
    BY <2>2, <2>3 DEF Chances
  <2>5. \A r \in Runs, s \in Symbols : recs[r][s] <= 1 + Duplicated
    <3>1. \A r \in Runs, s \in Symbols : recs[r][s] \in Nat
      BY <2>1 DEF TypeOK
    <3> QED BY <1>3, <2>2, <2>4, <3>1 DEF Counted
  <2>6. spent["redelivery"] \in Nat /\ spent["restart"] \in Nat
    BY <2>1 DEF TypeOK, FaultKinds
  <2>7. 1 + Duplicated = 1 + spent["redelivery"] + spent["restart"]
    BY <2>6 DEF Duplicated
  <2> QED BY <2>5, <2>7 DEF DuplicatesNeedRedelivery
<1> QED BY <1>1, <1>2, <1>3, Inductive, PTL DEF Spec

-----------------------------------------------------------------------------
(* What a run does when no message is doubled *)

MessagesOnce == /\ Budget["redelivery"] = 0
                /\ Budget["restart"] = 0
                /\ Budget["ambiguous"] = 0

\* Until it is settled a run has no recommendations and no error, and at most
\* one of its request, its message and its executor is left to move it on.
ExactRun(r) ==
  /\ status[r] \notin Terminal => error[r] = "none" /\ \A s \in Symbols : recs[r][s] = 0
  /\ status[r] = "COMPLETED" => error[r] = "none"
  /\ api[r] \in {"enqueue", "reject"} => status[r] = "QUEUED" /\ queue[r] = 0 /\ Working(r) = {}
  /\ queue[r] > 0 => status[r] = "QUEUED" /\ queue[r] = 1 /\ Working(r) = {}
  /\ \A e \in Working(r) : /\ pc[e] = "received" => status[r] = "QUEUED"
                           /\ pc[e] # "received" /\ txn[e].mode # "poisoned" => status[r] = "RUNNING"
                           /\ \A x \in Working(r) : x = e

Exact == \A r \in Runs : ExactRun(r)

\* Nothing of run r changes but that executors may stop.
LEMMA ExactStays ==
  ASSUME NEW r \in Runs, ExactRun(r), status'[r] = status[r], error'[r] = error[r],
         recs'[r] = recs[r], queue'[r] = queue[r],
         api'[r] \in {"enqueue", "reject"} => api[r] \in {"enqueue", "reject"},
         \A e \in Working(r)' : e \in Working(r) /\ pc'[e] = pc[e] /\ txn'[e] = txn[e]
  PROVE  ExactRun(r)'
BY DEF ExactRun

\* An executor goes on inside its execution.
LEMMA ExactInside ==
  ASSUME Exact, NEW e \in Executors, Inside(e)
  PROVE  Exact'
<1>1. ASSUME NEW r \in Runs PROVE ExactRun(r)'
  <2>1. Working(r)' = Working(r)
    BY DEF Inside, Working
  <2>2. ASSUME NEW x \in Working(r)
        PROVE  /\ pc'[x] = "received" => pc[x] = "received"
               /\ pc'[x] # "received" /\ txn'[x].mode # "poisoned" =>
                    pc[x] # "received" /\ txn[x].mode # "poisoned"
    <3>1. CASE x = e
      BY <3>1 DEF Inside
    <3>2. CASE x # e
      BY <3>2 DEF Inside, Working
    <3> QED BY <3>1, <3>2
  <2> QED BY <2>1, <2>2 DEF Exact, ExactRun, Inside
<1> QED BY <1>1 DEF Exact

\* The request of a run.
LEMMA ExactRequest ==
  ASSUME MessagesOnce, TypeOK, RequestInv, ExecutorInv, Exact, NEW r \in Runs,
         SubmitAsync(r) \/ SubmitSync(r) \/ Request(r) \/ ApiCrash(r)
  PROVE  Exact'
<1> SUFFICES ASSUME NEW x \in Runs PROVE ExactRun(x)'
  BY DEF Exact
<1>0. ExactRun(x) /\ ExactRun(r)
  BY DEF Exact
<1>1. api[r] = "idle" => /\ status[r] = "ABSENT" /\ queue[r] = 0 /\ Working(r) = {}
  BY DEF RequestInv, ExecutorInv, Working, Busy
<1>2. CASE SubmitAsync(r)
  <2>1. Working(x)' = Working(x) /\ pc' = pc /\ txn' = txn
    BY <1>2 DEF SubmitAsync, Working, exec
  <2>2. CASE x # r
    BY <1>0, <1>2, <2>1, <2>2, ExactStays DEF SubmitAsync, UpdateStatus, TypeOK
  <2>3. CASE x = r
    BY <1>0, <1>1, <1>2, <2>1, <2>3 DEF SubmitAsync, UpdateStatus, TypeOK, ExactRun, Terminal
  <2> QED BY <2>2, <2>3
<1>3. CASE SubmitSync(r)
  <2>0. r \in Executors
    BY DEF Executors
  <2>1. /\ Working(x)' \subseteq IF x = r THEN {r} ELSE Working(x)
        /\ \A e \in Executors : e # r => pc'[e] = pc[e]
        /\ txn' = txn
        /\ pc'[r] = "next"
    BY <1>1, <1>3, <2>0 DEF SubmitSync, Working, TypeOK
  <2>2. CASE x # r
    <3>1. Working(x)' \subseteq Working(x) \ {r}
      BY <1>3, <2>0, <2>1, <2>2 DEF SubmitSync, Working, TypeOK
    <3>2. \A e \in Working(x)' : e \in Working(x) /\ pc'[e] = pc[e]
      BY <2>1, <3>1 DEF Working
    <3> QED BY <1>0, <1>3, <2>1, <2>2, <3>2, ExactStays DEF SubmitSync, UpdateStatus, TypeOK
  <2>3. CASE x = r
    BY <1>0, <1>1, <1>3, <2>1, <2>3 DEF SubmitSync, UpdateStatus, TypeOK, ExactRun, Terminal
  <2> QED BY <2>2, <2>3
<1>4. CASE Enqueue(r)
  <2>1. Working(x)' = Working(x) /\ pc' = pc /\ txn' = txn
    BY <1>4 DEF Enqueue, Working, exec
  <2>2. CASE x # r
    BY <1>0, <1>4, <2>1, <2>2, ExactStays DEF Enqueue, TypeOK, db
  <2>3. CASE x = r
    BY <1>0, <1>4, <2>1, <2>3 DEF Enqueue, TypeOK, db, ExactRun, Terminal
  <2> QED BY <2>2, <2>3
<1>5. CASE EnqueueFails(r)
  <2>1. Working(x)' = Working(x) /\ pc' = pc /\ txn' = txn /\ queue' = queue
    BY <1>5 DEF EnqueueFails, Working, exec, Spend, MessagesOnce, TypeOK, FaultKinds
  <2>2. /\ UNCHANGED db /\ api[r] = "enqueue"
        /\ \A y \in Runs : y # r => api'[y] = api[y]
    BY <1>5 DEF EnqueueFails, TypeOK
  <2>3. api'[x] \in {"enqueue", "reject"} => api[x] \in {"enqueue", "reject"}
    BY <2>2
  <2> QED BY <1>0, <2>1, <2>2, <2>3, ExactStays DEF db
<1>6. CASE RejectRun(r)
  <2>1. Working(x)' = Working(x) /\ pc' = pc /\ txn' = txn
    BY <1>6 DEF RejectRun, Working, exec
  <2>2. CASE x # r
    BY <1>0, <1>6, <2>1, <2>2, ExactStays DEF RejectRun, UpdateStatus, TypeOK
  <2>3. CASE x = r
    <3>1. /\ api'[r] = "done" /\ status'[r] = "FAILED" /\ queue'[r] = 0 /\ Working(r)' = {}
      BY <1>0, <1>6, <2>1, <2>3 DEF RejectRun, UpdateStatus, TypeOK, ExactRun
    <3> QED BY <2>3, <3>1 DEF ExactRun, Terminal
  <2> QED BY <2>2, <2>3
<1>7. CASE ApiCrash(r)
  <2>1. \A e \in Working(x)' : e \in Working(x) /\ pc'[e] = pc[e] /\ txn'[e] = txn[e]
    BY <1>7 DEF ApiCrash, Rollback, Working, Busy, TypeOK
  <2>2. api'[x] \in {"enqueue", "reject"} => api[x] \in {"enqueue", "reject"}
    BY <1>7 DEF ApiCrash, TypeOK
  <2> QED BY <1>0, <1>7, <2>1, <2>2, ExactStays DEF ApiCrash, db
<1> QED BY <1>2, <1>3, <1>4, <1>5, <1>6, <1>7 DEF Request

\* The broker and a worker: no message comes back.
LEMMA ExactWorker ==
  ASSUME MessagesOnce, TypeOK, ExecutorInv, Exact, NEW w \in Workers,
         (\E r \in Runs : Deliver(w, r)) \/ WorkerStep(w) \/ WorkerFault(w)
  PROVE  Exact'
<1> SUFFICES ASSUME NEW x \in Runs PROVE ExactRun(x)'
  BY DEF Exact
<1>0. ExactRun(x) /\ w \in Executors
  BY DEF Exact, Executors
<1>1. ASSUME NEW r \in Runs, Deliver(w, r) PROVE ExactRun(x)'
  <2>1. /\ job'[w] = r /\ pc'[w] = "received" /\ txn' = txn /\ UNCHANGED <<db, api>>
        /\ pc[w] = "idle"
        /\ \A e \in Executors : e # w => job'[e] = job[e] /\ pc'[e] = pc[e]
        /\ queue[r] > 0 /\ queue'[r] = queue[r] - 1
        /\ \A y \in Runs : y # r => queue'[y] = queue[y]
    BY <1>0, <1>1 DEF Deliver, TypeOK
  <2>2. CASE x # r
    <3>1. \A e \in Working(x)' : e \in Working(x) /\ pc'[e] = pc[e] /\ txn'[e] = txn[e]
      BY <1>0, <2>1, <2>2 DEF Working
    <3> QED BY <1>0, <2>1, <2>2, <3>1, ExactStays DEF db
  <2>3. CASE x = r
    <3>1. status[r] = "QUEUED" /\ Working(r) = {} /\ queue[r] = 1 /\ api[r] \notin {"enqueue", "reject"}
      BY <1>0, <2>1, <2>3 DEF ExactRun
    <3>2. queue'[r] = 0
      BY <2>1, <3>1
    <3>3. Working(r)' \subseteq {w}
      BY <2>1, <3>1 DEF Working
    <3>4. status'[r] = "QUEUED" /\ api'[r] \notin {"enqueue", "reject"}
          /\ error'[r] = error[r] /\ recs'[r] = recs[r]
      BY <2>1, <3>1 DEF db
    <3> QED BY <1>0, <2>1, <2>3, <3>1, <3>2, <3>3, <3>4 DEF ExactRun, Terminal
  <2> QED BY <2>2, <2>3
<1>2. CASE Start(w)
  <2>1. /\ pc[w] = "received" /\ pc'[w] = "next" /\ job[w] \in Runs
        /\ w \in Working(job[w])
        /\ UNCHANGED <<recs, api, queue, job, txn>> /\ error' = error
        /\ status' = [status EXCEPT ![job[w]] = "RUNNING"]
        /\ \A e \in Executors : e # w => pc'[e] = pc[e]
    BY <1>0, <1>2 DEF Start, UpdateStatus, Goto, ExecutorInv, TypeOK, Working, Busy
  <2>2. Working(x)' = Working(x)
    BY <2>1 DEF Working, Busy
  <2>3. CASE x # job[w]
    <3>1. \A e \in Working(x)' : e \in Working(x) /\ pc'[e] = pc[e] /\ txn'[e] = txn[e]
      BY <2>1, <2>2, <2>3 DEF Working
    <3>2. status'[x] = status[x]
      BY <2>1, <2>3 DEF TypeOK
    <3> QED BY <1>0, <2>1, <3>1, <3>2, ExactStays
  <2>4. CASE x = job[w]
    <3>1. /\ status[x] = "QUEUED" /\ Working(x) \subseteq {w} /\ queue[x] = 0
          /\ api[x] \notin {"enqueue", "reject"}
      BY <1>0, <2>1, <2>4 DEF ExactRun, TypeOK
    <3>2. status'[x] = "RUNNING"
      BY <2>1, <2>4 DEF TypeOK
    <3> QED BY <1>0, <2>1, <2>2, <3>1, <3>2 DEF ExactRun, Terminal
  <2> QED BY <2>3, <2>4
<1>3. CASE Ack(w) \/ ChildLost(w)
  <2>1. Rollback(w) /\ UNCHANGED <<db, api, queue>>
    BY <1>3 DEF Ack, ChildLost
  <2>2. \A e \in Working(x)' : e \in Working(x) /\ pc'[e] = pc[e] /\ txn'[e] = txn[e]
    BY <2>1 DEF Rollback, Working, Busy, TypeOK
  <2> QED BY <1>0, <2>1, <2>2, ExactStays DEF db
<1>4. ~ Redeliver(w) /\ ~ WorkerRestart(w)
  BY DEF Redeliver, WorkerRestart, Spend, MessagesOnce, TypeOK, FaultKinds
<1> QED BY <1>1, <1>2, <1>3, <1>4 DEF WorkerStep, WorkerFault

\* An executor that commits or raises.
LEMMA ExactExecutor ==
  ASSUME MessagesOnce, TypeOK, ExecutorInv, TxnInv, Exact, NEW e \in Executors,
         Progress(e) \/ GraphFault(e)
  PROVE  Exact'
<1>1. CASE ~Commit(e) /\ ~Raise(e)
  BY <1>1, InsideStep, ExactInside
<1>2. ASSUME Leave(e), queue' = queue
      PROVE  /\ \A x \in Runs : \A y \in Working(x)' :
                   y # e /\ y \in Working(x) /\ pc'[y] = pc[y] /\ txn'[y] = txn[y]
             /\ \A x \in Runs : api'[x] \in {"enqueue", "reject"} => api[x] \in {"enqueue", "reject"}
  BY <1>2 DEF Leave, Goto, Working, Busy, TypeOK
<1>3. CASE Raise(e)
  BY <1>2, <1>3, ExactStays DEF Raise, Exact, db
<1>4. CASE Commit(e)
  <2>1. Leave(e) /\ queue' = queue
    BY <1>4 DEF Commit
  <2>2. /\ e \in Working(job[e]) /\ job[e] \in Runs
        /\ pc[e] # "received" /\ txn[e].mode # "poisoned"
    BY <1>4 DEF Commit, Finished, Working, Busy, ExecutorInv
  <2>3. /\ status'[job[e]] = Verdict(e)
        /\ error'[job[e]] = IF Message(e) = "none" THEN error[job[e]] ELSE Message(e)
        /\ \A x \in Runs : x # job[e] => /\ status'[x] = status[x] /\ error'[x] = error[x]
                                        /\ recs'[x] = recs[x]
    BY <1>4, <2>2 DEF Commit, UpdateStatus, TypeOK
  <2>4. Verdict(e) \in Terminal /\ (Verdict(e) = "COMPLETED" => Message(e) = "none")
    BY DEF Verdict, Message, Terminal
  <2>5. ASSUME NEW x \in Runs, x # job[e] PROVE ExactRun(x)'
    BY <1>2, <2>1, <2>3, <2>5, ExactStays DEF Exact
  <2>6. ASSUME NEW r \in Runs, r = job[e] PROVE ExactRun(r)'
    <3>1. /\ status[r] = "RUNNING" /\ error[r] = "none"
          /\ queue[r] = 0 /\ api[r] \notin {"enqueue", "reject"}
          /\ Working(r) \subseteq {e}
      <4>1. ExactRun(r) /\ e \in Working(r) /\ pc[e] # "received" /\ txn[e].mode # "poisoned"
        BY <2>2, <2>6 DEF Exact
      <4>2. status[r] = "RUNNING" /\ Working(r) \subseteq {e} /\ Working(r) # {}
        BY <4>1 DEF ExactRun
      <4>3. queue[r] \in Nat /\ ~ (queue[r] > 0)
        BY <4>1, <4>2 DEF ExactRun, TypeOK
      <4> QED BY <4>1, <4>2, <4>3 DEF ExactRun, Terminal
    <3>2. Working(r)' = {}
      BY <1>2, <2>1, <3>1
    <3>3. status'[r] \in Terminal /\ queue'[r] = 0 /\ api'[r] \notin {"enqueue", "reject"}
      BY <1>2, <2>1, <2>3, <2>4, <2>6, <3>1
    <3>4. status'[r] = "COMPLETED" => error'[r] = "none"
      BY <2>3, <2>4, <2>6, <3>1
    <3> QED BY <3>2, <3>3, <3>4 DEF ExactRun
  <2> QED BY <2>5, <2>6 DEF Exact
<1> QED BY <1>1, <1>3, <1>4

Once == IInv /\ Exact

\* The two invariants hold together.
LEMMA OnceHolds ==
  ASSUME MessagesOnce PROVE Spec => []Once
<1>1. Init => Once
  <2> SUFFICES ASSUME Init PROVE Exact
    BY InvInit DEF Once
  <2>1. \A r \in Runs : Working(r) = {}
    BY DEF Init, Working, Busy
  <2> QED BY <2>1 DEF Init, Exact, ExactRun
<1>2. Once /\ [Next]_vars => Once'
  <2> SUFFICES ASSUME Once, [Next]_vars PROVE Exact'
    BY InvStep DEF Once
  <2>1. TypeOK /\ RequestInv /\ ExecutorInv /\ TxnInv /\ Exact
    BY DEF Once, IInv
  <2>2. CASE UNCHANGED vars
    BY <2>1, <2>2 DEF vars, db, exec, Exact, ExactRun, Working
  <2> QED BY <2>1, <2>2, ExactRequest, ExactWorker, ExactExecutor, MessagesOnce DEF Next
<1> QED BY <1>1, <1>2, PTL DEF Spec

\* When no message is doubled, a COMPLETED run carries no error of an earlier
\* verdict, although update_status never clears it (repositories.py).
THEOREM CompletedClean ==
  ASSUME MessagesOnce PROVE Spec => []CompletedWithoutError
<1>1. Once => CompletedWithoutError
  BY DEF Once, Exact, ExactRun, CompletedWithoutError
<1> QED BY <1>1, OnceHolds, PTL

\* When no message is doubled, an execution implements the lifecycle the
\* documentation draws: a run is settled once, and its recommendations appear
\* in the step that settles it, at most one for each symbol (MILESTONES.md).
THEOREM KeepsLifecycle ==
  ASSUME MessagesOnce PROVE Spec => LifecycleSpec
<1>1. Init => Lifecycle!Init
  BY DEF Init, Lifecycle!Init
<1>2. Once /\ [Next]_vars => [Lifecycle!Next]_(Lifecycle!vars)
  <2> SUFFICES ASSUME Once, [Next]_vars PROVE Lifecycle!Next \/ UNCHANGED <<status, recs>>
    BY DEF Lifecycle!vars
  <2>1. TypeOK /\ RequestInv /\ ExecutorInv /\ TxnInv /\ Exact
    BY DEF Once, IInv
  <2>2. CASE UNCHANGED vars
    BY <2>2 DEF vars, db
  <2>3. ASSUME NEW r \in Runs, SubmitAsync(r) \/ SubmitSync(r) PROVE Lifecycle!Next
    <3>1. status[r] = "ABSENT" /\ recs' = recs
      BY <2>1, <2>3 DEF SubmitAsync, SubmitSync, RequestInv
    <3>2. Lifecycle!Submit(r)
      BY <2>3, <3>1 DEF SubmitAsync, SubmitSync, UpdateStatus, Lifecycle!Submit, Lifecycle!Move
    <3> QED BY <3>2 DEF Lifecycle!Next
  <2>4. ASSUME NEW r \in Runs, Request(r) \/ ApiCrash(r)
        PROVE  Lifecycle!Next \/ UNCHANGED <<status, recs>>
    <3>1. CASE RejectRun(r)
      <4>1. status[r] = "QUEUED"
        BY <2>1, <3>1 DEF RejectRun, Exact, ExactRun
      <4>2. Lifecycle!Reject(r)
        BY <3>1, <4>1 DEF RejectRun, UpdateStatus, Lifecycle!Reject, Lifecycle!Move
      <4> QED BY <4>2 DEF Lifecycle!Next
    <3>2. CASE ~RejectRun(r)
      BY <2>4, <3>2 DEF Request, Enqueue, EnqueueFails, ApiCrash, db
    <3> QED BY <3>1, <3>2
  <2>5. ASSUME NEW w \in Workers, (\E r \in Runs : Deliver(w, r)) \/ WorkerStep(w) \/ WorkerFault(w)
        PROVE  Lifecycle!Next \/ UNCHANGED <<status, recs>>
    <3>1. CASE Start(w)
      <4>1. job[w] \in Runs /\ w \in Working(job[w]) /\ pc[w] = "received"
        BY <2>1, <3>1 DEF Start, ExecutorInv, Working, Busy, Executors
      <4>2. status[job[w]] = "QUEUED"
        BY <2>1, <4>1 DEF Exact, ExactRun
      <4>3. PICK r \in Runs : r = job[w]
        BY <4>1
      <4>4. Lifecycle!Start(r)
        BY <3>1, <4>2, <4>3 DEF Start, UpdateStatus, Lifecycle!Start, Lifecycle!Move
      <4> QED BY <4>4 DEF Lifecycle!Next
    <3>2. CASE ~Start(w)
      BY <2>5, <3>2 DEF Deliver, WorkerStep, WorkerFault, Ack, Redeliver, WorkerRestart, ChildLost, db
    <3> QED BY <3>1, <3>2
  <2>6. ASSUME NEW e \in Executors, Progress(e) \/ GraphFault(e)
        PROVE  Lifecycle!Next \/ UNCHANGED <<status, recs>>
    <3>1. CASE Commit(e)
      <4>1. PICK r \in Runs : r = job[e] /\ e \in Working(r)
        BY <2>1, <3>1 DEF Commit, Finished, ExecutorInv, Working, Busy
      <4>2. pc[e] # "received" /\ txn[e].mode # "poisoned"
        BY <3>1 DEF Commit, Finished
      <4>3. status[r] = "RUNNING" /\ \A s \in Symbols : recs[r][s] = 0
        BY <2>1, <4>1, <4>2 DEF Exact, ExactRun, Terminal
      <4>4. Verdict(e) \in {"COMPLETED", "FAILED"} /\ status' = [status EXCEPT ![r] = Verdict(e)]
        BY <3>1, <4>1 DEF Commit, UpdateStatus, Verdict
      <4>5. txn[e].recs \in SUBSET Symbols
        BY <2>1 DEF TypeOK, Txns
      <4>6. recs' = [recs EXCEPT ![r] = [s \in Symbols |-> IF s \in txn[e].recs THEN 1 ELSE 0]]
        <5>1. [s \in Symbols |-> IF s \in txn[e].recs THEN recs[r][s] + 1 ELSE recs[r][s]]
                = [s \in Symbols |-> IF s \in txn[e].recs THEN 1 ELSE 0]
          BY <4>3
        <5>2. recs' = [recs EXCEPT ![r] =
                         [s \in Symbols |-> IF s \in txn[e].recs THEN recs[r][s] + 1 ELSE recs[r][s]]]
          BY <2>1, <3>1, <4>1 DEF Commit, TypeOK
        <5> QED BY <5>1, <5>2
      <4>7. Lifecycle!Settle(r)
        BY <4>3, <4>4, <4>5, <4>6 DEF Lifecycle!Settle, Lifecycle!Move
      <4> QED BY <4>7 DEF Lifecycle!Next
    <3>2. CASE Raise(e)
      BY <3>2 DEF Raise, db
    <3>3. CASE ~Commit(e) /\ ~Raise(e)
      BY <2>1, <2>6, <3>3, InsideStep DEF Inside
    <3> QED BY <3>1, <3>2, <3>3
  <2> QED BY <2>2, <2>3, <2>4, <2>5, <2>6 DEF Next
<1> QED BY <1>1, <1>2, OnceHolds, PTL DEF Spec, LifecycleSpec, Lifecycle!Spec

-----------------------------------------------------------------------------
(* Why no run is stranded when only survivable faults happen *)

\* What may go wrong with a run and still leave it in somebody's hands: an
\* unavailable queue, a message published although sending failed, restarted
\* workers, failing nodes and set-up.  No message comes back while it is worked
\* on, no process dies with what it holds, and no statement fails.
Survivable ==
  /\ \A k \in {"redelivery", "apicrash", "lostchild", "dberror", "write"} : Budget[k] = 0
  /\ ~SharedWrites

\* Executors that hold the message or the request of run r, settled or not.
Held(r) == {e \in Executors : job[e] = r /\ pc[e] # "idle"}

\* Somebody will still move run r on.
Served(r) == queue[r] > 0 \/ Working(r) # {} \/ api[r] \in {"enqueue", "reject"}

\* A run is in one pair of hands at a time, and in some until it is settled.
HandsRun(r) ==
  /\ api[r] \in {"idle", "enqueue"} => queue[r] = 0 /\ Held(r) = {}
  /\ queue[r] > 0 => queue[r] = 1 /\ Held(r) = {}
  /\ \A e, x \in Held(r) : x = e
  /\ status[r] \in {"QUEUED", "RUNNING"} => Served(r)

\* No transaction is lost to a failed statement.
Sound(e) == txn[e].mode # "poisoned" /\ pc[e] # "fetch"

Hands == /\ \A r \in Runs : HandsRun(r)
         /\ \A e \in Executors : Sound(e)
         /\ \A w \in Workers : ~restored[w]

\* Nothing of run r changes but who is elsewhere.
LEMMA HandsStay ==
  ASSUME NEW r \in Runs, HandsRun(r), status'[r] = status[r], queue'[r] = queue[r],
         api'[r] = api[r], Held(r)' \subseteq Held(r), Working(r) \subseteq Working(r)'
  PROVE  HandsRun(r)'
BY DEF HandsRun, Served

\* Poisoning takes a fault that is not survivable, or two executors of a run.
LEMMA NoPoison ==
  ASSUME Survivable, TypeOK, ExecutorInv, Hands, NEW e \in Executors
  PROVE  /\ ~WriteFails(e) /\ ~DbError(e) /\ ~DeadlockVictim(e)
         /\ ~WriteSharedData(e) /\ ~Raise(e)
<1>1. ~WriteFails(e) /\ ~DbError(e)
  BY DEF WriteFails, DbError, Spend, Survivable, TypeOK, FaultKinds
<1>2. ~WriteSharedData(e) /\ ~Raise(e)
  BY DEF WriteSharedData, Raise, Hands, Sound
<1>3. ASSUME DeadlockVictim(e) PROVE FALSE
  <2>1. PICK o \in Executors : Blocks(o, e)
    BY <1>3 DEF DeadlockVictim, OnWaitCycle
  <2>2. /\ o # e /\ pc[e] = "enter" /\ job[o] = job[e] /\ txn[o].tick[cur[e]] # "none"
    BY <2>1 DEF Blocks, Hands, Sound
  <2>3. job[e] \in Runs /\ cur[e] \in Symbols
    BY <2>2 DEF ExecutorInv
  <2>4. pc[o] # "idle"
    BY <2>2, <2>3, EmptyTxn DEF ExecutorInv, Clean
  <2>5. PICK r \in Runs : r = job[e]
    BY <2>3
  <2>6. o \in Held(r) /\ e \in Held(r)
    BY <2>2, <2>4, <2>5 DEF Held
  <2> QED BY <2>2, <2>6 DEF Hands, HandsRun
<1> QED BY <1>1, <1>2, <1>3

\* The request of a run.
LEMMA HandsRequest ==
  ASSUME Survivable, TypeOK, TypeOK', RequestInv, ExecutorInv, Hands, NEW r \in Runs,
         SubmitAsync(r) \/ SubmitSync(r) \/ Request(r) \/ ApiCrash(r)
  PROVE  Hands'
<1>0. r \in Executors
  BY DEF Executors
<1>1. ~ApiCrash(r)
  BY DEF ApiCrash, Spend, Survivable, TypeOK, FaultKinds
<1>2. txn' = txn /\ restored' = restored /\ (\A e \in Executors : pc'[e] \in {pc[e], "next"})
  BY <1>1 DEF SubmitAsync, SubmitSync, Request, Enqueue, EnqueueFails, RejectRun, exec, TypeOK
<1>3. (\A e \in Executors : Sound(e)') /\ (\A w \in Workers : ~restored'[w])
  BY <1>2 DEF Hands, Sound
<1>4. ASSUME NEW x \in Runs, x # r PROVE HandsRun(x)'
  <2>1. status'[x] = status[x] /\ queue'[x] = queue[x] /\ api'[x] = api[x]
    BY <1>1, <1>4 DEF SubmitAsync, SubmitSync, Request, Enqueue, EnqueueFails, RejectRun,
                      UpdateStatus, db, TypeOK
  <2>2. CASE SubmitSync(r)
    <3>1. pc[r] = "idle"
      BY <2>2 DEF SubmitSync, ExecutorInv, Hands, HandsRun, Held, Executors
    <3>2. Held(x)' \subseteq Held(x) /\ Working(x) \subseteq Working(x)'
      BY <1>0, <1>4, <2>2, <3>1 DEF SubmitSync, Held, Working, Busy, TypeOK
    <3> QED BY <2>1, <3>2, HandsStay DEF Hands
  <2>3. CASE ~SubmitSync(r)
    <3>1. job' = job /\ pc' = pc
      BY <1>1, <2>3 DEF SubmitAsync, Request, Enqueue, EnqueueFails, RejectRun, exec
    <3>2. Held(x)' = Held(x) /\ Working(x)' = Working(x)
      BY <3>1 DEF Held, Working
    <3> QED BY <2>1, <3>2, HandsStay DEF Hands
  <2> QED BY <2>2, <2>3
<1>5. HandsRun(r)'
  <2>0. HandsRun(r)
    BY DEF Hands
  <2>1. CASE SubmitAsync(r)
    <3>1. Held(r)' = Held(r) /\ queue' = queue /\ api[r] = "idle" /\ api'[r] = "enqueue"
      BY <2>1 DEF SubmitAsync, exec, Held, TypeOK
    <3> QED BY <2>0, <3>1 DEF HandsRun, Served
  <2>2. CASE SubmitSync(r)
    <3>1. Held(r) = {} /\ queue' = queue /\ queue[r] = 0
      BY <2>0, <2>2 DEF SubmitSync, HandsRun
    <3>2. Held(r)' \subseteq {r} /\ r \in Working(r)' /\ api'[r] = "running"
      BY <1>0, <2>2, <3>1 DEF SubmitSync, Held, Working, Busy, TypeOK
    <3> QED BY <3>1, <3>2 DEF HandsRun, Served
  <2>3. CASE Enqueue(r) \/ EnqueueFails(r)
    <3>1. /\ api[r] = "enqueue" /\ Held(r)' = Held(r) /\ status' = status
          /\ queue'[r] \in {queue[r], queue[r] + 1}
          /\ (api'[r] = "done" /\ queue'[r] = queue[r] + 1) \/ api'[r] = "reject"
      BY <2>3 DEF Enqueue, EnqueueFails, exec, db, Held, TypeOK
    <3>2. Held(r)' = {} /\ queue'[r] \in {0, 1}
      BY <2>0, <3>1 DEF HandsRun
    <3>3. api'[r] = "done" => queue'[r] = 1
      BY <2>0, <3>1 DEF HandsRun
    <3> QED BY <3>1, <3>2, <3>3 DEF HandsRun, Served
  <2>4. CASE RejectRun(r)
    <3>1. /\ Held(r)' = Held(r) /\ queue' = queue /\ api'[r] = "done" /\ status'[r] = "FAILED"
      BY <2>4 DEF RejectRun, UpdateStatus, exec, Held, TypeOK
    <3> QED BY <2>0, <3>1 DEF HandsRun
  <2> QED BY <1>1, <2>1, <2>2, <2>3, <2>4 DEF Request
<1> QED BY <1>3, <1>4, <1>5 DEF Hands

\* The broker and a worker: a restarted worker gives its message back.
LEMMA HandsWorker ==
  ASSUME Survivable, TypeOK, ExecutorInv, Hands, NEW w \in Workers,
         (\E r \in Runs : Deliver(w, r)) \/ WorkerStep(w) \/ WorkerFault(w)
  PROVE  Hands'
<1>0. w \in Executors /\ ~restored[w]
  BY DEF Executors, Hands
<1>1. ~Redeliver(w) /\ ~ChildLost(w)
  BY DEF Redeliver, ChildLost, Spend, Survivable, TypeOK, FaultKinds
<1>2. ASSUME NEW r \in Runs, Deliver(w, r) PROVE Hands'
  <2>1. /\ pc[w] = "idle" /\ pc' = [pc EXCEPT ![w] = "received"]
        /\ job' = [job EXCEPT ![w] = r] /\ restored' = [restored EXCEPT ![w] = FALSE]
        /\ UNCHANGED <<status, api, txn>>
        /\ queue[r] > 0 /\ queue' = [queue EXCEPT ![r] = @ - 1]
    BY <1>2 DEF Deliver, db
  <2>2. (\A e \in Executors : Sound(e)') /\ (\A x \in Workers : ~restored'[x])
    BY <1>0, <2>1 DEF Hands, Sound, TypeOK
  <2>3. ASSUME NEW x \in Runs, x # r PROVE HandsRun(x)'
    <3>1. Held(x)' \subseteq Held(x) /\ Working(x) \subseteq Working(x)'
      BY <1>0, <2>1, <2>3 DEF Held, Working, Busy, TypeOK
    <3> QED BY <2>1, <2>3, <3>1, HandsStay DEF Hands, TypeOK
  <2>4. HandsRun(r)'
    <3>1. /\ Held(r) = {} /\ queue[r] = 1 /\ api[r] \notin {"idle", "enqueue"}
      BY <2>1 DEF Hands, HandsRun
    <3>2. Held(r)' \subseteq {w} /\ w \in Working(r)' /\ queue'[r] = 0
      BY <1>0, <2>1, <3>1 DEF Held, Working, Busy, TypeOK
    <3> QED BY <2>1, <3>1, <3>2 DEF HandsRun, Served
  <2> QED BY <2>2, <2>3, <2>4 DEF Hands
<1>3. CASE Start(w)
  <2>1. /\ pc[w] = "received" /\ pc' = [pc EXCEPT ![w] = "next"] /\ job[w] \in Runs
        /\ UNCHANGED <<api, queue, job, txn, restored>>
        /\ status' = [status EXCEPT ![job[w]] = "RUNNING"]
    BY <1>0, <1>3 DEF Start, UpdateStatus, Goto, ExecutorInv
  <2>2. (\A e \in Executors : Sound(e)') /\ (\A x \in Workers : ~restored'[x])
    BY <1>0, <2>1 DEF Hands, Sound, TypeOK
  <2>3. \A x \in Runs : Held(x)' = Held(x) /\ Working(x)' = Working(x)
    BY <1>0, <2>1 DEF Held, Working, Busy, TypeOK
  <2>4. w \in Working(job[w])
    BY <1>0, <2>1 DEF Working, Busy
  <2>5. ASSUME NEW x \in Runs PROVE HandsRun(x)'
    <3>1. status'[x] = status[x] \/ Served(x)'
      BY <2>1, <2>3, <2>4 DEF Served, TypeOK
    <3> QED BY <2>1, <2>3, <3>1 DEF Hands, HandsRun, Served
  <2> QED BY <2>2, <2>5 DEF Hands
<1>4. CASE Ack(w)
  <2>1. pc[w] = "acking" /\ Rollback(w) /\ UNCHANGED <<status, api, queue, restored>>
    BY <1>4 DEF Ack, db
  <2>2. (\A e \in Executors : Sound(e)') /\ (\A x \in Workers : ~restored'[x])
    BY <1>0, <2>1, EmptyTxn DEF Hands, Sound, Rollback, Clean, TypeOK
  <2>3. ASSUME NEW x \in Runs PROVE HandsRun(x)'
    <3>1. Held(x)' \subseteq Held(x) /\ Working(x) \subseteq Working(x)'
      BY <1>0, <2>1 DEF Rollback, Held, Working, Busy, TypeOK
    <3> QED BY <2>1, <3>1, HandsStay DEF Hands
  <2> QED BY <2>2, <2>3 DEF Hands
<1>5. CASE WorkerRestart(w)
  <2>1. /\ pc[w] # "idle" /\ Rollback(w) /\ UNCHANGED <<status, api, restored>>
        /\ queue' = [queue EXCEPT ![job[w]] = @ + 1] /\ job[w] \in Runs
    BY <1>0, <1>5 DEF WorkerRestart, db, ExecutorInv
  <2>2. (\A e \in Executors : Sound(e)') /\ (\A x \in Workers : ~restored'[x])
    BY <1>0, <2>1, EmptyTxn DEF Hands, Sound, Rollback, Clean, TypeOK
  <2>3. ASSUME NEW x \in Runs, x # job[w] PROVE HandsRun(x)'
    <3>1. Held(x)' \subseteq Held(x) /\ Working(x) \subseteq Working(x)'
      BY <1>0, <2>1, <2>3 DEF Rollback, Held, Working, Busy, TypeOK
    <3>2. queue'[x] = queue[x]
      BY <2>1, <2>3 DEF TypeOK
    <3> QED BY <2>1, <3>1, <3>2, HandsStay DEF Hands
  <2>4. ASSUME NEW r \in Runs, r = job[w] PROVE HandsRun(r)'
    <3>1. w \in Held(r) /\ HandsRun(r)
      BY <1>0, <2>1, <2>4 DEF Held, Hands
    <3>2. queue[r] = 0 /\ api[r] \notin {"idle", "enqueue"} /\ Held(r) \subseteq {w}
      BY <3>1 DEF HandsRun, TypeOK
    <3>3. Held(r)' = {} /\ queue'[r] = 1 /\ api'[r] = api[r]
      BY <1>0, <2>1, <2>4, <3>2 DEF Rollback, Held, TypeOK
    <3> QED BY <3>2, <3>3 DEF HandsRun, Served
  <2> QED BY <2>2, <2>3, <2>4 DEF Hands
<1> QED BY <1>1, <1>2, <1>3, <1>4, <1>5 DEF WorkerStep, WorkerFault

\* An execution settles its run in the step in which it leaves it.
LEMMA HandsExecutor ==
  ASSUME Survivable, TypeOK, TypeOK', ExecutorInv, TxnInv, Hands, NEW e \in Executors,
         Progress(e) \/ GraphFault(e)
  PROVE  Hands'
<1>0. ~WriteFails(e) /\ ~DbError(e) /\ ~DeadlockVictim(e) /\ ~WriteSharedData(e) /\ ~Raise(e)
  BY NoPoison
<1>1. restored' = restored
  BY <1>0 DEF Progress, GraphFault, NextTicker, EnterTicker, Recommend, Commit, NeutralFails,
              PersistRaises, NodeRaises, SetupFails, LeaveTicker
<1>2. CASE ~Commit(e)
  <2>1. Inside(e)
    BY <1>0, <1>2, InsideStep
  <2>2. Sound(e)'
    <3>1. txn'[e].mode # "poisoned"
      <4>1. txn[e].mode # "poisoned" /\ txn[e] \in Txns
        BY DEF Hands, Sound, TypeOK
      <4>2. CASE NextTicker(e)
        BY <4>1, <4>2 DEF NextTicker
      <4>3. CASE EnterTicker(e)
        <5>1. cur[e] \in Symbols
          BY <4>3 DEF EnterTicker, ExecutorInv
        <5>2. Flushed(txn[e], cur[e], "RUNNING", {}).mode = txn[e].mode
          BY <4>1, <5>1, FlushedTxn DEF TickStates
        <5> QED BY <4>1, <4>3, <5>2 DEF EnterTicker, TypeOK
      <4>4. ASSUME NEW v \in {"COMPLETED", "FAILED"}, NEW b \in BOOLEAN, LeaveTicker(e, v, b)
            PROVE  txn'[e].mode # "poisoned"
        <5>1. cur[e] \in Symbols
          BY <4>4 DEF LeaveTicker, ExecutorInv
        <5>2. PICK S \in SUBSET Symbols : S = IF b THEN {cur[e]} ELSE {}
          BY <5>1
        <5>3. Flushed(txn[e], cur[e], v, S).mode = txn[e].mode
          BY <4>1, <5>1, FlushedTxn DEF TickStates
        <5> QED BY <4>1, <4>4, <5>2, <5>3 DEF LeaveTicker, TypeOK
      <4>5. CASE Recommend(e) \/ NeutralFails(e) \/ PersistRaises(e)
        BY <4>4, <4>5 DEF Recommend, NeutralFails, PersistRaises
      <4>6. CASE NodeRaises(e)
        <5>1. cur[e] \in Symbols
          BY <4>6 DEF NodeRaises, ExecutorInv
        <5> QED BY <4>1, <4>6, <5>1, FailedTxn DEF NodeRaises, TypeOK
      <4>7. CASE SetupFails(e)
        BY <4>7, EmptyTxn DEF SetupFails, TypeOK
      <4> QED BY <1>0, <1>2, <4>2, <4>3, <4>5, <4>6, <4>7 DEF Progress, GraphFault
    <3>2. pc'[e] # "fetch"
      BY <1>0, <1>2 DEF Progress, GraphFault, NextTicker, EnterTicker, Recommend, NeutralFails,
         PersistRaises, NodeRaises, SetupFails, LeaveTicker, Goto, Survivable, TypeOK, Hands, Sound
    <3> QED BY <3>1, <3>2 DEF Sound
  <2>3. \A x \in Executors : Sound(x)'
    BY <2>1, <2>2 DEF Inside, Hands, Sound
  <2>4. \A r \in Runs : Held(r)' = Held(r) /\ Working(r)' = Working(r)
    BY <2>1 DEF Inside, Held, Working, Busy
  <2>5. \A r \in Runs : HandsRun(r)'
    BY <2>1, <2>4, HandsStay DEF Inside, Hands
  <2> QED BY <1>1, <2>3, <2>5 DEF Hands
<1>3. CASE Commit(e)
  <2>1. /\ Leave(e) /\ queue' = queue /\ pc[e] = "next" /\ job[e] \in Runs
        /\ api[job[e]] \notin {"idle", "enqueue"}
        /\ status' = [status EXCEPT ![job[e]] = Verdict(e)]
    <3>1. pc[e] = "next" /\ job[e] \in Runs
      BY <1>3 DEF Commit, Finished, ExecutorInv
    <3>2. e \in Held(job[e])
      BY <3>1 DEF Held
    <3> QED BY <1>3, <3>1, <3>2 DEF Commit, UpdateStatus, Hands, HandsRun
  <2>2. /\ \A x \in Executors : x # e => pc'[x] = pc[x] /\ job'[x] = job[x] /\ txn'[x] = txn[x]
        /\ pc'[e] \in {"acking", "idle"} /\ txn'[e].mode = "open"
        /\ pc'[e] = "acking" => job'[e] = job[e]
    BY <2>1, EmptyTxn DEF Leave, Goto, Clean, TypeOK
  <2>3. \A x \in Executors : Sound(x)'
    BY <2>2 DEF Sound, Hands
  <2>4. ASSUME NEW x \in Runs, x # job[e] PROVE HandsRun(x)'
    <3>1. Held(x)' \subseteq Held(x) /\ Working(x) \subseteq Working(x)'
      BY <2>1, <2>2, <2>4 DEF Held, Working
    <3>2. status'[x] = status[x]
      BY <2>1, <2>4 DEF TypeOK
    <3>3. api'[x] = api[x]
      BY <2>1, <2>4 DEF Leave, ExecutorInv, TypeOK, Executors
    <3> QED BY <2>1, <3>1, <3>2, <3>3, HandsStay DEF Hands
  <2>5. ASSUME NEW r \in Runs, r = job[e] PROVE HandsRun(r)'
    <3>1. e \in Held(r) /\ HandsRun(r)
      BY <2>1, <2>5 DEF Held, Hands
    <3>2. Held(r)' \subseteq Held(r)
      BY <2>1, <2>2, <2>5 DEF Held
    <3>3. status'[r] \in Terminal
      BY <2>1, <2>5 DEF Verdict, Terminal, TypeOK
    <3>4. api'[r] \notin {"idle", "enqueue"}
      BY <2>1, <2>5 DEF Leave, TypeOK
    <3>5. ~(queue'[r] > 0)
      BY <2>1, <3>1 DEF HandsRun
    <3> QED BY <3>1, <3>2, <3>3, <3>4, <3>5 DEF HandsRun, Terminal
  <2> QED BY <1>1, <2>3, <2>4, <2>5 DEF Hands
<1> QED BY <1>2, <1>3

\* When only survivable faults happen, a run that is not settled is always in
\* somebody's hands: the request that will enqueue or reject it, a message or an
\* executor (research_runs.py, research.py).
THEOREM NoRunStranded ==
  ASSUME Survivable PROVE Spec => []NoStrandedRun
<1>1. Init => Hands
  <2> SUFFICES ASSUME Init PROVE Hands
    OBVIOUS
  <2>1. \A r \in Runs : Held(r) = {}
    BY DEF Init, Held
  <2>2. \A e \in Executors : Sound(e)
    BY EmptyTxn DEF Init, Sound, Clean
  <2>3. \A r \in Runs : HandsRun(r)
    BY <2>1 DEF Init, HandsRun
  <2> QED BY <2>2, <2>3 DEF Init, Hands
<1>2. IInv /\ IInv' /\ Hands /\ [Next]_vars => Hands'
  <2> SUFFICES ASSUME IInv, IInv', Hands, [Next]_vars PROVE Hands'
    OBVIOUS
  <2>1. TypeOK /\ TypeOK' /\ RequestInv /\ ExecutorInv /\ TxnInv
    BY DEF IInv
  <2>2. CASE UNCHANGED vars
    BY <2>2 DEF vars, db, exec, Hands, HandsRun, Served, Sound, Held, Working
  <2> QED BY <2>1, <2>2, Survivable, HandsRequest, HandsWorker, HandsExecutor DEF Next
<1>3. IInv /\ Hands => NoStrandedRun
  BY DEF IInv, TypeOK, Hands, HandsRun, Served, Working, Busy, NoStrandedRun, Attended
<1> QED BY <1>1, <1>2, <1>3, Inductive, PTL DEF Spec
=============================================================================
