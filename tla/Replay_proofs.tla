---------------------------- MODULE Replay_proofs ----------------------------
(* Proofs about ReplayBatch, ReplayReport and their composition, for every   *)
(* number of dates, symbols and messages handed over twice, every calendar   *)
(* and all scores.                                                          *)
EXTENDS Replay, SetLemmas, TLAPS, FiniteSetTheorems

-----------------------------------------------------------------------------
(* PART 1. The batch: what an evaluation may have read. *)

\* what an evaluation may have read: nothing yet, or the recommendations of some runs
PointSets == {<<>>} \cup UNION {[R -> [Symbols -> Nat]] : R \in SUBSET Runs}

EvalTyped == eval \in [at : {"idle", "points", "backtest", "done"}, pinned : SUBSET Runs,
                       completed : Nat, points : PointSets, rows : PointSets]

-----------------------------------------------------------------------------
(* The inductive invariant *)

\* A batch has no status before it is committed, and all runs have one after.
Born == /\ api = "idle" => sent = 0 /\ strayed = {} /\ \A r \in Runs : status[r] = "ABSENT"
        /\ api # "idle" => \A r \in Runs : status[r] # "ABSENT"

\* A run that was executed once at most has no recommendations before its verdict.
Fresh == \A r \in Runs \ strayed :
  status[r] \in {"ABSENT", "QUEUED", "RUNNING"} => recs[r] = NoRecs

\* What was not sent has no message, but where a send that failed published
\* it, and then nothing else is sent.
Unsent == \A r \in Runs : r > sent =>
  /\ r \notin strayed => queue[r] = 0 /\ held[r] = 0 /\ status[r] \in {"ABSENT", "QUEUED", "FAILED"}
  /\ api = "sending" => r \notin strayed
  /\ api \in {"sending", "marking"} /\ r \notin strayed => status[r] = "QUEUED"

\* A message that was handed over once is waiting, being executed or done with.
Sent == \A r \in Runs : r <= sent /\ r \notin strayed =>
  \/ queue[r] = 1 /\ held[r] = 0 /\ status[r] = "QUEUED"
  \/ queue[r] = 0 /\ held[r] = 1 /\ status[r] = "RUNNING"
  \/ queue[r] = 0 /\ held[r] = 0 /\ status[r] \in {"COMPLETED", "FAILED"}

\* An evaluation is of completed runs, and until its backtest is done what it
\* read of those that did not stray is still there.
Pinned ==
  /\ eval.at \in {"points", "backtest"} =>
       \A r \in eval.pinned \ strayed : status[r] = "COMPLETED"
  /\ eval.at = "backtest" =>
       \E f \in [eval.pinned -> [Symbols -> Nat]] :
         eval.points = f /\ \A r \in eval.pinned \ strayed : f[r] = recs[r]

IInv == TypeOK /\ EvalTyped /\ Born /\ Fresh /\ Unsent /\ Sent /\ Pinned /\ EvaluationConsistent

-----------------------------------------------------------------------------
\* what TypeOK says of each variable
LEMMA Types ==
  ASSUME TypeOK
  PROVE  /\ status \in [Runs -> {"ABSENT", "QUEUED", "RUNNING", "COMPLETED", "FAILED"}]
         /\ recs \in [Runs -> [Symbols -> Nat]]
         /\ api \in {"idle", "sending", "marking", "done", "rejected", "dead"}
         /\ sent \in 0..N /\ N \in Nat
         /\ queue \in [Runs -> Nat] /\ held \in [Runs -> Nat] /\ strayed \subseteq Runs
BY ConstantsTyped DEF TypeOK

\* the fields of an evaluation
LEMMA EvalTypes ==
  ASSUME EvalTyped
  PROVE  /\ eval.at \in {"idle", "points", "backtest", "done"} /\ eval.pinned \subseteq Runs
         /\ eval.completed \in Nat /\ eval.points \in PointSets /\ eval.rows \in PointSets
BY DEF EvalTyped

\* what is read of some runs
LEMMA VisibleTyped ==
  ASSUME TypeOK, NEW R \in SUBSET Runs
  PROVE  Visible(R) \in [R -> [Symbols -> Nat]] /\ Visible(R) \in PointSets
BY Types DEF Visible, PointSets
-----------------------------------------------------------------------------
(* The request and the workers leave an evaluation alone. *)

\* A completed run that did not stray has no message left.
LEMMA CompletedDone ==
  ASSUME TypeOK, Unsent, Sent, NEW r \in Runs, r \notin strayed, status[r] = "COMPLETED"
  PROVE  r <= sent /\ queue[r] = 0 /\ held[r] = 0
<1>1. r \in Nat /\ sent \in Nat
  BY Types DEF Runs
<1>2. r <= sent
  BY <1>1 DEF Unsent
<1> QED BY <1>2 DEF Sent

\* If completed runs that did not stray stay as they are, so does an evaluation.
LEMMA EvalStays ==
  ASSUME TypeOK, EvalTyped, Pinned, EvaluationConsistent, UNCHANGED eval, strayed \subseteq strayed',
         \A r \in Runs : r \notin strayed' /\ status[r] = "COMPLETED"
                            => status'[r] = "COMPLETED" /\ recs'[r] = recs[r]
  PROVE  EvalTyped' /\ Pinned' /\ EvaluationConsistent'
<1>1. EvalTyped' /\ EvaluationConsistent'
  BY DEF EvalTyped, EvaluationConsistent, PointSets
<1>2. \A r \in eval.pinned : r \in Runs
  BY EvalTypes
<1>3. Pinned'
  <2>1. ASSUME eval.at \in {"points", "backtest"}, NEW r \in eval.pinned \ strayed'
        PROVE  status'[r] = "COMPLETED" /\ recs'[r] = recs[r]
    BY <1>2, <2>1 DEF Pinned
  <2>2. ASSUME eval.at = "backtest"
        PROVE  \E f \in [eval.pinned -> [Symbols -> Nat]] :
                 eval.points = f /\ \A r \in eval.pinned \ strayed' : f[r] = recs'[r]
    <3>1. PICK f \in [eval.pinned -> [Symbols -> Nat]] :
             eval.points = f /\ \A r \in eval.pinned \ strayed : f[r] = recs[r]
      BY <2>2 DEF Pinned
    <3> QED BY <2>1, <2>2, <3>1
  <2> QED BY <2>1, <2>2 DEF Pinned
<1> QED BY <1>1, <1>3

\* Create keeps the invariant.
LEMMA CreateKeeps ==
  ASSUME IInv, Create
  PROVE  IInv'
<1>1. TypeOK' /\ Born' /\ Fresh' /\ Unsent' /\ Sent'
  BY Types DEF IInv, Create, TypeOK, Born, Fresh, Unsent, Sent
<1>2. EvalTyped' /\ Pinned' /\ EvaluationConsistent'
  BY Types, EvalStays DEF IInv, Create, Born
<1> QED BY <1>1, <1>2 DEF IInv

\* Send keeps the invariant.
LEMMA SendKeeps ==
  ASSUME IInv, Send
  PROVE  IInv'
<1>0. TypeOK /\ sent + 1 \in Runs
  BY Types DEF IInv, Send, Runs
<1>1. TypeOK'
  BY <1>0, Types DEF IInv, Send, TypeOK, batch
<1>2. Born' /\ Fresh' /\ Unsent' /\ Sent'
  <2>1. /\ sent \in Nat /\ sent' = sent + 1 /\ \A r \in Runs : r \in Nat
        /\ \A r \in Runs : queue'[r] = IF r = sent + 1 THEN 1 ELSE queue[r]
        /\ UNCHANGED <<status, held, strayed, api>>
    BY <1>0, Types DEF Send, batch, Runs
  <2>2. status[sent + 1] = "QUEUED" /\ held[sent + 1] = 0
    BY <1>0, <2>1 DEF IInv, Send, Born, Unsent
  <2>3. Born'
    BY <2>1 DEF IInv, Send, Born
  <2>6. Fresh'
    BY <2>1 DEF IInv, Send, Fresh, batch
  <2>4. Unsent'
    BY <2>1 DEF IInv, Send, Unsent
  <2>5. Sent'
    BY <1>0, <2>1, <2>2 DEF IInv, Sent
  <2> QED BY <2>3, <2>4, <2>5, <2>6
<1>3. EvalTyped' /\ Pinned' /\ EvaluationConsistent'
  BY EvalStays DEF IInv, Send, batch
<1> QED BY <1>1, <1>2, <1>3 DEF IInv

\* SendFails keeps the invariant.
LEMMA SendFailsKeeps ==
  ASSUME IInv, SendFails
  PROVE  IInv'
<1>0. TypeOK /\ sent + 1 \in Runs
  BY Types DEF IInv, SendFails, Runs
<1>1. PICK published \in {FALSE, Ambiguous} :
        /\ queue' = [queue EXCEPT ![sent + 1] = IF published THEN 1 ELSE 0]
        /\ strayed' = IF published THEN strayed \cup {sent + 1} ELSE strayed
  BY DEF SendFails
<1>2. TypeOK'
  BY <1>0, <1>1, Types DEF IInv, SendFails, TypeOK, batch
<1>3. Born' /\ Fresh' /\ Unsent' /\ Sent'
  BY <1>0, <1>1, Types DEF IInv, SendFails, Born, Fresh, Unsent, Sent, batch, Runs
<1>4. EvalTyped' /\ Pinned' /\ EvaluationConsistent'
  BY <1>1, EvalStays DEF IInv, SendFails, batch
<1> QED BY <1>2, <1>3, <1>4 DEF IInv

\* MarkFailed keeps the invariant.
LEMMA MarkFailedKeeps ==
  ASSUME IInv, MarkFailed
  PROVE  IInv'
<1>1. TypeOK'
  BY Types DEF IInv, MarkFailed, TypeOK
<1>2. Born' /\ Fresh' /\ Unsent' /\ Sent'
  BY Types DEF IInv, MarkFailed, Born, Fresh, Unsent, Sent, Runs
<1>3. EvalTyped' /\ Pinned' /\ EvaluationConsistent'
  BY Types, CompletedDone, EvalStays DEF IInv, MarkFailed, Runs
<1> QED BY <1>1, <1>2, <1>3 DEF IInv

\* RequestEnds keeps the invariant.
LEMMA RequestEndsKeeps ==
  ASSUME IInv, Respond \/ Crash
  PROVE  IInv'
<1>1. TypeOK' /\ Born' /\ Fresh' /\ Unsent' /\ Sent'
  BY Types DEF IInv, Respond, Crash, TypeOK, Born, Fresh, Unsent, Sent, batch
<1>2. EvalTyped' /\ Pinned' /\ EvaluationConsistent'
  BY EvalStays DEF IInv, Respond, Crash, batch
<1> QED BY <1>1, <1>2 DEF IInv

\* Start keeps the invariant.
LEMMA StartKeeps ==
  ASSUME IInv, NEW r \in Runs, Start(r)
  PROVE  IInv'
<1>1. TypeOK'
  BY Types DEF IInv, Start, TypeOK
<1>2. Born' /\ Fresh' /\ Unsent' /\ Sent'
  BY Types DEF IInv, Start, Born, Fresh, Unsent, Sent, Runs
<1>3. EvalTyped' /\ Pinned' /\ EvaluationConsistent'
  BY Types, CompletedDone, EvalStays DEF IInv, Start
<1> QED BY <1>1, <1>2, <1>3 DEF IInv

\* Settle keeps the invariant.
LEMMA SettleKeeps ==
  ASSUME IInv, NEW r \in Runs, Settle(r)
  PROVE  IInv'
<1>1. PICK verdict \in {"COMPLETED", "FAILED"}, S \in SUBSET Symbols :
        /\ status' = [status EXCEPT ![r] = verdict]
        /\ recs' = [recs EXCEPT ![r] = [s \in Symbols |-> @[s] + IF s \in S THEN 1 ELSE 0]]
  BY DEF Settle
<1>2. [s \in Symbols |-> recs[r][s] + IF s \in S THEN 1 ELSE 0] \in [Symbols -> Nat]
  BY Types DEF IInv
<1>3. recs' \in [Runs -> [Symbols -> Nat]] /\ \A x \in Runs : x # r => recs'[x] = recs[x]
  BY <1>1, <1>2, Types DEF IInv
<1>4. TypeOK'
  BY <1>1, <1>3, Types DEF IInv, Settle, TypeOK
<1>5. Born' /\ Fresh' /\ Unsent' /\ Sent'
  BY <1>1, Types DEF IInv, Settle, Born, Fresh, Unsent, Sent, Runs
<1>6. EvalTyped' /\ Pinned' /\ EvaluationConsistent'
  BY <1>1, <1>3, Types, CompletedDone, EvalStays DEF IInv, Settle
<1> QED BY <1>4, <1>5, <1>6 DEF IInv

\* Redeliver keeps the invariant.
LEMMA RedeliverKeeps ==
  ASSUME IInv, NEW r \in Runs, Redeliver(r)
  PROVE  IInv'
<1>1. TypeOK'
  BY Types DEF IInv, Redeliver, TypeOK, batch
<1>2. Born' /\ Fresh' /\ Unsent' /\ Sent'
  BY Types DEF IInv, Redeliver, Born, Fresh, Unsent, Sent, batch, Runs
<1>3. EvalTyped' /\ Pinned' /\ EvaluationConsistent'
  BY EvalStays DEF IInv, Redeliver, batch
<1> QED BY <1>1, <1>2, <1>3 DEF IInv

-----------------------------------------------------------------------------
(* An evaluation leaves the batch alone. *)

\* A step of an evaluation leaves the batch as it is.
LEMMA BatchStays ==
  ASSUME TypeOK, Born, Fresh, Unsent, Sent, UNCHANGED <<batch, api, sent, queue, held, strayed>>,
         eval'.at \in {"idle", "points", "backtest", "done"}, eval'.pinned \subseteq Runs
  PROVE  TypeOK' /\ Born' /\ Fresh' /\ Unsent' /\ Sent'
BY DEF TypeOK, Born, Fresh, Unsent, Sent, batch

\* Evaluate keeps the invariant.
LEMMA EvaluateKeeps ==
  ASSUME IInv, Evaluate
  PROVE  IInv'
<1>1. Completed \in SUBSET Runs /\ Cardinality(Completed) \in Nat
  <2>1. 1 \in Int /\ N \in Int
    BY ConstantsTyped
  <2>2. IsFiniteSet(Runs)
    BY <2>1, FS_Interval DEF Runs
  <2>3. Completed \in SUBSET Runs
    BY DEF Completed
  <2> QED BY <2>2, <2>3, FS_Subset, FS_CardinalityType
<1>2. <<>> \in PointSets
  BY DEF PointSets
<1>3. eval' = [at |-> "points", pinned |-> Completed, completed |-> Cardinality(Completed),
               points |-> <<>>, rows |-> <<>>]
  BY DEF Evaluate, NoEval
<1>4. EvalTyped' /\ EvaluationConsistent' /\ Pinned'
  <2>1. PICK n \in Nat : n = Cardinality(Completed)
    BY <1>1
  <2>2. EvalTyped' /\ eval'.at = "points" /\ eval'.pinned = Completed
    BY <1>1, <1>2, <1>3, <2>1 DEF EvalTyped
  <2>3. EvaluationConsistent' /\ Pinned'
    BY <2>2 DEF Evaluate, EvaluationConsistent, Pinned, Completed, batch
  <2> QED BY <2>2, <2>3
<1>5. TypeOK' /\ Born' /\ Fresh' /\ Unsent' /\ Sent'
  BY <1>1, <1>3, BatchStays DEF IInv, Evaluate
<1> QED BY <1>4, <1>5 DEF IInv

\* ReadPoints keeps the invariant.
LEMMA ReadPointsKeeps ==
  ASSUME IInv, ReadPoints
  PROVE  IInv'
<1>0. EvalTyped /\ TypeOK /\ eval.pinned \in SUBSET Runs
  BY EvalTypes DEF IInv
<1>1. PICK f \in PointSets : f = Visible(eval.pinned) /\ f \in [eval.pinned -> [Symbols -> Nat]]
  BY <1>0, VisibleTyped
<1>2. \A r \in eval.pinned : f[r] = recs[r]
  BY <1>1 DEF Visible
<1>3. eval' = [eval EXCEPT !.at = "backtest", !.points = f]
  BY <1>1 DEF ReadPoints
<1>4. EvalTyped' /\ eval'.at = "backtest" /\ eval'.pinned = eval.pinned /\ eval'.points = f
  BY <1>0, <1>3 DEF EvalTyped
<1>5. \A r \in eval.pinned \ strayed : status[r] = "COMPLETED"
  BY DEF IInv, ReadPoints, Pinned
<1>6. EvaluationConsistent' /\ Pinned'
  BY <1>1, <1>2, <1>4, <1>5 DEF ReadPoints, EvaluationConsistent, Pinned, batch
<1>7. TypeOK' /\ Born' /\ Fresh' /\ Unsent' /\ Sent'
  BY <1>0, <1>4, BatchStays DEF IInv, ReadPoints
<1> QED BY <1>4, <1>6, <1>7 DEF IInv

\* Backtest keeps the invariant.
LEMMA BacktestKeeps ==
  ASSUME IInv, Backtest
  PROVE  IInv'
<1>0. EvalTyped /\ TypeOK /\ eval.pinned \in SUBSET Runs /\ eval.at = "backtest"
  BY EvalTypes DEF IInv, Backtest
<1>1. PICK g \in PointSets : g = Visible(eval.pinned) /\ g \in [eval.pinned -> [Symbols -> Nat]]
  BY <1>0, VisibleTyped
<1>2. \A r \in eval.pinned : g[r] = recs[r]
  BY <1>1 DEF Visible
<1>3. eval' = [eval EXCEPT !.at = "done", !.rows = g]
  BY <1>1 DEF Backtest
<1>4. /\ EvalTyped' /\ eval'.at = "done" /\ eval'.pinned = eval.pinned
      /\ eval'.points = eval.points /\ eval'.rows = g
  BY <1>0, <1>3 DEF EvalTyped
<1>5. PICK f \in [eval.pinned -> [Symbols -> Nat]] :
         eval.points = f /\ \A r \in eval.pinned \ strayed : f[r] = recs[r]
  BY <1>0 DEF IInv, Pinned
<1>6. ASSUME eval.pinned \cap strayed = {} PROVE g = f
  BY <1>1, <1>2, <1>5, <1>6
<1>7. EvaluationConsistent'
  BY <1>4, <1>5, <1>6 DEF Backtest, EvaluationConsistent
<1>8. Pinned'
  BY <1>4 DEF Pinned
<1>9. TypeOK' /\ Born' /\ Fresh' /\ Unsent' /\ Sent'
  BY <1>0, <1>4, BatchStays DEF IInv, Backtest
<1> QED BY <1>4, <1>7, <1>8, <1>9 DEF IInv

\* BacktestRejected keeps the invariant.
LEMMA BacktestRejectedKeeps ==
  ASSUME IInv, BacktestRejected
  PROVE  IInv'
<1>1. <<>> \in PointSets
  BY DEF PointSets
<1>2. EvalTyped' /\ eval'.at = "idle" /\ eval'.pinned = {}
  BY <1>1 DEF BacktestRejected, NoEval, EvalTyped
<1>3. EvaluationConsistent' /\ Pinned'
  BY <1>2 DEF EvaluationConsistent, Pinned
<1>4. TypeOK' /\ Born' /\ Fresh' /\ Unsent' /\ Sent'
  BY <1>2, BatchStays DEF IInv, BacktestRejected
<1> QED BY <1>2, <1>3, <1>4 DEF IInv

-----------------------------------------------------------------------------
(* The theorems *)

\* The invariant holds at first,
LEMMA InitIInv == Init => IInv
<1> SUFFICES ASSUME Init PROVE IInv
  OBVIOUS
<1>1. <<>> \in PointSets
  BY DEF PointSets
<1>2. EvalTyped /\ eval.at = "idle" /\ eval.pinned = {}
  BY <1>1 DEF Init, NoEval, EvalTyped
<1>3. TypeOK
  BY <1>2, ConstantsTyped DEF Init, NoRecs, TypeOK
<1>4. Born /\ Fresh /\ Unsent /\ Sent /\ Pinned /\ EvaluationConsistent
  BY <1>2, ConstantsTyped DEF Init, Born, Fresh, Unsent, Sent, Pinned, EvaluationConsistent, Runs
<1> QED BY <1>2, <1>3, <1>4 DEF IInv

\* and every step keeps it.
LEMMA StepIInv == IInv /\ [Next]_vars => IInv'
<1> SUFFICES ASSUME IInv, [Next]_vars PROVE IInv'
  OBVIOUS
<1>1. CASE Request
  BY <1>1, CreateKeeps, SendKeeps, SendFailsKeeps, MarkFailedKeeps, RequestEndsKeeps DEF Request
<1>2. CASE Crash
  BY <1>2, RequestEndsKeeps
<1>3. ASSUME NEW r \in Runs, Work(r) \/ Redeliver(r) PROVE IInv'
  BY <1>3, StartKeeps, SettleKeeps, RedeliverKeeps DEF Work
<1>4. CASE Evaluate \/ ReadPoints
  BY <1>4, EvaluateKeeps, ReadPointsKeeps
<1>5. CASE Backtest \/ BacktestRejected
  BY <1>5, BacktestKeeps, BacktestRejectedKeeps
<1>6. CASE UNCHANGED vars
  BY <1>6 DEF vars, batch, IInv, TypeOK, EvalTyped, Born, Fresh, Unsent, Sent, Pinned,
              EvaluationConsistent
<1> QED BY <1>1, <1>2, <1>3, <1>4, <1>5, <1>6 DEF Next

\* The inductive invariant holds throughout.
THEOREM Invariant == Spec => []IInv
BY InitIInv, StepIInv, PTL DEF Spec

\* TypeOK: every variable keeps its type.
THEOREM TypeCorrect == Spec => []TypeOK
<1>1. IInv => TypeOK
  BY DEF IInv
<1> QED BY <1>1, Invariant, PTL

\* EvaluationConsistent: a completed run whose message was handed over once is
\* never executed again, so the timeline and the backtest read the same.
THEOREM EvaluationsConsistent == Spec => []EvaluationConsistent
<1>1. IInv => EvaluationConsistent
  BY DEF IInv
<1> QED BY <1>1, Invariant, PTL

-----------------------------------------------------------------------------
(* Each run keeps the lifecycle of a run by itself. *)

Steady(r) == Run(r)!Next \/ UNCHANGED Run(r)!vars

\* what a step does to one run is what it does to the run by itself
LEMMA Moved ==
  ASSUME NEW r \in Runs, NEW from, NEW to, status[r] = from, status'[r] = to
  PROVE  Run(r)!Move(r, from, to)
BY DEF Run!Move

\* What is visible stays while the rows do.
LEMMA RecsStay ==
  ASSUME NEW r \in Runs, recs'[r] = recs[r]
  PROVE  UNCHANGED [x \in {r} |-> recs[x]]
OBVIOUS

\* A step that leaves the run alone is a stutter of its lifecycle.
LEMMA Unmoved ==
  ASSUME NEW r \in Runs, status'[r] = status[r], recs'[r] = recs[r]
  PROVE  Steady(r)
BY DEF Steady, Run!vars

\* Submit is a step of the lifecycle, or a stutter.
LEMMA SubmitKept ==
  ASSUME NEW r \in Runs, status[r] = "ABSENT", status'[r] = "QUEUED", recs'[r] = recs[r]
  PROVE  Steady(r)
<1>1. Run(r)!Move(r, "ABSENT", "QUEUED")
  BY Moved
<1> QED BY <1>1, RecsStay DEF Steady, Run!Next, Run!Submit

\* Reject is a step of the lifecycle, or a stutter.
LEMMA RejectKept ==
  ASSUME NEW r \in Runs, status[r] = "QUEUED", status'[r] = "FAILED", recs'[r] = recs[r]
  PROVE  Steady(r)
<1>1. Run(r)!Move(r, "QUEUED", "FAILED")
  BY Moved
<1> QED BY <1>1, RecsStay DEF Steady, Run!Next, Run!Reject

\* Start is a step of the lifecycle, or a stutter.
LEMMA StartKept ==
  ASSUME NEW r \in Runs, status[r] = "QUEUED", status'[r] = "RUNNING", recs'[r] = recs[r]
  PROVE  Steady(r)
<1>1. Run(r)!Move(r, "QUEUED", "RUNNING")
  BY Moved
<1> QED BY <1>1, RecsStay DEF Steady, Run!Next, Run!Start

\* Settle is a step of the lifecycle, or a stutter.
LEMMA SettleKept ==
  ASSUME NEW r \in Runs, NEW verdict \in {"COMPLETED", "FAILED"}, NEW S \in SUBSET Symbols,
         status[r] = "RUNNING", status'[r] = verdict,
         recs'[r] = [s \in Symbols |-> IF s \in S THEN 1 ELSE 0]
  PROVE  Steady(r)
<1>1. Run(r)!Move(r, "RUNNING", verdict)
  BY Moved
<1>2. [x \in {r} |-> recs'[x]]
        = [[x \in {r} |-> recs[x]] EXCEPT ![r] = [s \in Symbols |-> IF s \in S THEN 1 ELSE 0]]
  OBVIOUS
<1>3. Run(r)!Settle(r)
  BY <1>1, <1>2 DEF Run!Settle
<1> QED BY <1>3 DEF Steady, Run!Next

\* Work is a step of the lifecycle, or a stutter.
LEMMA WorkKept ==
  ASSUME IInv, NEW q \in Runs, Start(q) \/ Settle(q) \/ Redeliver(q), NEW r \in Runs \ strayed'
  PROVE  Steady(r)
<1>0. r \in Runs \ strayed /\ TypeOK
  BY DEF IInv, Start, Settle, Redeliver
<1>1. CASE r # q \/ Redeliver(q)
  BY <1>0, <1>1, Types, Unmoved DEF Start, Settle, Redeliver, batch
<1>2. CASE r = q /\ Start(q)
  <2>1. status[r] = "QUEUED"
    BY <1>0, <1>2, Types DEF IInv, Start, Unsent, Sent, Runs
  <2> QED BY <1>0, <1>2, <2>1, Types, StartKept DEF Start
<1>3. CASE r = q /\ Settle(q)
  <2>1. PICK verdict \in {"COMPLETED", "FAILED"}, S \in SUBSET Symbols :
          /\ status' = [status EXCEPT ![r] = verdict]
          /\ recs' = [recs EXCEPT ![r] = [s \in Symbols |-> @[s] + IF s \in S THEN 1 ELSE 0]]
    BY <1>3 DEF Settle
  <2>2. status[r] = "RUNNING" /\ recs[r] = [s \in Symbols |-> 0]
    BY <1>0, <1>3, Types DEF IInv, Settle, Unsent, Sent, Fresh, NoRecs, Runs
  <2>3. recs'[r] = [s \in Symbols |-> recs[r][s] + IF s \in S THEN 1 ELSE 0]
    BY <1>0, <2>1, Types
  <2>4. recs'[r] = [s \in Symbols |-> IF s \in S THEN 1 ELSE 0]
    BY <2>2, <2>3
  <2>5. status'[r] = verdict
    BY <1>0, <2>1, Types
  <2> QED BY <2>2, <2>4, <2>5, SettleKept
<1> QED BY <1>1, <1>2, <1>3

\* Every step of the batch is a step of the lifecycle of each run, or a stutter.
LEMMA StepKept ==
  ASSUME IInv, [Next]_vars, NEW r \in Runs \ strayed'
  PROVE  Steady(r)
<1>1. CASE Create
  BY <1>1, Types, SubmitKept DEF IInv, Create, Born
<1>2. CASE MarkFailed
  <2>1. r \in Runs \ strayed /\ recs'[r] = recs[r]
        /\ status'[r] = IF r > sent THEN "FAILED" ELSE status[r]
    BY <1>2 DEF MarkFailed
  <2>2. r > sent => status[r] = "QUEUED"
    BY <1>2, <2>1 DEF IInv, MarkFailed, Unsent
  <2> QED BY <2>1, <2>2, RejectKept, Unmoved
<1>3. CASE \E q \in Runs : Work(q) \/ Redeliver(q)
  BY <1>3, WorkKept DEF Work
<1>4. CASE UNCHANGED batch
  BY <1>4, Unmoved DEF batch
<1> QED BY <1>1, <1>2, <1>3, <1>4
        DEF Next, Request, Send, SendFails, Respond, Crash, Evaluate, ReadPoints, Backtest,
            BacktestRejected, vars

\* RunsKeepLifecycle: every run of a batch whose message was handed over once
\* implements the lifecycle of a single run, recommendations included.
THEOREM BatchKeepsLifecycle == Spec => RunsKeepLifecycle
<1>1. Init => \A r \in Runs : Run(r)!Init
  BY DEF Init, NoRecs, Run!Init
<1>2. IInv /\ [Next]_vars
        => [\A r \in Runs \ strayed' : Run(r)!Next \/ UNCHANGED Run(r)!vars]_<<batch, strayed>>
  BY StepKept DEF Steady
<1> QED BY <1>1, <1>2, Invariant, PTL DEF Spec, RunsKeepLifecycle

-----------------------------------------------------------------------------
(* PART 2. The report. *)

-----------------------------------------------------------------------------
(* Sorting by rank *)

\* Of finitely many numbers one is the greatest.
LEMMA GreatestOf ==
  ASSUME NEW D, IsFiniteSet(D), D # {}, D \subseteq Int
  PROVE  \E g \in D : \A d \in D : d <= g
<1> DEFINE f == [d \in D |-> 0 - d]
<1>1. \A d \in D : f[d] = 0 - d /\ f[d] \in Int
  OBVIOUS
<1>2. \E x \in D : \A y \in D : f[x] <= f[y]
  <2> HIDE DEF f
  <2> QED BY <1>1, LeastOf
<1> QED BY <1>1, <1>2

\* Every place up to the number of elements is some element's.
LEMMA NthExists ==
  ASSUME NEW D, IsFiniteSet(D), \A d \in D : d \in Int, NEW n \in 1..Cardinality(D)
  PROVE  \E d \in D : Cardinality({e \in D : e < d}) = n - 1
<1> DEFINE Ranked(v) == \A k \in 1..Cardinality(v) : \E d \in v : Cardinality({e \in v : e < d}) = k - 1
           B == {v \in SUBSET D : ~ Ranked(v)}
<1> SUFFICES ASSUME ~ Ranked(D) PROVE FALSE
  OBVIOUS
<1>1. PICK m \in B : \A t \in B : t \subseteq m => t = m
  <2>1. D \in SUBSET D
    OBVIOUS
  <2>2. B \in SUBSET SUBSET D
    OBVIOUS
  <2>3. B # {}
    <3> HIDE DEF Ranked
    <3> QED BY <2>1
  <2> HIDE DEF B, Ranked
  <2> QED BY <2>2, <2>3, Smallest
<1>2. m \subseteq D /\ ~ Ranked(m)
  OBVIOUS
<1>3. IsFiniteSet(m) /\ Cardinality(m) \in Nat
  BY <1>2, FS_Subset, FS_CardinalityType
<1>4. PICK k \in 1..Cardinality(m) : \A d \in m : Cardinality({e \in m : e < d}) # k - 1
  BY <1>2
<1>5. m # {}
  <2>1. Cardinality({}) = 0
    BY FS_EmptySet
  <2>2. Cardinality(m) # 0
    BY <1>3, <1>4
  <2> HIDE DEF B, Ranked
  <2> QED BY <2>1, <2>2
<1>6. PICK g \in m : \A d \in m : d <= g
  BY <1>2, <1>3, <1>5, GreatestOf
<1> DEFINE r == m \ {g}
<1>7. IsFiniteSet(r) /\ Cardinality(r) = Cardinality(m) - 1
  BY <1>3, <1>6, FS_RemoveElement
<1>8. Ranked(r)
  <2>1. r \subseteq m /\ r # m /\ r \in SUBSET D
    BY <1>2, <1>6
  <2> QED BY <1>1, <2>1
<1>9. CASE k = Cardinality(m)
  <2>1. {e \in m : e < g} = r
    <3>1. \A e \in m : e \in Int /\ e <= g
      BY <1>2, <1>6
    <3>2. \A e \in m : e < g <=> e # g
      BY <1>6, <3>1
    <3> HIDE DEF B
    <3> QED BY <3>2
  <2> HIDE DEF r
  <2> QED BY <1>4, <1>6, <1>7, <1>9, <2>1
<1>10. CASE k # Cardinality(m)
  <2>1. k \in 1..Cardinality(r)
    <3> HIDE DEF r, B
    <3> QED BY <1>3, <1>4, <1>7, <1>10
  <2>2. PICK d \in r : Cardinality({e \in r : e < d}) = k - 1
    BY <1>8, <2>1
  <2>3. {e \in m : e < d} = {e \in r : e < d}
    <3>1. d \in Int /\ g \in Int /\ d <= g
      BY <1>2, <1>6
    <3> QED BY <3>1
  <2>4. d \in m
    OBVIOUS
  <2> HIDE DEF r, B
  <2> QED BY <1>4, <2>2, <2>3, <2>4
<1> QED BY <1>9, <1>10

\* What is at place n has n - 1 before it.
LEMMA NthIs ==
  ASSUME NEW D, IsFiniteSet(D), D \subseteq Int, NEW n \in 1..Cardinality(D)
  PROVE  Nth(D, n) \in D /\ Cardinality({e \in D : e < Nth(D, n)}) = n - 1
<1>1. \E d \in D : Cardinality({e \in D : e < d}) = n - 1
  BY NthExists
<1> QED BY <1>1 DEF Nth

\* The greater has more before it.
LEMMA MoreBefore ==
  ASSUME NEW D, IsFiniteSet(D), D \subseteq Int, NEW c \in D, NEW d \in D, c < d
  PROVE  Cardinality({e \in D : e < c}) < Cardinality({e \in D : e < d})
<1>1. PICK C, F : C = {e \in D : e < c} /\ F = {e \in D : e < d}
  OBVIOUS
<1>2. C \subseteq F /\ C # F /\ F \subseteq D
  <2>1. c \in Int /\ d \in Int /\ \A e \in D : e \in Int
    OBVIOUS
  <2>2. c \in F /\ c \notin C
    BY <1>1, <2>1
  <2>3. \A e \in D : e < c => e < d
    BY <2>1
  <2> QED BY <1>1, <2>2, <2>3
<1>3. IsFiniteSet(F)
  BY <1>2, FS_Subset
<1>4. Cardinality(C) <= Cardinality(F) /\ Cardinality(C) # Cardinality(F) /\ IsFiniteSet(C)
  BY <1>2, <1>3, FS_Subset
<1>5. Cardinality(C) \in Nat /\ Cardinality(F) \in Nat
  BY <1>3, <1>4, FS_CardinalityType
<1> QED BY <1>1, <1>4, <1>5

\* What comes later is greater.
LEMMA NthOrder ==
  ASSUME NEW D, IsFiniteSet(D), D \subseteq Int,
         NEW i \in 1..Cardinality(D), NEW j \in 1..Cardinality(D), i < j
  PROVE  Nth(D, i) < Nth(D, j)
<1>1. PICK c, d : c = Nth(D, i) /\ d = Nth(D, j)
  OBVIOUS
<1>2. c \in D /\ Cardinality({e \in D : e < c}) = i - 1
  BY <1>1, NthIs
<1>3. d \in D /\ Cardinality({e \in D : e < d}) = j - 1
  BY <1>1, NthIs
<1>4. c # d
  <2>1. Cardinality(D) \in Nat
    BY FS_CardinalityType
  <2> QED BY <1>2, <1>3, <2>1
<1>5. ~ (d < c)
  <2> SUFFICES ASSUME d < c PROVE FALSE
    OBVIOUS
  <2>1. Cardinality({e \in D : e < d}) < Cardinality({e \in D : e < c})
    BY <1>2, <1>3, MoreBefore
  <2> QED BY <1>2, <1>3, <2>1
<1>6. c \in Int /\ d \in Int
  BY <1>2, <1>3
<1> QED BY <1>1, <1>4, <1>5, <1>6

\* Every element has a place.
LEMMA NthAll ==
  ASSUME NEW D, IsFiniteSet(D), D \subseteq Int, NEW d \in D
  PROVE  \E n \in 1..Cardinality(D) : Nth(D, n) = d
<1>1. PICK F : F = {e \in D : e < d}
  OBVIOUS
<1>2. F \subseteq D /\ d \notin F /\ F # D
  <2>1. d \in Int
    OBVIOUS
  <2> QED BY <1>1, <2>1
<1>3. IsFiniteSet(F) /\ Cardinality(F) <= Cardinality(D) /\ Cardinality(F) # Cardinality(D)
  BY <1>2, FS_Subset
<1>4. Cardinality(F) \in Nat /\ Cardinality(D) \in Nat
  BY <1>3, FS_CardinalityType
<1>5. PICK n \in 1..Cardinality(D) : n = Cardinality(F) + 1
  BY <1>3, <1>4
<1>6. PICK c : c = Nth(D, n)
  OBVIOUS
<1>7. c \in D /\ Cardinality({e \in D : e < c}) = n - 1
  BY <1>6, NthIs
<1>8. Cardinality({e \in D : e < d}) = n - 1
  BY <1>1, <1>4, <1>5
<1>9. ~ (c < d)
  <2> SUFFICES ASSUME c < d PROVE FALSE
    OBVIOUS
  <2>1. Cardinality({e \in D : e < c}) < Cardinality({e \in D : e < d})
    BY <1>7, MoreBefore
  <2> QED BY <1>7, <1>8, <2>1
<1>10. ~ (d < c)
  <2> SUFFICES ASSUME d < c PROVE FALSE
    OBVIOUS
  <2>1. Cardinality({e \in D : e < d}) < Cardinality({e \in D : e < c})
    BY <1>7, MoreBefore
  <2> QED BY <1>7, <1>8, <2>1
<1>11. c \in Int /\ d \in Int
  BY <1>7
<1> QED BY <1>6, <1>9, <1>10, <1>11

-----------------------------------------------------------------------------
(* The calendar *)

Months == Len(MonthLengths)

\* The days before a month are a sum over the months before it.
LEMMA BeforeIs ==
  ASSUME NEW m
  PROVE  \E f : f = [i \in 1..(m - 1) |-> MonthLengths[i]] /\ Before(m) = SumOver(f, 1..(m - 1))
<1>1. PICK f : f = [i \in 1..(m - 1) |-> MonthLengths[i]]
  OBVIOUS
<1>2. DOMAIN f = 1..(m - 1)
  BY <1>1
<1>3. Before(m) = SumOver(f, 1..(m - 1))
  BY <1>1, <1>2 DEF Before, SumFunction, SumOver
<1> QED BY <1>1, <1>3

\* Months are one after the other, and have days.
LEMMA Calendar ==
  /\ Months \in Nat /\ Before(1) = 0
  /\ \A m \in 1..Months : /\ MonthLengths[m] \in Nat \ {0} /\ Before(m) \in Nat /\ Before(m + 1) \in Nat
                          /\ Before(m + 1) = Before(m) + MonthLengths[m]
<1>1. Months \in Nat /\ \A m \in 1..Months : MonthLengths[m] \in Nat \ {0}
  BY CalendarTyped DEF Months
<1>2. Before(1) = 0
  <2>1. PICK f : f = [i \in 1..(1 - 1) |-> MonthLengths[i]] /\ Before(1) = SumOver(f, 1..(1 - 1))
    BY BeforeIs
  <2>2. 1..(1 - 1) = {}
    OBVIOUS
  <2>3. Before(1) = SumOver(f, {})
    BY <2>1, <2>2
  <2> QED BY <2>3, SumEmpty
<1>3. ASSUME NEW m \in 1..Months
      PROVE  /\ Before(m) \in Nat /\ Before(m + 1) \in Nat
             /\ Before(m + 1) = Before(m) + MonthLengths[m]
  <2>1. PICK n \in Nat : m = n + 1
    <3>1. m - 1 \in Nat /\ m = (m - 1) + 1
      BY <1>1
    <3> QED BY <3>1
  <2>2. PICK f : f = [i \in 1..(m - 1) |-> MonthLengths[i]] /\ Before(m) = SumOver(f, 1..(m - 1))
    BY BeforeIs
  <2>3. PICK g : g = [i \in 1..((m + 1) - 1) |-> MonthLengths[i]] /\ Before(m + 1) = SumOver(g, 1..((m + 1) - 1))
    BY BeforeIs
  <2>4. m - 1 = n /\ (m + 1) - 1 = n + 1
    BY <2>1
  <2>5. f = [i \in 1..n |-> MonthLengths[i]] /\ Before(m) = SumOver(f, 1..n)
    BY <2>2, <2>4
  <2>6. g = [i \in 1..(n + 1) |-> MonthLengths[i]] /\ Before(m + 1) = SumOver(g, 1..(n + 1))
    BY <2>3, <2>4
  <2>7. \A i \in 1..(n + 1) : i \in 1..Months
    BY <1>1, <2>1
  <2>8. \A i \in 1..(n + 1) : g[i] \in Int /\ g[i] = MonthLengths[i] /\ g[i] >= 0
    BY <1>1, <2>6, <2>7
  <2>9. \A i \in 1..n : f[i] = g[i]
    <3>1. \A i \in 1..n : i \in 1..(n + 1)
      BY <2>1
    <3> QED BY <2>5, <2>8, <3>1
  <2>10. SumOver(g, 1..(n + 1)) = SumOver(f, 1..n) + g[n + 1]
    <3>1. \A i \in 1..(n + 1) : g[i] \in Int
      BY <2>8
    <3> QED BY <2>9, <3>1, SumLonger
  <2>11. SumOver(f, 1..n) \in Int /\ SumOver(f, 1..n) >= 0
    <3>1. \A i \in 1..n : f[i] \in Int /\ f[i] >= 0
      <4>1. \A i \in 1..n : i \in 1..(n + 1)
        BY <2>1
      <4> QED BY <2>8, <2>9, <4>1
    <3>2. IsFiniteSet(1..n)
      BY FS_Interval
    <3>3. \A i \in 1..n : f[i] \in Int
      BY <3>1
    <3>4. \A i \in 1..n : f[i] >= 0
      BY <3>1
    <3> QED BY <3>2, <3>3, <3>4, SumTyped
  <2>12. g[n + 1] = MonthLengths[m] /\ MonthLengths[m] \in Nat
    <3>1. n + 1 \in 1..(n + 1)
      BY <2>1
    <3> QED BY <1>1, <2>1, <2>8, <3>1
  <2> QED BY <2>5, <2>6, <2>10, <2>11, <2>12
<1> QED BY <1>1, <1>2, <1>3

\* Later months begin later.
LEMMA BeforeGrows ==
  ASSUME NEW m \in 1..(Months + 1), NEW n \in 1..(Months + 1), m <= n
  PROVE  Before(m) \in Nat /\ Before(n) \in Nat /\ Before(m) + (n - m) <= Before(n)
<1>0. Months \in Nat /\ \A k \in 1..(Months + 1) : Before(k) \in Nat
  <2>1. ASSUME NEW k \in 1..(Months + 1) PROVE Before(k) \in Nat
    <3>1. CASE k = 1
      BY <3>1, Calendar
    <3>2. CASE k # 1
      <4>1. PICK j : j \in 1..Months /\ k = j + 1
        <5>1. k - 1 \in 1..Months /\ k = (k - 1) + 1
          BY <3>2, Calendar
        <5> QED BY <5>1
      <4> QED BY <4>1, Calendar
    <3> QED BY <3>1, <3>2
  <2> QED BY <2>1, Calendar
<1> DEFINE B == {k \in 0..Months : m + k <= Months + 1 /\ ~ (Before(m) + k <= Before(m + k))}
<1>1. B = {}
  <2> SUFFICES ASSUME B # {} PROVE FALSE
    OBVIOUS
  <2>1. PICK k \in B : \A j \in B : k <= j
    <3>1. B \in SUBSET Nat
      BY <1>0
    <3> HIDE DEF B
    <3> QED BY <3>1, MinIsLeast
  <2>2. k \in 0..Months /\ m + k <= Months + 1 /\ ~ (Before(m) + k <= Before(m + k))
    OBVIOUS
  <2>3. k # 0
    <3> SUFFICES ASSUME k = 0 PROVE FALSE
      OBVIOUS
    <3>1. m + k = m /\ Before(m) \in Nat
      BY <1>0
    <3> HIDE DEF B
    <3> QED BY <2>2, <3>1
  <2>4. PICK j : j = k - 1
    OBVIOUS
  <2>5. j \in 0..Months /\ m + j \in 1..Months /\ k = j + 1 /\ ~ (k <= j)
    BY <1>0, <2>2, <2>3, <2>4
  <2>6. Before(m) + j <= Before(m + j)
    BY <1>0, <2>1, <2>5
  <2>7. PICK p : p = m + j
    OBVIOUS
  <2>8. Before(p + 1) = Before(p) + MonthLengths[p] /\ MonthLengths[p] \in Nat \ {0} /\ Before(p) \in Nat
    BY <2>5, <2>7, Calendar
  <2>9. p + 1 = m + k /\ Before(m) \in Nat
    BY <1>0, <2>5, <2>7
  <2>10. Before(m + k) = Before(p) + MonthLengths[p] /\ Before(m) + j <= Before(p)
    BY <2>6, <2>7, <2>8, <2>9
  <2> HIDE DEF B
  <2> QED BY <2>2, <2>5, <2>8, <2>9, <2>10
<1>2. PICK k : k = n - m
  OBVIOUS
<1>3. k \in 0..Months /\ m + k = n /\ m + k <= Months + 1
  BY <1>0, <1>2
<1>4. Before(m) + k <= Before(m + k)
  BY <1>1, <1>3
<1> QED BY <1>0, <1>2, <1>3, <1>4

\* A day of month m.
In(day, m) == m \in 1..Months /\ Before(m) < day /\ day <= Before(m + 1)

\* There are as many days as months at least.
LEMMA DaysAre ==
  /\ Before(Months + 1) \in Nat /\ Months <= Before(Months + 1)
  /\ Days = 1..Before(Months + 1) /\ Cardinality(Days) = Before(Months + 1)
<1>1. Months \in Nat /\ Before(1) = 0
  BY Calendar
<1>2. 1 \in 1..(Months + 1) /\ Months + 1 \in 1..(Months + 1) /\ 1 <= Months + 1
  BY <1>1
<1>3. Before(Months + 1) \in Nat /\ Before(1) + ((Months + 1) - 1) <= Before(Months + 1)
  BY <1>2, BeforeGrows
<1>4. Days = 1..Before(Months + 1)
  BY DEF Days, Months
<1>5. Cardinality(1..Before(Months + 1)) = Before(Months + 1)
  BY <1>3, FS_Interval
<1> QED BY <1>1, <1>3, <1>4, <1>5

\* A day is of one month.
LEMMA OneMonth ==
  ASSUME NEW day \in Int, NEW m, NEW n, In(day, m), In(day, n)
  PROVE  m = n
<1>0. m \in 1..Months /\ n \in 1..Months /\ Months \in Nat
  BY Calendar DEF In
<1>1. ASSUME NEW p, NEW q, In(day, p), In(day, q), p < q PROVE FALSE
  <2>1. p \in 1..Months /\ q \in 1..Months /\ p + 1 \in 1..(Months + 1) /\ q \in 1..(Months + 1) /\ p + 1 <= q
    BY <1>0, <1>1 DEF In
  <2>2. Before(p + 1) \in Nat /\ Before(q) \in Nat /\ Before(p + 1) + (q - (p + 1)) <= Before(q)
    BY <2>1, BeforeGrows
  <2> QED BY <1>0, <1>1, <2>1, <2>2 DEF In
<1> QED BY <1>0, <1>1

\* Every day is of a month, and that month is Month(day).
LEMMA MonthIs ==
  ASSUME NEW day \in Days
  PROVE  In(day, Month(day)) /\ day \in Nat
<1>0. /\ Months \in Nat /\ Before(1) = 0 /\ Before(Months + 1) \in Nat
      /\ day \in 1..Before(Months + 1) /\ \A m \in 1..Months : Before(m) \in Nat
  BY Calendar, DaysAre
<1> DEFINE B == {m \in 1..Months : day <= Before(m + 1)}
<1>1. B \in SUBSET Nat /\ B # {}
  <2>1. Months # 0
    BY <1>0
  <2>2. Months \in B
    BY <1>0, <2>1
  <2> QED BY <1>0, <2>2
<1>2. PICK m \in B : \A n \in B : m <= n
  <2> HIDE DEF B
  <2> QED BY <1>1, MinIsLeast
<1>3. m \in 1..Months /\ day <= Before(m + 1)
  OBVIOUS
<1>4. Before(m) < day
  <2>1. CASE m = 1
    BY <1>0, <2>1
  <2>2. CASE m # 1
    <3>1. PICK p : p = m - 1
      OBVIOUS
    <3>2. p \in 1..Months /\ p + 1 = m /\ ~ (m <= p)
      BY <1>0, <1>3, <2>2, <3>1
    <3>3. ~ (day <= Before(p + 1))
      BY <1>2, <3>2
    <3> HIDE DEF B
    <3> QED BY <1>0, <1>3, <3>2, <3>3
  <2> QED BY <2>1, <2>2
<1>5. DOMAIN MonthLengths = 1..Months
  BY CalendarTyped DEF Months
<1>6. In(day, m)
  BY <1>3, <1>4 DEF In
<1>7. \E k \in DOMAIN MonthLengths : Before(k) < day /\ day <= Before(k + 1)
  BY <1>3, <1>4, <1>5
<1>8. /\ Month(day) \in DOMAIN MonthLengths
      /\ Before(Month(day)) < day /\ day <= Before(Month(day) + 1)
  BY <1>7 DEF Month
<1> QED BY <1>0, <1>5, <1>8 DEF In

\* Days are in the order of their months.
LEMMA MonthsOrdered ==
  ASSUME NEW c \in Int, NEW d \in Int, NEW m, NEW n, In(c, m), In(d, n)
  PROVE  (m < n => c < d) /\ (c <= d => m <= n)
<1>0. m \in 1..Months /\ n \in 1..Months /\ Months \in Nat
  BY Calendar DEF In
<1>1. ASSUME NEW a \in Int, NEW b \in Int, NEW p, NEW q, In(a, p), In(b, q), p < q PROVE a < b
  <2>1. p \in 1..Months /\ q \in 1..Months /\ p + 1 \in 1..(Months + 1) /\ q \in 1..(Months + 1) /\ p + 1 <= q
    BY <1>0, <1>1 DEF In
  <2>2. Before(p + 1) \in Nat /\ Before(q) \in Nat /\ Before(p + 1) + (q - (p + 1)) <= Before(q)
    BY <2>1, BeforeGrows
  <2> QED BY <1>0, <1>1, <2>1, <2>2 DEF In
<1>2. m < n => c < d
  BY <1>1
<1>3. n < m => d < c
  BY <1>1
<1> QED BY <1>0, <1>2, <1>3

-----------------------------------------------------------------------------
(* The dates of a batch *)

\* what the loop over the dates goes on with
Further(end, cadence, d) == IF d > end THEN d ELSE Advance(d, cadence)

\* f holds the first k of the days the loop comes to.
Loops(start, end, cadence, k, f) ==
  f = [n \in 0..k |-> IF n = 0 THEN start ELSE Further(end, cadence, f[n - 1])]

\* Such days there are.
LEMMA LoopExists ==
  ASSUME NEW start, NEW end, NEW cadence, NEW k \in Nat
  PROVE  \E f : Loops(start, end, cadence, k, f)
<1> SUFFICES ASSUME ~ \E f : Loops(start, end, cadence, k, f) PROVE FALSE
  OBVIOUS
<1> DEFINE B == {j \in Nat : ~ \E f : Loops(start, end, cadence, j, f)}
<1>1. B \in SUBSET Nat /\ B # {}
  OBVIOUS
<1>2. PICK j : j = Min(B)
  OBVIOUS
<1>3. j \in B /\ \A i \in B : j <= i
  <2> HIDE DEF B
  <2> QED BY <1>1, <1>2, MinIsLeast
<1>4. j \in Nat /\ ~ \E f : Loops(start, end, cadence, j, f)
  BY <1>3
<1>5. CASE j = 0
  <2> DEFINE f == [n \in 0..0 |-> start]
  <2>1. f = [n \in 0..0 |-> IF n = 0 THEN start ELSE Further(end, cadence, f[n - 1])]
    OBVIOUS
  <2>2. Loops(start, end, cadence, 0, f)
    BY <2>1 DEF Loops
  <2> QED BY <1>4, <1>5, <2>2
<1>6. CASE j # 0
  <2>1. j - 1 \in Nat /\ j - 1 \notin B
    BY <1>3, <1>4, <1>6
  <2>2. PICK g : Loops(start, end, cadence, j - 1, g)
    BY <2>1
  <2>3. /\ \A n \in 0..(j - 1) : g[n] = IF n = 0 THEN start ELSE Further(end, cadence, g[n - 1])
        /\ DOMAIN g = 0..(j - 1)
    BY <2>2 DEF Loops
  <2> DEFINE f == [n \in 0..j |-> IF n = j THEN Further(end, cadence, g[j - 1]) ELSE g[n]]
             h == [n \in 0..j |-> IF n = 0 THEN start ELSE Further(end, cadence, f[n - 1])]
  <2>4. ASSUME NEW n \in 0..j PROVE f[n] = IF n = 0 THEN start ELSE Further(end, cadence, f[n - 1])
    <3>1. CASE n = j
      <4>1. j - 1 \in 0..j /\ j - 1 # j
        BY <1>4, <2>1
      <4>2. f[j - 1] = g[j - 1] /\ f[n] = Further(end, cadence, g[j - 1])
        BY <3>1, <4>1
      <4> QED BY <1>6, <3>1, <4>2
    <3>2. CASE n # j
      <4>1. n \in 0..(j - 1) /\ f[n] = g[n]
        BY <1>4, <3>2
      <4>2. CASE n = 0
        BY <2>3, <4>1, <4>2
      <4>3. CASE n # 0
        <5>1. n - 1 \in 0..j /\ n - 1 # j
          BY <1>4, <4>1, <4>3
        <5>2. f[n - 1] = g[n - 1]
          BY <5>1
        <5>3. g[n] = Further(end, cadence, g[n - 1])
          BY <2>3, <4>1, <4>3
        <5> QED BY <4>1, <4>3, <5>2, <5>3
      <4> QED BY <4>2, <4>3
    <3> QED BY <3>1, <3>2
  <2>5. \A n \in 0..j : f[n] = h[n]
    <3> HIDE DEF f
    <3> QED BY <2>4
  <2>6. f = h
    <3>1. f = [n \in 0..j |-> f[n]]
      OBVIOUS
    <3>2. h = [n \in 0..j |-> h[n]]
      OBVIOUS
    <3> HIDE DEF f, h
    <3> QED BY <2>5, <3>1, <3>2
  <2>7. Loops(start, end, cadence, j, f)
    <3> HIDE DEF f
    <3> QED BY <2>6 DEF Loops
  <2> QED BY <1>4, <2>7
<1> QED BY <1>5, <1>6

\* The dates are those of them that are not past the end.
LEMMA DatesAre ==
  ASSUME NEW start, NEW end, NEW cadence
  PROVE  LET k == Cardinality(Days) IN
         \E f : Loops(start, end, cadence, k, f) /\ Dates(start, end, cadence) = {f[n] : n \in 0..k} \cap start..end
<1> DEFINE k == Cardinality(Days)
           f == CHOOSE f : f = [n \in 0..Cardinality(Days) |->
                  IF n = 0 THEN start ELSE IF f[n - 1] > end THEN f[n - 1] ELSE Advance(f[n - 1], cadence)]
<1>1. k \in Nat
  BY DaysAre
<1>2. \E g : g = [n \in 0..k |-> IF n = 0 THEN start ELSE IF g[n - 1] > end THEN g[n - 1] ELSE Advance(g[n - 1], cadence)]
  <2> HIDE DEF k, f
  <2>1. PICK g : Loops(start, end, cadence, k, g)
    BY <1>1, LoopExists
  <2> QED BY <2>1 DEF Loops, Further
<1>3. f = [n \in 0..k |-> IF n = 0 THEN start ELSE IF f[n - 1] > end THEN f[n - 1] ELSE Advance(f[n - 1], cadence)]
  BY <1>2
<1>4. Dates(start, end, cadence) = {f[n] : n \in 0..k} \cap start..end
  BY DEF Dates
<1> HIDE DEF f
<1>5. Loops(start, end, cadence, k, f)
  BY <1>3 DEF Loops, Further
<1> QED BY <1>4, <1>5

\* What the loop comes to.
LEMMA LoopsAt ==
  ASSUME NEW start, NEW end, NEW cadence, NEW k \in Nat, NEW f, Loops(start, end, cadence, k, f)
  PROVE  /\ f[0] = start
         /\ \A n \in 1..k : n - 1 \in 0..k /\ f[n] = Further(end, cadence, f[n - 1])
<1>1. \A n \in 0..k : f[n] = IF n = 0 THEN start ELSE Further(end, cadence, f[n - 1])
  BY DEF Loops
<1>2. 0 \in 0..k /\ \A n \in 1..k : n \in 0..k /\ n # 0 /\ n - 1 \in 0..k
  OBVIOUS
<1> QED BY <1>1, <1>2

\* A month later is a day of the next month, or past the calendar.
LEMMA NextMonth ==
  ASSUME NEW d \in Days, NEW m, In(d, m)
  PROVE  /\ Advance(d, "monthly") \in Nat
         /\ IF m = Months THEN Advance(d, "monthly") > Before(Months + 1)
            ELSE In(Advance(d, "monthly"), m + 1)
<1>1. Month(d) = m /\ d \in Nat
  BY MonthIs, OneMonth
<1>2. /\ m \in 1..Months /\ Months \in Nat /\ Before(m) \in Nat /\ Before(m + 1) \in Nat
      /\ Before(m) < d /\ d <= Before(m + 1)
  BY Calendar DEF In
<1>3. Advance(d, "monthly") = IF m = Months THEN Before(m + 1) + 1
                              ELSE Before(m + 1) + Min({d - Before(m), MonthLengths[m + 1]})
  BY <1>1 DEF Advance, Months
<1>4. CASE m = Months
  BY <1>2, <1>3, <1>4
<1>5. CASE m # Months
  <2>1. PICK p : p = m + 1
    OBVIOUS
  <2>2. p \in 1..Months
    BY <1>2, <1>5, <2>1
  <2>3. /\ MonthLengths[p] \in Nat \ {0} /\ Before(p) \in Nat
        /\ Before(p + 1) = Before(p) + MonthLengths[p]
    BY <2>2, Calendar
  <2>4. PICK a, b : a = d - Before(m) /\ b = MonthLengths[p]
    OBVIOUS
  <2>5. a \in Nat /\ a > 0 /\ b \in Nat /\ b > 0
    BY <1>1, <1>2, <2>3, <2>4
  <2>6. PICK c : c = Min({a, b})
    OBVIOUS
  <2>7. c \in {a, b} /\ c <= b
    <3>1. PICK S : S = {a, b}
      OBVIOUS
    <3>2. S \in SUBSET Nat /\ S # {}
      BY <2>5, <3>1
    <3>3. Min(S) \in S /\ \A y \in S : Min(S) <= y
      BY <3>2, MinIsLeast
    <3> QED BY <2>6, <3>1, <3>3
  <2>8. Advance(d, "monthly") = Before(p) + c
    BY <1>3, <1>5, <2>1, <2>4, <2>6
  <2>9. PICK e : e = Advance(d, "monthly")
    OBVIOUS
  <2>10. c \in Nat /\ c > 0 /\ e = Before(p) + c
    BY <2>5, <2>7, <2>8, <2>9
  <2>11. e \in Nat /\ Before(p) < e /\ e <= Before(p + 1)
    BY <2>3, <2>4, <2>7, <2>10
  <2> QED BY <1>5, <2>1, <2>2, <2>9, <2>11 DEF In
<1> QED BY <1>4, <1>5

\* A monthly loop comes to one day of each month until it is past the end.
LEMMA MonthAfterMonth ==
  ASSUME NEW start \in Days, NEW end \in Days, start <= end,
         NEW ms, In(start, ms), NEW me, In(end, me),
         NEW k \in Nat, NEW f, Loops(start, end, "monthly", k, f), NEW n \in 0..k
  PROVE  /\ f[n] \in Nat
         /\ f[n] <= end => In(f[n], ms + n)
         /\ ms + n < me => f[n] <= end
<1>0. f[0] = start /\ \A i \in 1..k : f[i] = Further(end, "monthly", f[i - 1])
  BY LoopsAt
<1>t. /\ Months \in Nat /\ Days = 1..Before(Months + 1) /\ Before(Months + 1) \in Nat
      /\ ms \in 1..Months /\ me \in 1..Months
      /\ start \in Nat /\ end \in Nat /\ end <= Before(Months + 1)
  BY DaysAre, Calendar DEF In
<1> DEFINE Fine(j) == /\ f[j] \in Nat
                      /\ f[j] <= end => In(f[j], ms + j)
                      /\ ms + j < me => f[j] <= end
           B == {j \in 0..k : ~ Fine(j)}
<1> SUFFICES ASSUME ~ Fine(n) PROVE FALSE
  OBVIOUS
<1>1. B \in SUBSET Nat /\ B # {}
  OBVIOUS
<1>2. PICK j : j = Min(B)
  OBVIOUS
<1>3. j \in B /\ \A i \in B : j <= i
  <2> HIDE DEF B
  <2> QED BY <1>1, <1>2, MinIsLeast
<1>4. j \in 0..k /\ ~ Fine(j)
  BY <1>3
<1>5. CASE j = 0
  <2>1. f[j] = start /\ ms + j = ms
    BY <1>0, <1>5, <1>t
  <2>2. Fine(j)
    BY <1>t, <2>1
  <2> QED BY <1>4, <2>2
<1>6. CASE j # 0
  <2>1. PICK i : i = j - 1
    OBVIOUS
  <2>2. i \in 0..k /\ j = i + 1 /\ j \in 1..k /\ ~ (j <= i)
    BY <1>4, <1>6, <2>1
  <2>3. Fine(i)
    BY <1>3, <2>2
  <2>4. PICK c, d : c = f[i] /\ d = f[j]
    OBVIOUS
  <2>5. d = IF c > end THEN c ELSE Advance(c, "monthly")
    BY <1>0, <2>1, <2>2, <2>4 DEF Further
  <2>6. c \in Nat /\ (c <= end => In(c, ms + i)) /\ (ms + i < me => c <= end)
    BY <2>3, <2>4
  <2>7. CASE c > end
    <3>1. d = c /\ ~ (c <= end)
      BY <1>t, <2>5, <2>6, <2>7
    <3>2. ~ (ms + j < me)
      BY <1>t, <2>2, <2>6, <3>1
    <3>3. Fine(j)
      BY <2>4, <2>6, <3>1, <3>2
    <3> QED BY <1>4, <3>3
  <2>8. CASE ~ (c > end)
    <3>1. d = Advance(c, "monthly") /\ c <= end /\ In(c, ms + i)
      BY <1>t, <2>5, <2>6, <2>8
    <3>2. PICK m : m = ms + i
      OBVIOUS
    <3>3. m \in 1..Months /\ m + 1 = ms + j /\ Before(m) \in Nat /\ Before(m) < c
      <4>1. m \in 1..Months /\ Before(m) < c
        BY <3>1, <3>2 DEF In
      <4>2. Before(m) \in Nat
        BY <4>1, Calendar
      <4> QED BY <1>t, <2>2, <3>2, <4>1, <4>2
    <3>4. c \in Days
      BY <1>t, <2>6, <3>1, <3>3
    <3>5. d \in Nat /\ IF m = Months THEN d > Before(Months + 1) ELSE In(d, m + 1)
      BY <3>1, <3>2, <3>4, NextMonth
    <3>6. d <= end => In(d, m + 1)
      BY <1>t, <3>5
    <3>7. ms + j < me => d <= end
      <4> SUFFICES ASSUME m + 1 < me PROVE d <= end
        BY <3>3
      <4>1. m # Months
        BY <1>t, <3>3
      <4>2. In(d, m + 1) /\ d \in Int
        BY <3>5, <4>1
      <4>3. d < end
        BY <1>t, <4>2, MonthsOrdered
      <4> QED BY <1>t, <3>5, <4>3
    <3>8. Fine(j)
      BY <2>4, <3>3, <3>5, <3>6, <3>7
    <3> QED BY <1>4, <3>8
  <2> QED BY <2>7, <2>8
<1> QED BY <1>5, <1>6

\* A monthly batch has one date in each month it crosses, and at most one in any.
LEMMA OneDateAMonth ==
  ASSUME NEW start \in Days, NEW end \in Days, start <= end, NEW m \in 1..Months,
         NEW D, D = {d \in Dates(start, end, "monthly") : Month(d) = m}
  PROVE  IF Month(start) <= m /\ m < Month(end) THEN Cardinality(D) = 1 ELSE Cardinality(D) <= 1
<1>1. PICK ms, me : ms = Month(start) /\ me = Month(end)
  OBVIOUS
<1>2. In(start, ms) /\ In(end, me) /\ start \in Nat /\ end \in Nat
  BY <1>1, MonthIs
<1>3. PICK k : k = Cardinality(Days)
  OBVIOUS
<1>4. PICK f : Loops(start, end, "monthly", k, f) /\ Dates(start, end, "monthly") = {f[n] : n \in 0..k} \cap start..end
  BY <1>3, DatesAre
<1>5. /\ k \in Nat /\ Months <= k /\ Months \in Nat /\ Days = 1..Before(Months + 1) /\ Before(Months + 1) \in Nat
      /\ ms \in 1..Months /\ me \in 1..Months
  BY <1>2, <1>3, DaysAre, Calendar DEF In
<1>6. \A n \in 0..k : /\ f[n] \in Nat
                      /\ f[n] <= end => In(f[n], ms + n)
                      /\ ms + n < me => f[n] <= end
  BY <1>2, <1>4, <1>5, MonthAfterMonth
<1>7. \A d \in D : m - ms \in 0..k /\ d = f[m - ms]
  <2> SUFFICES ASSUME NEW d \in D PROVE m - ms \in 0..k /\ d = f[m - ms]
    OBVIOUS
  <2>1. d \in Dates(start, end, "monthly") /\ Month(d) = m
    OBVIOUS
  <2>2. PICK n \in 0..k : d = f[n]
    BY <1>4, <2>1
  <2>3. start <= d /\ d <= end /\ d \in Nat
    BY <1>2, <1>4, <1>6, <2>1, <2>2
  <2>4. d \in Days
    BY <1>2, <1>5, <2>3
  <2>5. In(d, m) /\ In(d, ms + n)
    BY <1>6, <2>1, <2>2, <2>3, <2>4, MonthIs
  <2>6. m = ms + n
    BY <2>3, <2>5, OneMonth
  <2>7. m - ms = n
    BY <1>5, <2>6
  <2> QED BY <2>2, <2>7
<1>8. IsFiniteSet(D) /\ Cardinality(D) <= 1
  <2>1. PICK x : x = f[m - ms]
    OBVIOUS
  <2>2. D \subseteq {x}
    BY <1>7, <2>1
  <2>3. IsFiniteSet({x}) /\ Cardinality({x}) = 1
    BY FS_Singleton
  <2> QED BY <2>2, <2>3, FS_Subset
<1>9. ASSUME ms <= m, m < me PROVE Cardinality(D) = 1
  <2>1. PICK n \in 0..k : ms + n = m
    <3>1. m - ms \in 0..k /\ ms + (m - ms) = m
      BY <1>5, <1>9
    <3> QED BY <3>1
  <2>2. PICK d : d = f[n]
    OBVIOUS
  <2>3. d \in Nat /\ d <= end /\ In(d, m)
    BY <1>6, <1>9, <2>1, <2>2
  <2>4. start <= d
    <3>1. CASE ms = m
      <4>1. n = 0
        BY <1>5, <2>1, <3>1
      <4>2. f[0] = start
        BY <1>4, <1>5, LoopsAt
      <4> QED BY <1>2, <2>2, <4>1, <4>2
    <3>2. CASE ms # m
      <4>1. ms < m
        BY <1>5, <1>9, <3>2
      <4>2. start < d
        BY <1>2, <2>3, <4>1, MonthsOrdered
      <4> QED BY <1>2, <2>3, <4>2
    <3> QED BY <3>1, <3>2
  <2>5. d \in Days
    BY <1>2, <1>5, <2>3, <2>4
  <2>6. Month(d) = m
    BY <2>3, <2>5, MonthIs, OneMonth
  <2>7. d \in {f[i] : i \in 0..k} /\ d \in start..end
    BY <1>2, <2>1, <2>2, <2>3, <2>4
  <2>8. d \in D
    BY <1>4, <2>6, <2>7
  <2>9. Cardinality(D) \in Nat /\ Cardinality(D) # 0
    <3>1. D # {}
      BY <2>8
    <3> QED BY <1>8, <3>1, FS_EmptySet, FS_CardinalityType
  <2> QED BY <1>8, <2>9
<1> QED BY <1>1, <1>8, <1>9

-----------------------------------------------------------------------------
(* The inductive invariant of the report *)

RecType == [risk : Nat, technical : Nat, total : Nat, action : {"BUY_CANDIDATE", "HOLD"}]

\* Nothing was asked for, or the dates are those asked for.
Asked == \/ request = <<>> /\ dates = {}
         \/ \E start, end \in Days, c \in {"daily", "weekly", "monthly"} :
              /\ start <= end /\ request = <<start, end, c>>
              /\ dates = Dates(start, end, c) /\ Cardinality(dates) <= MaxRuns

\* Recommendations are of dates of the batch.
MadeOfDates == /\ DOMAIN made = Tickers
               /\ \A s \in Tickers : /\ DOMAIN made[s] \subseteq dates
                                     /\ \A d \in DOMAIN made[s] : made[s][d] \in RecType

ReportInv == Asked /\ dates \subseteq Days /\ MadeOfDates

\* No date is outside of the calendar.
LEMMA DatesInside ==
  ASSUME NEW start \in Days, NEW end \in Days, NEW c
  PROVE  Dates(start, end, c) \subseteq Days
<1>1. Dates(start, end, c) \subseteq start..end
  BY DEF Dates
<1>2. start..end \subseteq Days
  BY DaysAre
<1> QED BY <1>1, <1>2

\* Asking for a batch keeps the invariant.
LEMMA AskKeeps ==
  ASSUME ReportInv, NEW start \in Starts, NEW end \in Days, NEW c \in {"daily", "weekly", "monthly"},
         Ask(start, end, c)
  PROVE  ReportInv'
<1>1. start \in Days
  BY CalendarTyped
<1>2. dates' \subseteq Days
  BY <1>1, DatesInside DEF Ask
<1>3. Asked'
  BY <1>1 DEF Ask, Asked
<1>4. MadeOfDates'
  <2>1. dates = {} /\ made' = made
    BY DEF ReportInv, Asked, Ask
  <2>2. DOMAIN made = Tickers /\ \A s \in Tickers : DOMAIN made[s] = {}
    BY <2>1 DEF ReportInv, MadeOfDates
  <2> QED BY <2>1, <2>2 DEF MadeOfDates
<1> QED BY <1>2, <1>3, <1>4 DEF ReportInv

\* So does the completion of a run.
LEMMA CompleteKeeps ==
  ASSUME ReportInv, NEW d \in dates, NEW s \in Tickers, NEW b \in Breakdowns, Complete(d, s, b)
  PROVE  ReportInv'
<1>1. request' = request /\ dates' = dates
  BY DEF Complete
<1>2. Asked' /\ dates' \subseteq Days
  BY <1>1 DEF ReportInv, Asked
<1>3. b[1] \in Nat /\ b[2] \in Nat
  BY CalendarTyped
<1>4. PICK rec : rec = [risk |-> b[1], technical |-> b[2], total |-> b[1] + b[2],
                        action |-> IF b[1] + b[2] >= BuyAt THEN "BUY_CANDIDATE" ELSE "HOLD"]
  OBVIOUS
<1>5. rec \in RecType
  BY <1>3, <1>4 DEF RecType
<1>6. made' = [made EXCEPT ![s] = [x \in DOMAIN @ \cup {d} |-> IF x = d THEN rec ELSE @[x]]]
  BY <1>4 DEF Complete
<1>7. /\ DOMAIN made = Tickers
      /\ \A t \in Tickers : DOMAIN made[t] \subseteq dates /\ \A x \in DOMAIN made[t] : made[t][x] \in RecType
  BY DEF ReportInv, MadeOfDates
<1>8. /\ DOMAIN made' = Tickers /\ \A t \in Tickers : t # s => made'[t] = made[t]
      /\ made'[s] = [x \in DOMAIN made[s] \cup {d} |-> IF x = d THEN rec ELSE made[s][x]]
  BY <1>6, <1>7
<1>9. /\ DOMAIN made'[s] = DOMAIN made[s] \cup {d}
      /\ \A x \in DOMAIN made'[s] : made'[s][x] = IF x = d THEN rec ELSE made[s][x]
  BY <1>8
<1>10. DOMAIN made'[s] \subseteq dates' /\ \A x \in DOMAIN made'[s] : made'[s][x] \in RecType
  BY <1>1, <1>5, <1>7, <1>9
<1>11. MadeOfDates'
  BY <1>1, <1>7, <1>8, <1>10 DEF MadeOfDates
<1> QED BY <1>2, <1>11 DEF ReportInv

\* It holds at first, and every step keeps it.
LEMMA ReportHolds ==
  /\ InitReport => ReportInv
  /\ ReportInv /\ [NextReport]_reportVars => ReportInv'
<1>1. ASSUME InitReport PROVE ReportInv
  <2>1. DOMAIN <<>> = {}
    OBVIOUS
  <2>2. DOMAIN made = Tickers /\ \A s \in Tickers : DOMAIN made[s] = {}
    BY <1>1, <2>1 DEF InitReport
  <2> QED BY <1>1, <2>2 DEF InitReport, ReportInv, Asked, MadeOfDates
<1>2. ASSUME ReportInv, [NextReport]_reportVars PROVE ReportInv'
  <2>1. CASE UNCHANGED reportVars
    BY <1>2, <2>1 DEF reportVars, ReportInv, Asked, MadeOfDates
  <2>2. CASE NextReport
    BY <1>2, <2>2, AskKeeps, CompleteKeeps DEF NextReport
  <2> QED BY <1>2, <2>1, <2>2
<1> QED BY <1>1, <1>2

\* It gives what is said of the dates.
LEMMA MonthlyHolds ==
  ASSUME ReportInv
  PROVE  MonthlyIsMonthly
<1>1. CASE request = <<>>
  BY <1>1 DEF MonthlyIsMonthly
<1>2. CASE request # <<>>
  <2>1. PICK start \in Days, end \in Days, c \in {"daily", "weekly", "monthly"} :
          start <= end /\ request = <<start, end, c>> /\ dates = Dates(start, end, c)
    BY <1>2 DEF ReportInv, Asked
  <2>2. request[1] = start /\ request[2] = end /\ request[3] = c
    BY <2>1
  <2>3. CASE c # "monthly"
    BY <2>2, <2>3 DEF MonthlyIsMonthly
  <2>4. CASE c = "monthly"
    <3> SUFFICES ASSUME NEW m \in DOMAIN MonthLengths
                 PROVE  LET there == Cardinality({d \in dates : Month(d) = m}) IN
                        IF Month(start) <= m /\ m < Month(end) THEN there = 1 ELSE there <= 1
      BY <2>2 DEF MonthlyIsMonthly
    <3>1. m \in 1..Months
      BY CalendarTyped DEF Months
    <3>2. PICK D : D = {d \in dates : Month(d) = m}
      OBVIOUS
    <3>3. D = {d \in Dates(start, end, "monthly") : Month(d) = m}
      BY <2>1, <2>4, <3>2
    <3>4. IF Month(start) <= m /\ m < Month(end) THEN Cardinality(D) = 1 ELSE Cardinality(D) <= 1
      BY <2>1, <3>1, <3>3, OneDateAMonth
    <3> QED BY <3>2, <3>4
  <2> QED BY <2>3, <2>4
<1> QED BY <1>1, <1>2

-----------------------------------------------------------------------------
(* Timelines *)

\* A symbol has n points, by date, with these scores and actions.
Timeline(s, n, day, tot, act) ==
  /\ n \in Nat /\ Cardinality(DOMAIN made[s]) = n /\ (n = 0 => DOMAIN made[s] = {})
  /\ DOMAIN Points(s) = 1..n /\ Len(Points(s)) = n
  /\ \A i \in 1..n : /\ Points(s)[i].date = day[i] /\ Points(s)[i].rec.total = tot[i]
                     /\ Points(s)[i].rec.action = act[i]
                     /\ day[i] \in Days /\ tot[i] \in Nat
  /\ \A i, j \in 1..n : i < j => day[i] < day[j]

\* The points of a symbol are such.
LEMMA PointsAre ==
  ASSUME ReportInv, NEW s \in Tickers
  PROVE  \E n, day, tot, act : Timeline(s, n, day, tot, act)
<1>1. PICK D : D = DOMAIN made[s]
  OBVIOUS
<1>2. D \subseteq dates /\ dates \subseteq Days /\ \A d \in D : made[s][d] \in RecType
  BY <1>1 DEF ReportInv, MadeOfDates
<1>3. IsFiniteSet(D) /\ D \subseteq Int /\ D \subseteq Days
  <2>1. Days = 1..Before(Months + 1) /\ Before(Months + 1) \in Nat
    BY DaysAre
  <2>2. IsFiniteSet(Days) /\ Days \subseteq Int
    BY <2>1, FS_Interval
  <2>3. D \subseteq Days
    BY <1>2
  <2> QED BY <2>2, <2>3, FS_Subset
<1>4. PICK n : n = Cardinality(D)
  OBVIOUS
<1>5. n \in Nat /\ (n = 0 => D = {})
  BY <1>3, <1>4, FS_CardinalityType, FS_EmptySet
<1> DEFINE day == [i \in 1..n |-> Nth(D, i)]
           tot == [i \in 1..n |-> made[s][Nth(D, i)].total]
           act == [i \in 1..n |-> made[s][Nth(D, i)].action]
<1>6. Points(s) = [i \in 1..n |-> [date |-> Nth(D, i), rec |-> made[s][Nth(D, i)]]]
  BY <1>1, <1>4 DEF Points
<1>7. \A i \in 1..n : Nth(D, i) \in D
  BY <1>3, <1>4, NthIs
<1>8. \A i, j \in 1..n : i < j => Nth(D, i) < Nth(D, j)
  BY <1>3, <1>4, NthOrder
<1>9. ASSUME NEW i \in 1..n
      PROVE  /\ Points(s)[i].date = day[i] /\ Points(s)[i].rec.total = tot[i]
             /\ Points(s)[i].rec.action = act[i] /\ day[i] \in Days /\ tot[i] \in Nat
  <2>1. PICK d, rec : d = Nth(D, i) /\ rec = made[s][d]
    OBVIOUS
  <2>2. Points(s)[i] = [date |-> d, rec |-> rec] /\ day[i] = d /\ tot[i] = rec.total /\ act[i] = rec.action
    BY <1>6, <2>1
  <2>3. d \in Days /\ rec \in RecType
    BY <1>2, <1>3, <1>7, <2>1
  <2>4. rec.total \in Nat
    BY <2>3 DEF RecType
  <2>5. Points(s)[i].date = d /\ Points(s)[i].rec = rec
    BY <2>2
  <2> HIDE DEF day, tot, act
  <2> QED BY <2>2, <2>3, <2>4, <2>5
<1>10. \A i, j \in 1..n : i < j => day[i] < day[j]
  BY <1>8
<1>11. DOMAIN Points(s) = 1..n /\ Len(Points(s)) = n
  BY <1>5, <1>6
<1> HIDE DEF day, tot, act
<1>12. Timeline(s, n, day, tot, act)
  BY <1>1, <1>4, <1>5, <1>9, <1>10, <1>11 DEF Timeline
<1> QED BY <1>12

\* The steps of the points.
LEMMA ChangesAre ==
  ASSUME NEW s, NEW n, NEW day, NEW tot, NEW act, Timeline(s, n, day, tot, act)
  PROVE  /\ Steps(s) \in Nat /\ Steps(s) = (IF n = 0 THEN 0 ELSE n - 1)
         /\ DOMAIN Changes(s) = 1..Steps(s) /\ Len(Changes(s)) = Steps(s)
         /\ \A i \in 1..Steps(s) :
              /\ i \in 1..n /\ i + 1 \in 1..n
              /\ Changes(s)[i].from = day[i] /\ Changes(s)[i].to = day[i + 1]
              /\ Changes(s)[i].delta = tot[i + 1] - tot[i]
              /\ Changes(s)[i].action_changed = (act[i] # act[i + 1])
<1>1. n \in Nat /\ Cardinality(DOMAIN made[s]) = n /\ (n = 0 => DOMAIN made[s] = {})
  BY DEF Timeline
<1>2. Steps(s) = IF n = 0 THEN 0 ELSE n - 1
  <2>1. DOMAIN made[s] = {} => n = 0
    BY <1>1, FS_EmptySet
  <2>2. CASE DOMAIN made[s] = {}
    BY <2>1, <2>2 DEF Steps
  <2>3. CASE DOMAIN made[s] # {}
    BY <1>1, <2>3 DEF Steps
  <2> QED BY <2>2, <2>3
<1>3. PICK k : k = Steps(s)
  OBVIOUS
<1>4. k \in Nat /\ \A i \in 1..k : i \in 1..n /\ i + 1 \in 1..n
  BY <1>1, <1>2, <1>3
<1>5. PICK ps : ps = Points(s)
  OBVIOUS
<1>6. Changes(s) = [i \in 1..k |-> [from |-> ps[i].date, to |-> ps[i + 1].date,
                                    delta |-> ps[i + 1].rec.total - ps[i].rec.total,
                                    action_changed |-> ps[i].rec.action # ps[i + 1].rec.action]]
  BY <1>3, <1>5 DEF Changes
<1>7. DOMAIN Changes(s) = 1..k /\ Len(Changes(s)) = k
  BY <1>4, <1>6
<1>8. ASSUME NEW i \in 1..k
      PROVE  /\ Changes(s)[i].from = day[i] /\ Changes(s)[i].to = day[i + 1]
             /\ Changes(s)[i].delta = tot[i + 1] - tot[i]
             /\ Changes(s)[i].action_changed = (act[i] # act[i + 1])
  <2>1. PICK j : j = i + 1
    OBVIOUS
  <2>2. i \in 1..n /\ j \in 1..n
    BY <1>4, <2>1
  <2>3. Changes(s)[i] = [from |-> ps[i].date, to |-> ps[j].date,
                         delta |-> ps[j].rec.total - ps[i].rec.total,
                         action_changed |-> ps[i].rec.action # ps[j].rec.action]
    BY <1>6, <2>1
  <2>4. /\ ps[i].date = day[i] /\ ps[i].rec.total = tot[i] /\ ps[i].rec.action = act[i]
        /\ ps[j].date = day[j] /\ ps[j].rec.total = tot[j] /\ ps[j].rec.action = act[j]
    BY <1>5, <2>2 DEF Timeline
  <2>5. Changes(s)[i] = [from |-> day[i], to |-> day[j], delta |-> tot[j] - tot[i],
                         action_changed |-> act[i] # act[j]]
    BY <2>3, <2>4
  <2> QED BY <2>1, <2>5
<1> QED BY <1>2, <1>3, <1>4, <1>7, <1>8

-----------------------------------------------------------------------------
(* The first of the largest *)

\* what the loop over the sizes keeps after the n-th, b before it
Keep(sizes, n, b) == IF sizes[n] > (IF b = 0 THEN 0 ELSE sizes[b]) THEN n ELSE b

\* f holds what is kept after each of the first k.
Keeping(sizes, k, f) == f = [n \in 0..k |-> IF n = 0 THEN 0 ELSE Keep(sizes, n, f[n - 1])]

\* Such places there are.
LEMMA KeepingExists ==
  ASSUME NEW sizes, NEW k \in Nat
  PROVE  \E f : Keeping(sizes, k, f)
<1> SUFFICES ASSUME ~ \E f : Keeping(sizes, k, f) PROVE FALSE
  OBVIOUS
<1> DEFINE B == {j \in Nat : ~ \E f : Keeping(sizes, j, f)}
<1>1. B \in SUBSET Nat /\ B # {}
  OBVIOUS
<1>2. PICK j : j = Min(B)
  OBVIOUS
<1>3. j \in B /\ \A i \in B : j <= i
  <2> HIDE DEF B
  <2> QED BY <1>1, <1>2, MinIsLeast
<1>4. j \in Nat /\ ~ \E f : Keeping(sizes, j, f)
  BY <1>3
<1>5. CASE j = 0
  <2> DEFINE f == [n \in 0..0 |-> 0]
  <2>1. f = [n \in 0..0 |-> IF n = 0 THEN 0 ELSE Keep(sizes, n, f[n - 1])]
    OBVIOUS
  <2>2. Keeping(sizes, 0, f)
    BY <2>1 DEF Keeping
  <2> QED BY <1>4, <1>5, <2>2
<1>6. CASE j # 0
  <2>1. j - 1 \in Nat /\ j - 1 \notin B
    BY <1>3, <1>4, <1>6
  <2>2. PICK g : Keeping(sizes, j - 1, g)
    BY <2>1
  <2>3. /\ \A n \in 0..(j - 1) : g[n] = IF n = 0 THEN 0 ELSE Keep(sizes, n, g[n - 1])
        /\ DOMAIN g = 0..(j - 1)
    BY <2>2 DEF Keeping
  <2> DEFINE f == [n \in 0..j |-> IF n = j THEN Keep(sizes, j, g[j - 1]) ELSE g[n]]
             h == [n \in 0..j |-> IF n = 0 THEN 0 ELSE Keep(sizes, n, f[n - 1])]
  <2>4. ASSUME NEW n \in 0..j PROVE f[n] = IF n = 0 THEN 0 ELSE Keep(sizes, n, f[n - 1])
    <3>1. CASE n = j
      <4>1. j - 1 \in 0..j /\ j - 1 # j
        BY <1>4, <2>1
      <4>2. f[j - 1] = g[j - 1] /\ f[n] = Keep(sizes, j, g[j - 1])
        BY <3>1, <4>1
      <4> QED BY <1>6, <3>1, <4>2
    <3>2. CASE n # j
      <4>1. n \in 0..(j - 1) /\ f[n] = g[n]
        BY <1>4, <3>2
      <4>2. CASE n = 0
        BY <2>3, <4>1, <4>2
      <4>3. CASE n # 0
        <5>1. n - 1 \in 0..j /\ n - 1 # j
          BY <1>4, <4>1, <4>3
        <5>2. f[n - 1] = g[n - 1]
          BY <5>1
        <5>3. g[n] = Keep(sizes, n, g[n - 1])
          BY <2>3, <4>1, <4>3
        <5> QED BY <4>1, <4>3, <5>2, <5>3
      <4> QED BY <4>2, <4>3
    <3> QED BY <3>1, <3>2
  <2>5. \A n \in 0..j : f[n] = h[n]
    <3> HIDE DEF f
    <3> QED BY <2>4
  <2>6. f = h
    <3>1. f = [n \in 0..j |-> f[n]]
      OBVIOUS
    <3>2. h = [n \in 0..j |-> h[n]]
      OBVIOUS
    <3> HIDE DEF f, h
    <3> QED BY <2>5, <3>1, <3>2
  <2>7. Keeping(sizes, j, f)
    <3> HIDE DEF f
    <3> QED BY <2>6 DEF Keeping
  <2> QED BY <1>4, <2>7
<1> QED BY <1>5, <1>6

\* What is kept in the end is kept after the last.
LEMMA FirstLargestAt ==
  ASSUME NEW sizes, NEW k \in Nat, Len(sizes) = k
  PROVE  \E f : Keeping(sizes, k, f) /\ FirstLargest(sizes) = f[k]
<1> DEFINE f == CHOOSE f : f = [n \in 0..Len(sizes) |-> IF n = 0 THEN 0 ELSE
                  LET b == f[n - 1] IN IF sizes[n] > (IF b = 0 THEN 0 ELSE sizes[b]) THEN n ELSE b]
<1>1. PICK g : Keeping(sizes, Len(sizes), g)
  <2> HIDE DEF f
  <2> QED BY KeepingExists
<1>2. \E h : h = [n \in 0..Len(sizes) |-> IF n = 0 THEN 0 ELSE
               LET b == h[n - 1] IN IF sizes[n] > (IF b = 0 THEN 0 ELSE sizes[b]) THEN n ELSE b]
  BY <1>1 DEF Keeping, Keep
<1>3. f = [n \in 0..Len(sizes) |-> IF n = 0 THEN 0 ELSE
               LET b == f[n - 1] IN IF sizes[n] > (IF b = 0 THEN 0 ELSE sizes[b]) THEN n ELSE b]
  BY <1>2
<1>4. FirstLargest(sizes) = f[Len(sizes)]
  BY DEF FirstLargest
<1> HIDE DEF f
<1>5. Keeping(sizes, Len(sizes), f)
  BY <1>3 DEF Keeping, Keep
<1> QED BY <1>4, <1>5

\* The place it gives is of the largest, and none is above 0 if it gives none.
LEMMA FirstLargestIs ==
  ASSUME NEW k \in Nat, NEW w, Len(w) = k, \A i \in 1..k : w[i] \in Int
  PROVE  /\ FirstLargest(w) \in 0..k
         /\ IF FirstLargest(w) = 0 THEN \A i \in 1..k : w[i] <= 0
            ELSE w[FirstLargest(w)] > 0 /\ \A i \in 1..k : w[i] <= w[FirstLargest(w)]
<1>1. PICK f : Keeping(w, k, f) /\ FirstLargest(w) = f[k]
  BY FirstLargestAt
<1>2. \A n \in 0..k : f[n] = IF n = 0 THEN 0 ELSE Keep(w, n, f[n - 1])
  BY <1>1 DEF Keeping
<1> DEFINE Fine(n, b) == /\ b \in 0..n
                         /\ IF b = 0 THEN \A i \in 1..n : w[i] <= 0
                            ELSE w[b] > 0 /\ \A i \in 1..n : w[i] <= w[b]
           B == {n \in 0..k : ~ Fine(n, f[n])}
<1>3. B = {}
  <2> SUFFICES ASSUME B # {} PROVE FALSE
    OBVIOUS
  <2>1. B \in SUBSET Nat
    OBVIOUS
  <2>2. PICK n \in B : \A i \in B : n <= i
    <3> HIDE DEF B
    <3> QED BY <2>1, MinIsLeast
  <2>3. n \in 0..k /\ ~ Fine(n, f[n])
    OBVIOUS
  <2>4. n # 0
    <3> SUFFICES ASSUME n = 0 PROVE FALSE
      OBVIOUS
    <3>1. f[n] = 0
      BY <1>2, <2>3
    <3>2. Fine(n, 0)
      OBVIOUS
    <3> HIDE DEF B, Fine
    <3> QED BY <2>3, <3>1, <3>2
  <2>5. PICK m : m = n - 1
    OBVIOUS
  <2>6. m \in 0..k /\ n = m + 1 /\ ~ (n <= m)
    BY <2>3, <2>4, <2>5
  <2>7. PICK b, c : b = f[m] /\ c = f[n]
    OBVIOUS
  <2>8. Fine(m, b)
    BY <2>2, <2>6, <2>7
  <2>9. c = Keep(w, n, b)
    BY <1>2, <2>3, <2>4, <2>5, <2>7
  <2>10. \A i \in 1..n : i = n \/ i \in 1..m
    BY <2>6
  <2>11. n \in 1..k /\ w[n] \in Int /\ \A i \in 1..m : i \in 1..k /\ w[i] \in Int
    BY <2>3, <2>4, <2>6
  <2>12. b \in 0..m /\ (b # 0 => w[b] \in Int /\ w[b] > 0)
    BY <2>8, <2>11
  <2> HIDE DEF B
  <2>13. CASE w[n] > (IF b = 0 THEN 0 ELSE w[b])
    <3>1. c = n
      BY <2>9, <2>13 DEF Keep
    <3>2. \A i \in 1..m : w[i] <= w[n]
      BY <2>8, <2>11, <2>12, <2>13
    <3>3. w[n] > 0 /\ w[n] <= w[n]
      BY <2>11, <2>12, <2>13
    <3>4. Fine(n, c)
      BY <2>3, <2>4, <2>10, <3>1, <3>2, <3>3
    <3> HIDE DEF Fine
    <3> QED BY <2>3, <2>7, <3>4
  <2>14. CASE ~ (w[n] > (IF b = 0 THEN 0 ELSE w[b]))
    <3>1. c = b
      BY <2>9, <2>14 DEF Keep
    <3>2. w[n] <= (IF b = 0 THEN 0 ELSE w[b])
      BY <2>11, <2>12, <2>14
    <3>3. b \in 0..n
      BY <2>6, <2>12
    <3>4. Fine(n, c)
      BY <2>8, <2>10, <3>1, <3>2, <3>3
    <3> HIDE DEF Fine
    <3> QED BY <2>3, <2>7, <3>4
  <2> QED BY <2>13, <2>14
<1>4. k \in 0..k
  OBVIOUS
<1>5. Fine(k, f[k])
  BY <1>3, <1>4
<1> QED BY <1>1, <1>5

-----------------------------------------------------------------------------
(* From step to step *)

\* Steps of c at most lead up by c for each.
LEMMA Climb ==
  ASSUME NEW n \in Nat, NEW t, \A i \in 1..n : t[i] \in Int, NEW c \in Int,
         \A m \in 1..n : m + 1 \in 1..n => t[m + 1] - t[m] <= c,
         NEW i \in 1..n, NEW j \in 1..n, i <= j
  PROVE  \E p \in Nat : p = j - i /\ t[j] - t[i] <= p * c
<1> DEFINE B == {k \in 0..n : i + k \in 1..n /\ ~ (t[i + k] - t[i] <= k * c)}
<1>1. B = {}
  <2> SUFFICES ASSUME B # {} PROVE FALSE
    OBVIOUS
  <2>1. B \in SUBSET Nat
    OBVIOUS
  <2>2. PICK k \in B : \A m \in B : k <= m
    <3> HIDE DEF B
    <3> QED BY <2>1, MinIsLeast
  <2>3. k \in 0..n /\ i + k \in 1..n /\ ~ (t[i + k] - t[i] <= k * c)
    OBVIOUS
  <2>4. k # 0
    <3> SUFFICES ASSUME k = 0 PROVE FALSE
      OBVIOUS
    <3>1. i + k = i /\ k * c = 0 /\ t[i] \in Int
      OBVIOUS
    <3> HIDE DEF B
    <3> QED BY <2>3, <3>1
  <2>5. PICK m : m = k - 1
    OBVIOUS
  <2>6. m \in 0..n /\ k = m + 1 /\ i + m \in 1..n /\ ~ (k <= m) /\ (i + m) + 1 = i + k
    BY <2>3, <2>4, <2>5
  <2>7. t[i + m] - t[i] <= m * c
    BY <2>2, <2>6
  <2>8. PICK p, q : p = i + m /\ q = i + k
    OBVIOUS
  <2>9. p \in 1..n /\ q \in 1..n /\ p + 1 = q
    BY <2>3, <2>6, <2>8
  <2>10. t[q] - t[p] <= c
    BY <2>9
  <2>11. t[i] \in Int /\ t[p] \in Int /\ t[q] \in Int
    BY <2>9
  <2>12. m * c + c = k * c /\ m * c \in Int
    BY <2>6
  <2> HIDE DEF B
  <2>13. t[p] - t[i] <= m * c /\ ~ (t[q] - t[i] <= k * c)
    BY <2>3, <2>7, <2>8
  <2> QED BY <2>10, <2>11, <2>12, <2>13
<1>2. PICK k : k = j - i
  OBVIOUS
<1>3. k \in 0..n /\ i + k = j
  BY <1>2
<1>4. t[i + k] - t[i] <= k * c
  BY <1>1, <1>3
<1>5. k \in Nat
  BY <1>3
<1> QED BY <1>2, <1>3, <1>4, <1>5

\* The sum of the steps is the way from the first to the last.
LEMMA Telescope ==
  ASSUME NEW n \in Nat, NEW t, \A i \in 1..(n + 1) : t[i] \in Int,
         NEW f, \A i \in 1..n : f[i] = t[i + 1] - t[i]
  PROVE  SumOver(f, 1..n) = t[n + 1] - t[1]
<1> DEFINE B == {k \in 0..n : SumOver(f, 1..k) # t[k + 1] - t[1]}
<1>1. B = {}
  <2> SUFFICES ASSUME B # {} PROVE FALSE
    OBVIOUS
  <2>1. B \in SUBSET Nat
    OBVIOUS
  <2>2. PICK k \in B : \A m \in B : k <= m
    <3> HIDE DEF B
    <3> QED BY <2>1, MinIsLeast
  <2>3. k \in 0..n /\ SumOver(f, 1..k) # t[k + 1] - t[1]
    OBVIOUS
  <2>4. k # 0
    <3> SUFFICES ASSUME k = 0 PROVE FALSE
      OBVIOUS
    <3>1. 1..k = {} /\ k + 1 = 1 /\ 1 \in 1..(n + 1)
      OBVIOUS
    <3>2. SumOver(f, {}) = 0 /\ t[1] \in Int
      BY <3>1, SumEmpty
    <3> HIDE DEF B
    <3> QED BY <2>3, <3>1, <3>2
  <2>5. PICK m \in Nat : k = m + 1
    <3>1. k - 1 \in Nat /\ k = (k - 1) + 1
      BY <2>3, <2>4
    <3> QED BY <3>1
  <2>6. m \in 0..n /\ ~ (k <= m)
    BY <2>3, <2>5
  <2>7. SumOver(f, 1..m) = t[m + 1] - t[1]
    BY <2>2, <2>6
  <2>8. SumOver(f, 1..(m + 1)) = SumOver(f, 1..m) + f[m + 1]
    <3>1. ASSUME NEW i \in 1..(m + 1) PROVE f[i] \in Int
      <4>1. i \in 1..n /\ i \in 1..(n + 1) /\ i + 1 \in 1..(n + 1)
        BY <2>3, <2>5
      <4>2. t[i] \in Int /\ t[i + 1] \in Int /\ f[i] = t[i + 1] - t[i]
        BY <4>1
      <4> HIDE DEF B
      <4> QED BY <4>2
    <3>2. \A i \in 1..(m + 1) : f[i] \in Int
      BY <3>1
    <3> QED BY <3>2, SumLonger
  <2>9. /\ k \in 1..n /\ 1 \in 1..(n + 1) /\ k \in 1..(n + 1) /\ k + 1 \in 1..(n + 1)
    BY <2>3, <2>4
  <2>10. f[k] = t[k + 1] - t[k] /\ t[1] \in Int /\ t[k] \in Int /\ t[k + 1] \in Int
    BY <2>9
  <2> HIDE DEF B
  <2> QED BY <2>3, <2>5, <2>7, <2>8, <2>10
<1>2. n \in 0..n
  OBVIOUS
<1> QED BY <1>1, <1>2

\* What differs in the end changed in some step.
LEMMA SomeStep ==
  ASSUME NEW n \in Nat, n > 0, NEW a, a[1] # a[n]
  PROVE  \E i \in 1..n : i + 1 \in 1..n /\ a[i] # a[i + 1]
<1> DEFINE B == {k \in 1..n : a[k] # a[1]}
<1>1. B \in SUBSET Nat /\ B # {}
  <2>1. n \in 1..n /\ n \in B
    OBVIOUS
  <2> QED BY <2>1
<1>2. PICK k \in B : \A m \in B : k <= m
  <2> HIDE DEF B
  <2> QED BY <1>1, MinIsLeast
<1>3. k \in 1..n /\ a[k] # a[1]
  OBVIOUS
<1>4. PICK i : i = k - 1
  OBVIOUS
<1>5. k # 1
  BY <1>3
<1>6. i \in 1..n /\ i + 1 = k /\ ~ (k <= i)
  BY <1>3, <1>4, <1>5
<1>7. a[i] = a[1]
  BY <1>2, <1>6
<1> QED BY <1>3, <1>6, <1>7

\* A greatest and a least element are Max and Min.
LEMMA MaxIs ==
  ASSUME NEW S \in SUBSET Int, NEW x \in S, \A y \in S : y <= x
  PROVE  Max(S) = x
<1>1. \A y \in S : x >= y
  OBVIOUS
<1>2. Max(S) \in S /\ \A y \in S : Max(S) >= y
  BY <1>1 DEF Max
<1>3. PICK m : m = Max(S)
  OBVIOUS
<1>4. m \in Int /\ x \in Int /\ m <= x /\ m >= x
  BY <1>2, <1>3
<1> QED BY <1>3, <1>4

\* And the other way round.
LEMMA MinIs ==
  ASSUME NEW S \in SUBSET Int, NEW x \in S, \A y \in S : x <= y
  PROVE  Min(S) = x
<1>1. Min(S) \in S /\ \A y \in S : Min(S) <= y
  BY DEF Min
<1>2. PICK m : m = Min(S)
  OBVIOUS
<1>3. m \in Int /\ x \in Int /\ m <= x /\ x <= m
  BY <1>1, <1>2
<1> QED BY <1>2, <1>3

-----------------------------------------------------------------------------
(* Moves *)

\* What is kept of a timeline is the step of the first of the largest size.
LEMMA KeptIs ==
  ASSUME NEW s \in Tickers, NEW n, NEW day, NEW tot, NEW act, Timeline(s, n, day, tot, act),
         NEW w, Len(w) = Steps(s), \A i \in 1..Steps(s) : w[i] \in Int
  PROVE  \E r \in 0..Steps(s) :
           IF r = 0 THEN Kept(s, w) = NoDelta /\ \A i \in 1..Steps(s) : w[i] <= 0
           ELSE /\ Kept(s, w) # NoDelta /\ Kept(s, w).delta = tot[r + 1] - tot[r]
                /\ w[r] > 0 /\ \A i \in 1..Steps(s) : w[i] <= w[r]
<1>1. PICK k, r : k = Steps(s) /\ r = FirstLargest(w)
  OBVIOUS
<1>2. k \in Nat
  BY <1>1, ChangesAre
<1>3. r \in 0..k /\ IF r = 0 THEN \A i \in 1..k : w[i] <= 0 ELSE w[r] > 0 /\ \A i \in 1..k : w[i] <= w[r]
  BY <1>1, <1>2, FirstLargestIs
<1>4. CASE r = 0
  <2>1. Kept(s, w) = NoDelta
    BY <1>1, <1>4 DEF Kept
  <2> QED BY <1>1, <1>3, <1>4, <2>1
<1>5. CASE r # 0
  <2>1. r \in 1..k
    BY <1>2, <1>3, <1>5
  <2>2. /\ r \in 1..n /\ r + 1 \in 1..n /\ Changes(s)[r].from = day[r]
        /\ Changes(s)[r].delta = tot[r + 1] - tot[r]
    BY <1>1, <2>1, ChangesAre
  <2>3. PICK d, x : d = day[r] /\ x = tot[r + 1] - tot[r]
    OBVIOUS
  <2>4. d \in Days /\ x \in Int
    BY <2>2, <2>3 DEF Timeline
  <2>5. Kept(s, w) = [symbol |-> s, from |-> d, delta |-> x]
    BY <1>1, <1>5, <2>2, <2>3 DEF Kept
  <2>6. Kept(s, w) \in [symbol : Tickers, from : Days, delta : Int]
    BY <2>4, <2>5
  <2>7. Kept(s, w) # NoDelta /\ Kept(s, w).delta = x
    BY <2>5, <2>6, CalendarTyped
  <2> QED BY <1>1, <1>3, <1>5, <2>3, <2>7
<1> QED BY <1>4, <1>5

\* how large a move is, 0 if there is none
MoveSize(x) == IF x = NoDelta THEN 0 ELSE Abs(x.delta)

\* The largest move bounds all steps, and is one if it is any.
LEMMA LargestIs ==
  ASSUME NEW s \in Tickers, NEW n, NEW day, NEW tot, NEW act, Timeline(s, n, day, tot, act)
  PROVE  /\ MoveSize(LargestMove(s)) \in Nat
         /\ LargestMove(s) = NoDelta <=> MoveSize(LargestMove(s)) = 0
         /\ \A i \in 1..Steps(s) : Abs(tot[i + 1] - tot[i]) <= MoveSize(LargestMove(s))
         /\ LargestMove(s) # NoDelta =>
              \E r \in 1..Steps(s) : LargestMove(s).delta = tot[r + 1] - tot[r]
<1>1. PICK k : k = Steps(s)
  OBVIOUS
<1>2. /\ k \in Nat /\ DOMAIN Changes(s) = 1..k
      /\ \A i \in 1..k : i \in 1..n /\ i + 1 \in 1..n /\ Changes(s)[i].delta = tot[i + 1] - tot[i]
  BY <1>1, ChangesAre
<1>3. \A i \in 1..n : tot[i] \in Nat
  BY DEF Timeline
<1>4. PICK w : w = [i \in DOMAIN Changes(s) |-> Abs(Changes(s)[i].delta)]
  OBVIOUS
<1>5. w = [i \in 1..k |-> Abs(tot[i + 1] - tot[i])]
  BY <1>2, <1>4
<1>6. \A i \in 1..k : w[i] \in Nat /\ w[i] = Abs(tot[i + 1] - tot[i])
  <2>1. ASSUME NEW i \in 1..k PROVE w[i] \in Nat /\ w[i] = Abs(tot[i + 1] - tot[i])
    <3>1. w[i] = Abs(tot[i + 1] - tot[i]) /\ tot[i + 1] \in Int /\ tot[i] \in Int
      BY <1>2, <1>3, <1>5
    <3> QED BY <3>1 DEF Abs
  <2> QED BY <2>1
<1>7. Len(w) = k
  BY <1>2, <1>5
<1>8. PICK r \in 0..k : IF r = 0 THEN Kept(s, w) = NoDelta /\ \A i \in 1..k : w[i] <= 0
           ELSE /\ Kept(s, w) # NoDelta /\ Kept(s, w).delta = tot[r + 1] - tot[r]
                /\ w[r] > 0 /\ \A i \in 1..k : w[i] <= w[r]
  <2>1. Len(w) = Steps(s)
    BY <1>1, <1>7
  <2>2. \A i \in 1..Steps(s) : w[i] \in Int
    BY <1>1, <1>6
  <2>3. \E r \in 0..Steps(s) :
           IF r = 0 THEN Kept(s, w) = NoDelta /\ \A i \in 1..Steps(s) : w[i] <= 0
           ELSE /\ Kept(s, w) # NoDelta /\ Kept(s, w).delta = tot[r + 1] - tot[r]
                /\ w[r] > 0 /\ \A i \in 1..Steps(s) : w[i] <= w[r]
    BY <2>1, <2>2, KeptIs
  <2> QED BY <1>1, <2>3
<1>9. LargestMove(s) = Kept(s, w)
  BY <1>4 DEF LargestMove
<1>10. PICK x : x = LargestMove(s)
  OBVIOUS
<1>11. CASE r = 0
  <2>1. x = NoDelta /\ MoveSize(x) = 0
    BY <1>8, <1>9, <1>10, <1>11 DEF MoveSize
  <2>2. \A i \in 1..k : Abs(tot[i + 1] - tot[i]) <= 0
    BY <1>6, <1>8, <1>11
  <2> QED BY <1>1, <1>10, <2>1, <2>2
<1>12. CASE r # 0
  <2>1. x # NoDelta /\ x.delta = tot[r + 1] - tot[r] /\ r \in 1..k
    BY <1>2, <1>8, <1>9, <1>10, <1>12
  <2>2. MoveSize(x) = w[r] /\ w[r] \in Nat /\ w[r] # 0
    BY <1>6, <1>8, <1>12, <2>1 DEF MoveSize
  <2>3. \A i \in 1..k : Abs(tot[i + 1] - tot[i]) <= MoveSize(x)
    BY <1>6, <1>8, <1>12, <2>2
  <2> QED BY <1>1, <1>10, <2>1, <2>2, <2>3
<1> QED BY <1>11, <1>12

\* The steps in one direction of a symbol's timeline.
Furthest(s, sign) == Kept(s, [i \in DOMAIN Changes(s) |-> sign * Changes(s)[i].delta])

\* It bounds the steps in that direction, and is one of them.
LEMMA FurthestIs ==
  ASSUME NEW s \in Tickers, NEW n, NEW day, NEW tot, NEW act, Timeline(s, n, day, tot, act),
         NEW sign \in Int
  PROVE  IF Furthest(s, sign) = NoDelta THEN \A i \in 1..Steps(s) : sign * (tot[i + 1] - tot[i]) <= 0
         ELSE /\ Furthest(s, sign).delta \in Int /\ sign * Furthest(s, sign).delta > 0
              /\ \A i \in 1..Steps(s) : sign * (tot[i + 1] - tot[i]) <= sign * Furthest(s, sign).delta
              /\ \E r \in 1..Steps(s) : Furthest(s, sign).delta = tot[r + 1] - tot[r]
<1>1. PICK k : k = Steps(s)
  OBVIOUS
<1>2. /\ k \in Nat /\ DOMAIN Changes(s) = 1..k
      /\ \A i \in 1..k : i \in 1..n /\ i + 1 \in 1..n /\ Changes(s)[i].delta = tot[i + 1] - tot[i]
  BY <1>1, ChangesAre
<1>3. \A i \in 1..k : tot[i + 1] - tot[i] \in Int
  <2>1. \A i \in 1..n : tot[i] \in Nat
    BY DEF Timeline
  <2> QED BY <1>2, <2>1
<1>4. PICK w : w = [i \in DOMAIN Changes(s) |-> sign * Changes(s)[i].delta]
  OBVIOUS
<1>5. w = [i \in 1..k |-> sign * (tot[i + 1] - tot[i])]
  BY <1>2, <1>4
<1>6. \A i \in 1..k : w[i] \in Int /\ w[i] = sign * (tot[i + 1] - tot[i])
  BY <1>3, <1>5
<1>7. Len(w) = k
  BY <1>2, <1>5
<1>8. PICK r \in 0..k : IF r = 0 THEN Kept(s, w) = NoDelta /\ \A i \in 1..k : w[i] <= 0
           ELSE /\ Kept(s, w) # NoDelta /\ Kept(s, w).delta = tot[r + 1] - tot[r]
                /\ w[r] > 0 /\ \A i \in 1..k : w[i] <= w[r]
  <2>1. Len(w) = Steps(s)
    BY <1>1, <1>7
  <2>2. \A i \in 1..Steps(s) : w[i] \in Int
    BY <1>1, <1>6
  <2>3. \E r \in 0..Steps(s) :
           IF r = 0 THEN Kept(s, w) = NoDelta /\ \A i \in 1..Steps(s) : w[i] <= 0
           ELSE /\ Kept(s, w) # NoDelta /\ Kept(s, w).delta = tot[r + 1] - tot[r]
                /\ w[r] > 0 /\ \A i \in 1..Steps(s) : w[i] <= w[r]
    BY <2>1, <2>2, KeptIs
  <2> QED BY <1>1, <2>3
<1>9. PICK x : x = Furthest(s, sign)
  OBVIOUS
<1>10. x = Kept(s, w)
  BY <1>4, <1>9 DEF Furthest
<1>11. CASE r = 0
  <2>1. x = NoDelta /\ \A i \in 1..k : sign * (tot[i + 1] - tot[i]) <= 0
    BY <1>6, <1>8, <1>10, <1>11
  <2> QED BY <1>1, <1>9, <2>1
<1>12. CASE r # 0
  <2>1. x # NoDelta /\ x.delta = tot[r + 1] - tot[r] /\ r \in 1..k
    BY <1>2, <1>8, <1>10, <1>12
  <2>2. w[r] = sign * x.delta /\ x.delta \in Int
    BY <1>3, <1>6, <2>1
  <2>3. /\ sign * x.delta > 0
        /\ \A i \in 1..k : sign * (tot[i + 1] - tot[i]) <= sign * x.delta
    BY <1>6, <1>8, <1>12, <2>2
  <2> QED BY <1>1, <1>9, <2>1, <2>2, <2>3
<1> QED BY <1>11, <1>12

-----------------------------------------------------------------------------
(* The report agrees with itself *)

\* What the summary says.
LEMMA SummaryIs ==
  ASSUME NEW s \in Tickers, NEW n, NEW day, NEW tot, NEW act, Timeline(s, n, day, tot, act)
  PROVE  /\ Summary(s).score_change = IF n >= 2 THEN tot[n] - tot[1] ELSE NoDelta
         /\ Summary(s).action_changed = (n > 0 /\ act[1] # act[n])
         /\ Summary(s).largest = LargestMove(s)
         /\ n = 0 => Summary(s).span = 0
         /\ n > 0 => \E lo, hi \in 1..n : /\ Summary(s).span = tot[hi] - tot[lo]
                                          /\ \A i \in 1..n : tot[lo] <= tot[i] /\ tot[i] <= tot[hi]
<1>1. PICK ps : ps = Points(s)
  OBVIOUS
<1>2. /\ n \in Nat /\ DOMAIN ps = 1..n /\ Len(ps) = n
      /\ \A i \in 1..n : ps[i].rec.total = tot[i] /\ ps[i].rec.action = act[i] /\ tot[i] \in Nat
  BY <1>1 DEF Timeline
<1>3. PICK Scores : Scores = {ps[i].rec.total : i \in DOMAIN ps}
  OBVIOUS
<1>4. PICK m : m = LargestMove(s)
  OBVIOUS
<1>5. PICK sp : sp = IF Len(ps) = 0 THEN 0 ELSE Max(Scores) - Min(Scores)
  OBVIOUS
<1>6. Summary(s) = [point_count |-> Len(ps),
        score_change |-> IF Len(ps) >= 2 THEN ps[Len(ps)].rec.total - ps[1].rec.total ELSE NoDelta,
        action_changed |-> Len(ps) > 0 /\ ps[1].rec.action # ps[Len(ps)].rec.action,
        span |-> sp, largest |-> m]
  BY <1>1, <1>3, <1>4, <1>5 DEF Summary
<1>7. /\ Summary(s).score_change = IF n >= 2 THEN ps[n].rec.total - ps[1].rec.total ELSE NoDelta
      /\ Summary(s).action_changed = (n > 0 /\ ps[1].rec.action # ps[n].rec.action)
      /\ Summary(s).span = sp /\ Summary(s).largest = m
  BY <1>2, <1>6
<1>8. n > 0 => ps[n].rec.total = tot[n] /\ ps[1].rec.total = tot[1] /\ ps[n].rec.action = act[n] /\ ps[1].rec.action = act[1]
  BY <1>2
<1>9. Summary(s).score_change = IF n >= 2 THEN tot[n] - tot[1] ELSE NoDelta
  BY <1>2, <1>7, <1>8
<1>10. Summary(s).action_changed = (n > 0 /\ act[1] # act[n])
  BY <1>2, <1>7, <1>8
<1>11. ASSUME n > 0
       PROVE  \E lo, hi \in 1..n : /\ sp = tot[hi] - tot[lo]
                                   /\ \A i \in 1..n : tot[lo] <= tot[i] /\ tot[i] <= tot[hi]
  <2>1. PICK T : T = 1..n
    OBVIOUS
  <2>2. IsFiniteSet(T) /\ T # {}
    <3>1. 1 \in T
      BY <1>2, <1>11, <2>1
    <3>2. IsFiniteSet(1..n)
      BY <1>2, FS_Interval
    <3> QED BY <2>1, <3>1, <3>2
  <2>3. PICK f : f = [i \in T |-> 0 - tot[i]]
    OBVIOUS
  <2>4. \A i \in T : tot[i] \in Int /\ f[i] \in Int /\ f[i] = 0 - tot[i]
    BY <1>2, <2>1, <2>3
  <2>5. PICK lo \in T : \A i \in T : tot[lo] <= tot[i]
    <3>1. \A i \in T : tot[i] \in Int
      BY <2>4
    <3> QED BY <2>2, <3>1, LeastOf
  <2>6. PICK hi \in T : \A i \in T : f[hi] <= f[i]
    <3>1. \A i \in T : f[i] \in Int
      BY <2>4
    <3> QED BY <2>2, <3>1, LeastOf
  <2>7. \A i \in T : tot[i] <= tot[hi]
    BY <2>4, <2>6
  <2>8. Scores \in SUBSET Int /\ tot[lo] \in Scores /\ tot[hi] \in Scores
    BY <1>2, <1>3, <2>1, <2>5, <2>6
  <2>9. \A y \in Scores : \E i \in T : y = tot[i]
    BY <1>2, <1>3, <2>1
  <2>10. \A y \in Scores : tot[lo] <= y /\ y <= tot[hi]
    BY <2>5, <2>7, <2>9
  <2>11. PICK a, b : a = tot[lo] /\ b = tot[hi]
    OBVIOUS
  <2>12. Max(Scores) = b
    <3>1. b \in Scores /\ \A y \in Scores : y <= b
      BY <2>8, <2>10, <2>11
    <3> QED BY <2>8, <3>1, MaxIs
  <2>13. Min(Scores) = a
    <3>1. a \in Scores /\ \A y \in Scores : a <= y
      BY <2>8, <2>10, <2>11
    <3> QED BY <2>8, <3>1, MinIs
  <2>14. sp = b - a
    BY <1>2, <1>5, <1>11, <2>12, <2>13
  <2> QED BY <2>1, <2>5, <2>7, <2>11, <2>14
<1>12. n = 0 => sp = 0
  BY <1>2, <1>5
<1> QED BY <1>4, <1>7, <1>9, <1>10, <1>11, <1>12

\* The steps lead from the first to the last score.
LEMMA StepsAdd ==
  ASSUME ReportInv
  PROVE  StepsAddUp
<1> SUFFICES ASSUME NEW s \in Tickers
             PROVE  /\ \A i \in DOMAIN Changes(s) : Changes(s)[i].from < Changes(s)[i].to
                    /\ Summary(s).score_change # NoDelta =>
                         Summary(s).score_change = SumFunction([i \in DOMAIN Changes(s) |-> Changes(s)[i].delta])
                    /\ Summary(s).action_changed => \E i \in DOMAIN Changes(s) : Changes(s)[i].action_changed
  BY DEF StepsAddUp
<1>1. PICK n, day, tot, act : Timeline(s, n, day, tot, act)
  BY PointsAre
<1>2. PICK k : k = Steps(s)
  OBVIOUS
<1>3. /\ k \in Nat /\ k = (IF n = 0 THEN 0 ELSE n - 1) /\ DOMAIN Changes(s) = 1..k
      /\ \A i \in 1..k : /\ i \in 1..n /\ i + 1 \in 1..n
                         /\ Changes(s)[i].from = day[i] /\ Changes(s)[i].to = day[i + 1]
                         /\ Changes(s)[i].delta = tot[i + 1] - tot[i]
                         /\ Changes(s)[i].action_changed = (act[i] # act[i + 1])
  BY <1>1, <1>2, ChangesAre
<1>4. /\ n \in Nat /\ \A i \in 1..n : tot[i] \in Int
      /\ \A i, j \in 1..n : i < j => day[i] < day[j]
  BY <1>1 DEF Timeline
<1>5. \A i \in 1..k : Changes(s)[i].from < Changes(s)[i].to
  BY <1>3, <1>4
<1>6. ASSUME Summary(s).score_change # NoDelta
      PROVE  Summary(s).score_change = SumFunction([i \in DOMAIN Changes(s) |-> Changes(s)[i].delta])
  <2>1. n >= 2 /\ Summary(s).score_change = tot[n] - tot[1]
    BY <1>1, <1>6, SummaryIs
  <2>2. k + 1 = n
    BY <1>3, <1>4, <2>1
  <2>3. PICK f : f = [i \in DOMAIN Changes(s) |-> Changes(s)[i].delta]
    OBVIOUS
  <2>4. DOMAIN f = 1..k /\ \A i \in 1..k : f[i] = tot[i + 1] - tot[i]
    BY <1>3, <2>3
  <2>5. SumFunction(f) = SumOver(f, 1..k)
    BY <2>4 DEF SumFunction, SumOver
  <2>6. SumOver(f, 1..k) = tot[k + 1] - tot[1]
    <3>1. \A i \in 1..(k + 1) : tot[i] \in Int
      BY <1>4, <2>2
    <3>2. \A i \in 1..k : f[i] = tot[i + 1] - tot[i]
      BY <2>4
    <3> QED BY <1>3, <3>1, <3>2, Telescope
  <2> QED BY <2>1, <2>2, <2>3, <2>5, <2>6
<1>7. ASSUME Summary(s).action_changed
      PROVE  \E i \in DOMAIN Changes(s) : Changes(s)[i].action_changed
  <2>1. Summary(s).action_changed = (n > 0 /\ act[1] # act[n])
    BY <1>1, SummaryIs
  <2>2. n > 0 /\ act[1] # act[n]
    BY <1>7, <2>1
  <2>3. PICK i \in 1..n : i + 1 \in 1..n /\ act[i] # act[i + 1]
    BY <1>4, <2>2, SomeStep
  <2>4. i \in 1..k
    BY <1>3, <1>4, <2>2, <2>3
  <2> QED BY <1>3, <2>3, <2>4
<1> QED BY <1>3, <1>5, <1>6, <1>7

\* More of something is not less.
LEMMA MoreTimes ==
  ASSUME NEW p \in Nat, NEW q \in Nat, p <= q, NEW c \in Nat
  PROVE  p * c <= q * c /\ p * c \in Int /\ q * c \in Int
<1>1. PICK d \in Nat : q = p + d
  <2>1. q - p \in Nat /\ q = p + (q - p)
    OBVIOUS
  <2> QED BY <2>1
<1>2. (p + d) * c = p * c + d * c /\ d * c >= 0 /\ p * c \in Int /\ d * c \in Int
  OBVIOUS
<1> QED BY <1>1, <1>2

\* Scores are no further apart than their largest step for each step between.
LEMMA Apart ==
  ASSUME NEW n \in Nat, NEW t, \A i \in 1..n : t[i] \in Int, NEW c \in Nat,
         \A i \in 1..n : i + 1 \in 1..n => Abs(t[i + 1] - t[i]) <= c,
         NEW i \in 1..n, NEW j \in 1..n
  PROVE  t[j] - t[i] <= (n - 1) * c
<1>1. ASSUME NEW m \in 1..n, m + 1 \in 1..n
      PROVE  t[m + 1] - t[m] <= c /\ (0 - t[m + 1]) - (0 - t[m]) <= c
  <2>1. t[m] \in Int /\ t[m + 1] \in Int /\ Abs(t[m + 1] - t[m]) <= c
    BY <1>1
  <2> QED BY <2>1 DEF Abs
<1>2. CASE i <= j
  <2>1. \A m \in 1..n : m + 1 \in 1..n => t[m + 1] - t[m] <= c
    BY <1>1
  <2>2. PICK p \in Nat : p = j - i /\ t[j] - t[i] <= p * c
    <3>1. c \in Int
      OBVIOUS
    <3> QED BY <1>2, <2>1, <3>1, Climb
  <2>3. PICK q : q = n - 1
    OBVIOUS
  <2>4. p \in Nat /\ q \in Nat /\ p <= q
    BY <1>2, <2>2, <2>3
  <2>5. p * c <= q * c /\ p * c \in Int /\ q * c \in Int
    BY <2>4, MoreTimes
  <2>6. t[i] \in Int /\ t[j] \in Int /\ t[j] - t[i] <= p * c
    BY <2>2, <2>3
  <2>7. t[j] - t[i] <= q * c
    BY <2>5, <2>6
  <2> QED BY <2>3, <2>7
<1>3. CASE ~ (i <= j)
  <2>1. PICK u : u = [m \in 1..n |-> 0 - t[m]]
    OBVIOUS
  <2>2. \A m \in 1..n : u[m] = 0 - t[m] /\ u[m] \in Int
    BY <2>1
  <2>3. \A m \in 1..n : m + 1 \in 1..n => u[m + 1] - u[m] <= c
    BY <1>1, <2>2
  <2>4. j <= i
    BY <1>3
  <2>5. PICK p \in Nat : p = i - j /\ u[i] - u[j] <= p * c
    <3>1. \A m \in 1..n : u[m] \in Int
      BY <2>2
    <3>2. c \in Int
      OBVIOUS
    <3> QED BY <2>3, <2>4, <3>1, <3>2, Climb
  <2>6. PICK q : q = n - 1
    OBVIOUS
  <2>7. p \in Nat /\ q \in Nat /\ p <= q
    BY <1>3, <2>5, <2>6
  <2>8. p * c <= q * c /\ p * c \in Int /\ q * c \in Int
    BY <2>7, MoreTimes
  <2>9. t[i] \in Int /\ t[j] \in Int /\ (0 - t[i]) - (0 - t[j]) <= p * c
    BY <2>2, <2>5
  <2>10. t[j] - t[i] <= q * c
    BY <2>8, <2>9
  <2> QED BY <2>6, <2>10
<1> QED BY <1>2, <1>3

\* The largest move bounds the steps, and they bound the range of scores.
LEMMA LargestBound ==
  ASSUME ReportInv
  PROVE  LargestBounds
<1> SUFFICES ASSUME NEW s \in Tickers
             PROVE  LET ch == Changes(s)  sum == Summary(s) IN
                    IF sum.largest = NoDelta THEN sum.span = 0
                    ELSE /\ \A i \in DOMAIN ch : Abs(ch[i].delta) <= Abs(sum.largest.delta)
                         /\ Abs(sum.largest.delta) <= sum.span
                         /\ sum.span <= Len(ch) * Abs(sum.largest.delta)
  BY DEF LargestBounds
<1>1. PICK n, day, tot, act : Timeline(s, n, day, tot, act)
  BY PointsAre
<1>2. PICK k : k = Steps(s)
  OBVIOUS
<1>3. /\ k \in Nat /\ k = (IF n = 0 THEN 0 ELSE n - 1) /\ DOMAIN Changes(s) = 1..k /\ Len(Changes(s)) = k
      /\ \A i \in 1..k : i \in 1..n /\ i + 1 \in 1..n /\ Changes(s)[i].delta = tot[i + 1] - tot[i]
  BY <1>1, <1>2, ChangesAre
<1>4. n \in Nat /\ \A i \in 1..n : tot[i] \in Int
  BY <1>1 DEF Timeline
<1>5. PICK m, c, sp : m = LargestMove(s) /\ c = MoveSize(m) /\ sp = Summary(s).span
  OBVIOUS
<1>6. /\ c \in Nat /\ (m = NoDelta <=> c = 0)
      /\ \A i \in 1..k : Abs(tot[i + 1] - tot[i]) <= c
      /\ m # NoDelta => \E r \in 1..k : m.delta = tot[r + 1] - tot[r]
  BY <1>1, <1>2, <1>5, LargestIs
<1>7. /\ Summary(s).largest = m
      /\ n = 0 => sp = 0
      /\ n > 0 => \E lo, hi \in 1..n : /\ sp = tot[hi] - tot[lo]
                                       /\ \A i \in 1..n : tot[lo] <= tot[i] /\ tot[i] <= tot[hi]
  BY <1>1, <1>5, SummaryIs
<1>8. ASSUME n > 0 PROVE sp \in Nat /\ sp <= k * c
  <2>1. PICK lo \in 1..n, hi \in 1..n : /\ sp = tot[hi] - tot[lo]
                                        /\ \A i \in 1..n : tot[lo] <= tot[i] /\ tot[i] <= tot[hi]
    BY <1>7, <1>8
  <2>2. \A i \in 1..n : i + 1 \in 1..n => Abs(tot[i + 1] - tot[i]) <= c
    <3>1. \A i \in 1..n : i + 1 \in 1..n => i \in 1..k
      BY <1>3, <1>4, <1>8
    <3> QED BY <1>6, <3>1
  <2>3. tot[hi] - tot[lo] <= (n - 1) * c
    BY <1>4, <1>6, <2>2, Apart
  <2>4. n - 1 = k
    BY <1>3, <1>8
  <2>5. tot[hi] \in Int /\ tot[lo] \in Int /\ tot[lo] <= tot[hi]
    BY <1>4, <2>1
  <2> QED BY <2>1, <2>3, <2>4, <2>5
<1>9. CASE m = NoDelta
  <2>1. sp = 0
    <3>1. CASE n = 0
      BY <1>7, <3>1
    <3>2. CASE n # 0
      <4>1. c = 0 /\ k * c = 0
        BY <1>3, <1>6, <1>9
      <4> QED BY <1>4, <1>8, <3>2, <4>1
    <3> QED BY <3>1, <3>2
  <2> QED BY <1>5, <1>7, <1>9, <2>1
<1>10. CASE m # NoDelta
  <2>1. c = Abs(m.delta)
    BY <1>5, <1>10 DEF MoveSize
  <2>2. PICK r \in 1..k : m.delta = tot[r + 1] - tot[r]
    BY <1>6, <1>10
  <2>3. n > 0 /\ r \in 1..n /\ r + 1 \in 1..n
    BY <1>3, <1>4, <2>2
  <2>4. PICK lo \in 1..n, hi \in 1..n : /\ sp = tot[hi] - tot[lo]
                                        /\ \A i \in 1..n : tot[lo] <= tot[i] /\ tot[i] <= tot[hi]
    BY <1>7, <2>3
  <2>5. c <= sp
    <3>1. /\ tot[r] \in Int /\ tot[r + 1] \in Int /\ tot[lo] \in Int /\ tot[hi] \in Int
          /\ tot[lo] <= tot[r] /\ tot[r] <= tot[hi] /\ tot[lo] <= tot[r + 1] /\ tot[r + 1] <= tot[hi]
      BY <1>4, <2>3, <2>4
    <3> QED BY <2>1, <2>2, <2>4, <3>1 DEF Abs
  <2>6. \A i \in 1..k : Abs(Changes(s)[i].delta) <= c
    BY <1>3, <1>6
  <2>7. sp <= k * c
    BY <1>8, <2>3
  <2>8. /\ \A i \in DOMAIN Changes(s) : Abs(Changes(s)[i].delta) <= Abs(Summary(s).largest.delta)
        /\ Abs(Summary(s).largest.delta) <= sp
        /\ sp <= Len(Changes(s)) * Abs(Summary(s).largest.delta)
    <3>1. Abs(Summary(s).largest.delta) = c
      BY <1>7, <2>1
    <3> QED BY <1>3, <2>5, <2>6, <2>7, <3>1
  <2> QED BY <1>5, <1>7, <1>10, <2>8
<1> QED BY <1>9, <1>10

\* The largest move of a timeline, of its changes.
LEMMA LargestOfChanges ==
  ASSUME ReportInv, NEW s \in Tickers
  PROVE  /\ MoveSize(LargestMove(s)) \in Nat
         /\ \A i \in 1..Steps(s) : /\ Changes(s)[i].delta \in Int
                                   /\ Abs(Changes(s)[i].delta) <= MoveSize(LargestMove(s))
         /\ MoveSize(LargestMove(s)) # 0 =>
              \E r \in 1..Steps(s) : MoveSize(LargestMove(s)) = Abs(Changes(s)[r].delta)
<1>1. PICK n, day, tot, act : Timeline(s, n, day, tot, act)
  BY PointsAre
<1>2. PICK k, m, c : k = Steps(s) /\ m = LargestMove(s) /\ c = MoveSize(m)
  OBVIOUS
<1>3. \A i \in 1..k : i \in 1..n /\ i + 1 \in 1..n /\ Changes(s)[i].delta = tot[i + 1] - tot[i]
  BY <1>1, <1>2, ChangesAre
<1>4. \A i \in 1..n : tot[i] \in Int
  BY <1>1 DEF Timeline
<1>5. /\ c \in Nat /\ (m = NoDelta <=> c = 0)
      /\ \A i \in 1..k : Abs(tot[i + 1] - tot[i]) <= c
      /\ m # NoDelta => \E r \in 1..k : m.delta = tot[r + 1] - tot[r]
  BY <1>1, <1>2, LargestIs
<1>6. \A i \in 1..k : Changes(s)[i].delta \in Int /\ Abs(Changes(s)[i].delta) <= c
  BY <1>3, <1>4, <1>5
<1>7. ASSUME c # 0 PROVE \E r \in 1..k : c = Abs(Changes(s)[r].delta)
  <2>1. m # NoDelta /\ c = Abs(m.delta)
    BY <1>2, <1>5, <1>7 DEF MoveSize
  <2>2. PICK r \in 1..k : m.delta = tot[r + 1] - tot[r]
    BY <1>5, <2>1
  <2>3. m.delta = Changes(s)[r].delta
    BY <1>3, <2>2
  <2> QED BY <2>1, <2>3
<1> QED BY <1>2, <1>5, <1>6, <1>7

\* The largest step of a timeline in one direction, of its changes.
LEMMA StepOfChanges ==
  ASSUME ReportInv, NEW s \in Tickers, NEW sign \in Int
  PROVE  IF Furthest(s, sign) = NoDelta THEN \A i \in 1..Steps(s) : sign * Changes(s)[i].delta <= 0
         ELSE /\ Furthest(s, sign).delta \in Int /\ sign * Furthest(s, sign).delta > 0
              /\ \A i \in 1..Steps(s) : sign * Changes(s)[i].delta <= sign * Furthest(s, sign).delta
              /\ \E r \in 1..Steps(s) : Furthest(s, sign).delta = Changes(s)[r].delta
<1>1. PICK n, day, tot, act : Timeline(s, n, day, tot, act)
  BY PointsAre
<1>2. PICK k, m : k = Steps(s) /\ m = Furthest(s, sign)
  OBVIOUS
<1>3. \A i \in 1..k : Changes(s)[i].delta = tot[i + 1] - tot[i]
  BY <1>1, <1>2, ChangesAre
<1>4. IF m = NoDelta THEN \A i \in 1..k : sign * (tot[i + 1] - tot[i]) <= 0
      ELSE /\ m.delta \in Int /\ sign * m.delta > 0
           /\ \A i \in 1..k : sign * (tot[i + 1] - tot[i]) <= sign * m.delta
           /\ \E r \in 1..k : m.delta = tot[r + 1] - tot[r]
  BY <1>1, <1>2, FurthestIs
<1>5. CASE m = NoDelta
  <2>1. \A i \in 1..k : sign * Changes(s)[i].delta <= 0
    BY <1>3, <1>4, <1>5
  <2> QED BY <1>2, <1>5, <2>1
<1>6. CASE m # NoDelta
  <2>1. m.delta \in Int /\ sign * m.delta > 0
    BY <1>4, <1>6
  <2>2. \A i \in 1..k : sign * Changes(s)[i].delta <= sign * m.delta
    BY <1>3, <1>4, <1>6
  <2>3. \E r \in 1..k : m.delta = Changes(s)[r].delta
    BY <1>3, <1>4, <1>6
  <2> QED BY <1>2, <1>6, <2>1, <2>2, <2>3
<1> QED BY <1>5, <1>6

\* A highlight is the largest step, in its direction, of the symbols that have one.
LEMMA ExtremeIs ==
  ASSUME ReportInv, NEW sign \in Int
  PROVE  IF Extreme(sign) = NoDelta THEN \A s \in Tickers : Furthest(s, sign) = NoDelta
         ELSE /\ \E t \in Tickers : Extreme(sign) = Furthest(t, sign)
              /\ \A s \in Tickers : \/ Furthest(s, sign) = NoDelta
                                    \/ sign * Furthest(s, sign).delta <= sign * Extreme(sign).delta
<1>1. PICK T, size : T = {s \in Tickers : DOMAIN made[s] # {}} /\ size = Cardinality(T)
  OBVIOUS
<1>2. T \subseteq Tickers /\ T \subseteq Int /\ IsFiniteSet(T)
  <2>1. T \subseteq Tickers
    BY <1>1
  <2> QED BY <2>1, CalendarTyped, FS_Subset
<1>3. size \in Nat
  BY <1>1, <1>2, FS_CardinalityType
<1>4. \A i \in 1..size : Nth(T, i) \in T
  BY <1>1, <1>2, NthIs
<1>5. PICK steps : steps = [i \in 1..size |-> Furthest(Nth(T, i), sign)]
  OBVIOUS
<1>6. PICK w : w = [i \in DOMAIN steps |-> IF steps[i] = NoDelta THEN 0 ELSE sign * steps[i].delta]
  OBVIOUS
<1>7. PICK r : r = FirstLargest(w)
  OBVIOUS
<1>8. Extreme(sign) = IF r = 0 THEN NoDelta ELSE steps[r]
  BY <1>1, <1>5, <1>6, <1>7 DEF Extreme, Furthest
<1>9. DOMAIN steps = 1..size /\ \A i \in 1..size : steps[i] = Furthest(Nth(T, i), sign)
  BY <1>5
<1>10. \A i \in 1..size : steps[i] # NoDelta => steps[i].delta \in Int /\ sign * steps[i].delta > 0
  <2> SUFFICES ASSUME NEW i \in 1..size, steps[i] # NoDelta
               PROVE  steps[i].delta \in Int /\ sign * steps[i].delta > 0
    OBVIOUS
  <2>1. PICK t : t = Nth(T, i)
    OBVIOUS
  <2>2. t \in Tickers /\ steps[i] = Furthest(t, sign)
    BY <1>2, <1>4, <1>9, <2>1
  <2> QED BY <2>2, StepOfChanges
<1>11. w = [i \in 1..size |-> IF steps[i] = NoDelta THEN 0 ELSE sign * steps[i].delta]
  BY <1>6, <1>9
<1>12. \A i \in 1..size : w[i] \in Int /\ w[i] = IF steps[i] = NoDelta THEN 0 ELSE sign * steps[i].delta
  BY <1>10, <1>11
<1>13. Len(w) = size
  BY <1>3, <1>11
<1>14. r \in 0..size /\ IF r = 0 THEN \A i \in 1..size : w[i] <= 0 ELSE w[r] > 0 /\ \A i \in 1..size : w[i] <= w[r]
  <2>1. \A i \in 1..size : w[i] \in Int
    BY <1>12
  <2> QED BY <1>3, <1>7, <1>13, <2>1, FirstLargestIs
<1>15. \A s \in Tickers : Furthest(s, sign) = NoDelta \/ \E i \in 1..size : steps[i] = Furthest(s, sign)
  <2> SUFFICES ASSUME NEW s \in Tickers, Furthest(s, sign) # NoDelta
               PROVE  \E i \in 1..size : steps[i] = Furthest(s, sign)
    OBVIOUS
  <2>1. PICK x \in 1..Steps(s) : TRUE
    BY StepOfChanges
  <2>2. DOMAIN made[s] # {}
    <3> SUFFICES ASSUME DOMAIN made[s] = {} PROVE FALSE
      OBVIOUS
    <3>1. Steps(s) = 0
      BY DEF Steps
    <3> QED BY <2>1, <3>1
  <2>3. s \in T
    BY <1>1, <2>2
  <2>4. PICK i \in 1..Cardinality(T) : Nth(T, i) = s
    BY <1>2, <2>3, NthAll
  <2> QED BY <1>1, <1>9, <2>4
<1>16. PICK x : x = Extreme(sign)
  OBVIOUS
<1>17. CASE r = 0
  <2>1. x = NoDelta
    BY <1>8, <1>16, <1>17
  <2>2. \A i \in 1..size : steps[i] = NoDelta
    BY <1>10, <1>12, <1>14, <1>17
  <2>3. \A s \in Tickers : Furthest(s, sign) = NoDelta
    BY <1>15, <2>2
  <2> QED BY <1>16, <2>1, <2>3
<1>18. CASE r # 0
  <2>1. r \in 1..size /\ x = steps[r]
    BY <1>3, <1>8, <1>14, <1>16, <1>18
  <2>2. x # NoDelta /\ w[r] = sign * x.delta
    BY <1>12, <1>14, <1>18, <2>1
  <2>3. \A i \in 1..size : steps[i] = NoDelta \/ sign * steps[i].delta <= sign * x.delta
    BY <1>12, <1>14, <1>18, <2>2
  <2>4. \E t \in Tickers : x = Furthest(t, sign)
    BY <1>2, <1>4, <1>9, <2>1
  <2>5. \A s \in Tickers : Furthest(s, sign) = NoDelta \/ sign * Furthest(s, sign).delta <= sign * x.delta
    BY <1>15, <2>3
  <2> QED BY <1>16, <2>2, <2>4, <2>5
<1> QED BY <1>17, <1>18

\* It bounds the steps of all timelines, and is one of them.
LEMMA ExtremeOfChanges ==
  ASSUME ReportInv, NEW sign \in Int
  PROVE  IF Extreme(sign) = NoDelta
         THEN \A s \in Tickers : \A i \in 1..Steps(s) : sign * Changes(s)[i].delta <= 0
         ELSE /\ Extreme(sign).delta \in Int /\ sign * Extreme(sign).delta > 0
              /\ \A s \in Tickers : \A i \in 1..Steps(s) : sign * Changes(s)[i].delta <= sign * Extreme(sign).delta
              /\ \E t \in Tickers : \E r \in 1..Steps(t) : Extreme(sign).delta = Changes(t)[r].delta
<1>1. PICK x : x = Extreme(sign)
  OBVIOUS
<1>2. IF x = NoDelta THEN \A s \in Tickers : Furthest(s, sign) = NoDelta
      ELSE /\ \E t \in Tickers : x = Furthest(t, sign)
           /\ \A s \in Tickers : \/ Furthest(s, sign) = NoDelta
                                 \/ sign * Furthest(s, sign).delta <= sign * x.delta
  BY <1>1, ExtremeIs
<1>3. CASE x = NoDelta
  <2>1. \A s \in Tickers : \A i \in 1..Steps(s) : sign * Changes(s)[i].delta <= 0
    BY <1>2, <1>3, StepOfChanges
  <2> QED BY <1>1, <1>3, <2>1
<1>4. CASE x # NoDelta
  <2>1. PICK t \in Tickers : x = Furthest(t, sign)
    BY <1>2, <1>4
  <2>2. x.delta \in Int /\ sign * x.delta > 0 /\ \E r \in 1..Steps(t) : x.delta = Changes(t)[r].delta
    BY <1>4, <2>1, StepOfChanges
  <2>3. ASSUME NEW s \in Tickers, NEW i \in 1..Steps(s)
        PROVE  sign * Changes(s)[i].delta <= sign * x.delta
    <3>1. PICK y, e : y = Furthest(s, sign) /\ e = Changes(s)[i].delta
      OBVIOUS
    <3>2. IF y = NoDelta THEN sign * e <= 0 ELSE y.delta \in Int /\ sign * e <= sign * y.delta
      BY <3>1, StepOfChanges
    <3>3. e \in Int
      BY <3>1, LargestOfChanges
    <3>4. y = NoDelta \/ sign * y.delta <= sign * x.delta
      BY <1>2, <1>4, <3>1
    <3>5. PICK p, q : p = sign * e /\ q = sign * x.delta
      OBVIOUS
    <3>6. p \in Int /\ q \in Int /\ q > 0
      BY <2>2, <3>3, <3>5
    <3>7. CASE y = NoDelta
      BY <3>1, <3>2, <3>5, <3>6, <3>7
    <3>8. CASE y # NoDelta
      <4>1. PICK z : z = sign * y.delta
        OBVIOUS
      <4>2. z \in Int /\ p <= z /\ z <= q
        BY <3>2, <3>4, <3>5, <3>8, <4>1
      <4> QED BY <3>1, <3>5, <3>6, <4>2
    <3> QED BY <3>7, <3>8
  <2> QED BY <1>1, <1>4, <2>2, <2>3
<1> QED BY <1>3, <1>4

\* How large the drop and the jump are.
LEMMA HighlightIs ==
  ASSUME ReportInv, NEW sign \in {-1, 1}
  PROVE  /\ MoveSize(Extreme(sign)) \in Nat
         /\ Extreme(sign) = NoDelta <=> MoveSize(Extreme(sign)) = 0
         /\ Extreme(sign) # NoDelta => /\ Extreme(sign).delta \in Int
                                       /\ MoveSize(Extreme(sign)) = sign * Extreme(sign).delta
         /\ \A s \in Tickers : \A i \in 1..Steps(s) : sign * Changes(s)[i].delta <= MoveSize(Extreme(sign))
         /\ Extreme(sign) # NoDelta =>
              \E t \in Tickers : \E r \in 1..Steps(t) : MoveSize(Extreme(sign)) = Abs(Changes(t)[r].delta)
<1>1. PICK x, c : x = Extreme(sign) /\ c = MoveSize(x)
  OBVIOUS
<1>2. sign \in Int
  OBVIOUS
<1>3. IF x = NoDelta
      THEN \A s \in Tickers : \A i \in 1..Steps(s) : sign * Changes(s)[i].delta <= 0
      ELSE /\ x.delta \in Int /\ sign * x.delta > 0
           /\ \A s \in Tickers : \A i \in 1..Steps(s) : sign * Changes(s)[i].delta <= sign * x.delta
           /\ \E t \in Tickers : \E r \in 1..Steps(t) : x.delta = Changes(t)[r].delta
  BY <1>1, <1>2, ExtremeOfChanges
<1>4. CASE x = NoDelta
  <2>1. c = 0
    BY <1>1, <1>4 DEF MoveSize
  <2> QED BY <1>1, <1>3, <1>4, <2>1
<1>5. CASE x # NoDelta
  <2>1. x.delta \in Int /\ sign * x.delta > 0
    BY <1>3, <1>5
  <2>2. c = Abs(x.delta)
    BY <1>1, <1>5 DEF MoveSize
  <2>3. PICK e \in Int : e = x.delta /\ sign * e > 0
    BY <2>1
  <2>4. c = sign * e /\ c \in Nat /\ c # 0
    <3>1. CASE sign = 1
      BY <2>2, <2>3, <3>1 DEF Abs
    <3>2. CASE sign = -1
      BY <2>2, <2>3, <3>2 DEF Abs
    <3> QED BY <3>1, <3>2
  <2>5. \A s \in Tickers : \A i \in 1..Steps(s) : sign * Changes(s)[i].delta <= c
    BY <1>3, <1>5, <2>3, <2>4
  <2>6. \E t \in Tickers : \E r \in 1..Steps(t) : c = Abs(Changes(t)[r].delta)
    BY <1>3, <1>5, <2>2
  <2> QED BY <1>1, <1>5, <2>1, <2>3, <2>4, <2>5, <2>6
<1> QED BY <1>4, <1>5

\* The larger of drop and jump is the largest move of any symbol.
LEMMA Highlights ==
  ASSUME ReportInv
  PROVE  HighlightsAgree
<1> DEFINE L == {MoveSize(LargestMove(s)) : s \in Tickers}
<1>1. PICK a, b : a = MoveSize(Drop) /\ b = MoveSize(Jump)
  OBVIOUS
<1>2. /\ a \in Nat
      /\ \A s \in Tickers : \A i \in 1..Steps(s) : (-1) * Changes(s)[i].delta <= a
      /\ a # 0 => \E t \in Tickers : \E r \in 1..Steps(t) : a = Abs(Changes(t)[r].delta)
  BY <1>1, HighlightIs DEF Drop
<1>3. /\ b \in Nat
      /\ \A s \in Tickers : \A i \in 1..Steps(s) : 1 * Changes(s)[i].delta <= b
      /\ b # 0 => \E t \in Tickers : \E r \in 1..Steps(t) : b = Abs(Changes(t)[r].delta)
  BY <1>1, HighlightIs DEF Jump
<1>4. PICK m : m = IF a <= b THEN b ELSE a
  OBVIOUS
<1>5. m \in {a, b} /\ a <= m /\ b <= m /\ m \in Nat
  BY <1>2, <1>3, <1>4
<1>6. Max({a, b}) = m
  <2>1. {a, b} \in SUBSET Int /\ m \in {a, b} /\ \A y \in {a, b} : y <= m
    BY <1>2, <1>3, <1>5
  <2> QED BY <2>1, MaxIs
<1>7. ASSUME NEW s \in Tickers PROVE MoveSize(LargestMove(s)) \in Nat /\ MoveSize(LargestMove(s)) <= m
  <2>1. PICK c : c = MoveSize(LargestMove(s))
    OBVIOUS
  <2>2. /\ c \in Nat
        /\ \A i \in 1..Steps(s) : Changes(s)[i].delta \in Int
        /\ c # 0 => \E r \in 1..Steps(s) : c = Abs(Changes(s)[r].delta)
    BY <2>1, LargestOfChanges
  <2>3. CASE c = 0
    BY <1>5, <2>1, <2>3
  <2>4. CASE c # 0
    <3>1. PICK r \in 1..Steps(s) : c = Abs(Changes(s)[r].delta)
      BY <2>2, <2>4
    <3>2. PICK e \in Int : e = Changes(s)[r].delta
      BY <2>2
    <3>3. (-1) * e <= a /\ 1 * e <= b
      BY <1>2, <1>3, <3>2
    <3>4. c <= m
      BY <1>2, <1>3, <1>5, <3>1, <3>2, <3>3 DEF Abs
    <3> QED BY <2>1, <2>2, <3>4
  <2> QED BY <2>3, <2>4
<1>8. \E s \in Tickers : m <= MoveSize(LargestMove(s))
  <2>1. CASE m = 0
    <3>1. PICK s \in Tickers : TRUE
      BY CalendarTyped
    <3> QED BY <1>7, <2>1
  <2>2. CASE m # 0
    <3>1. PICK t \in Tickers : \E r \in 1..Steps(t) : m = Abs(Changes(t)[r].delta)
      BY <1>2, <1>3, <1>5, <2>2
    <3>2. PICK r \in 1..Steps(t) : m = Abs(Changes(t)[r].delta)
      BY <3>1
    <3>3. Abs(Changes(t)[r].delta) <= MoveSize(LargestMove(t))
      BY LargestOfChanges
    <3> QED BY <3>2, <3>3
  <2> QED BY <2>1, <2>2
<1>9. PICK s \in Tickers : m <= MoveSize(LargestMove(s))
  BY <1>8
<1>10. m = MoveSize(LargestMove(s))
  BY <1>5, <1>7, <1>9
<1>11. Max(L) = m
  <2>1. L \in SUBSET Int
    BY <1>7
  <2>2. m \in L
    BY <1>10
  <2>3. \A y \in L : y <= m
    BY <1>7
  <2> HIDE DEF L
  <2> QED BY <2>1, <2>2, <2>3, MaxIs
<1>12. Max({MoveSize(Drop), MoveSize(Jump)}) = Max(L)
  BY <1>1, <1>6, <1>11
<1> QED BY <1>12 DEF HighlightsAgree, MoveSize

\* A score that fell did so in some step, and no further in any than the drop.
LEMMA FellSomewhere ==
  ASSUME ReportInv, NEW s \in Tickers, Summary(s).score_change \in Int, Summary(s).score_change < 0
  PROVE  \E i \in DOMAIN Changes(s) : /\ Changes(s)[i].delta < 0
                                      /\ Drop # NoDelta /\ Changes(s)[i].delta >= Drop.delta
<1>1. PICK n, day, tot, act : Timeline(s, n, day, tot, act)
  BY PointsAre
<1>2. PICK k : k = Steps(s)
  OBVIOUS
<1>3. /\ k \in Nat /\ k = (IF n = 0 THEN 0 ELSE n - 1) /\ DOMAIN Changes(s) = 1..k
      /\ \A i \in 1..k : i \in 1..n /\ i + 1 \in 1..n /\ Changes(s)[i].delta = tot[i + 1] - tot[i]
  BY <1>1, <1>2, ChangesAre
<1>4. n \in Nat /\ \A i \in 1..n : tot[i] \in Int
  BY <1>1 DEF Timeline
<1>5. n >= 2 /\ tot[n] - tot[1] < 0
  <2>1. Summary(s).score_change = IF n >= 2 THEN tot[n] - tot[1] ELSE NoDelta
    BY <1>1, SummaryIs
  <2> QED BY <2>1, CalendarTyped
<1>6. PICK i \in 1..k : tot[i + 1] - tot[i] < 0
  <2> SUFFICES ASSUME \A i \in 1..k : ~ (tot[i + 1] - tot[i] < 0) PROVE FALSE
    OBVIOUS
  <2>1. PICK u : u = [m \in 1..n |-> 0 - tot[m]]
    OBVIOUS
  <2>2. \A m \in 1..n : u[m] = 0 - tot[m] /\ u[m] \in Int
    BY <1>4, <2>1
  <2>3. \A m \in 1..n : m + 1 \in 1..n => u[m + 1] - u[m] <= 0
    <3> SUFFICES ASSUME NEW m \in 1..n, m + 1 \in 1..n PROVE u[m + 1] - u[m] <= 0
      OBVIOUS
    <3>1. m \in 1..k /\ tot[m] \in Int /\ tot[m + 1] \in Int
      BY <1>3, <1>4, <1>5
    <3>2. ~ (tot[m + 1] - tot[m] < 0)
      BY <3>1
    <3> QED BY <2>2, <3>1, <3>2
  <2>4. 1 \in 1..n /\ n \in 1..n /\ 1 <= n
    BY <1>4, <1>5
  <2>5. PICK z \in Int : z = 0
    OBVIOUS
  <2>6. PICK p \in Nat : p = n - 1 /\ u[n] - u[1] <= p * z
    <3>1. \A m \in 1..n : u[m] \in Int
      BY <2>2
    <3>2. \A m \in 1..n : m + 1 \in 1..n => u[m + 1] - u[m] <= z
      BY <2>3, <2>5
    <3> QED BY <1>4, <2>4, <3>1, <3>2, Climb
  <2>7. p * z = 0
    BY <2>5, <2>6
  <2> QED BY <1>4, <1>5, <2>2, <2>4, <2>6, <2>7
<1>7. PICK e \in Int : e = Changes(s)[i].delta /\ e < 0
  BY <1>3, <1>4, <1>6
<1>8. PICK c : c = MoveSize(Drop)
  OBVIOUS
<1>9. /\ c \in Nat /\ (Drop = NoDelta <=> c = 0)
      /\ Drop # NoDelta => Drop.delta \in Int /\ c = (-1) * Drop.delta
      /\ \A t \in Tickers : \A r \in 1..Steps(t) : (-1) * Changes(t)[r].delta <= c
  BY <1>8, HighlightIs DEF Drop
<1>10. (-1) * e <= c
  BY <1>2, <1>7, <1>9
<1>11. Drop # NoDelta /\ e >= Drop.delta
  <2>1. c # 0
    BY <1>7, <1>9, <1>10
  <2>2. Drop.delta \in Int /\ c = (-1) * Drop.delta
    BY <1>9, <2>1
  <2> QED BY <1>7, <1>9, <1>10, <2>1, <2>2
<1> QED BY <1>3, <1>7, <1>11

\* A score that rose by what is meaningful did so in steps no larger than the jump.
LEMMA RoseByJumps ==
  ASSUME ReportInv, NEW s \in Tickers,
         Summary(s).score_change \in Int, Summary(s).score_change >= Meaningful
  PROVE  Jump # NoDelta /\ Len(Changes(s)) * Jump.delta >= Meaningful
<1>1. PICK n, day, tot, act : Timeline(s, n, day, tot, act)
  BY PointsAre
<1>2. PICK k : k = Steps(s)
  OBVIOUS
<1>3. /\ k \in Nat /\ k = (IF n = 0 THEN 0 ELSE n - 1) /\ Len(Changes(s)) = k
      /\ \A i \in 1..k : i \in 1..n /\ i + 1 \in 1..n /\ Changes(s)[i].delta = tot[i + 1] - tot[i]
  BY <1>1, <1>2, ChangesAre
<1>4. n \in Nat /\ \A i \in 1..n : tot[i] \in Int
  BY <1>1 DEF Timeline
<1>5. n >= 2 /\ tot[n] - tot[1] >= Meaningful /\ Meaningful \in Nat /\ Meaningful # 0
  <2>1. Summary(s).score_change = IF n >= 2 THEN tot[n] - tot[1] ELSE NoDelta
    BY <1>1, SummaryIs
  <2> QED BY <2>1, CalendarTyped
<1>6. PICK c : c = MoveSize(Jump)
  OBVIOUS
<1>7. /\ c \in Nat /\ (Jump = NoDelta <=> c = 0)
      /\ Jump # NoDelta => Jump.delta \in Int /\ c = 1 * Jump.delta
      /\ \A t \in Tickers : \A r \in 1..Steps(t) : 1 * Changes(t)[r].delta <= c
  BY <1>6, HighlightIs DEF Jump
<1>8. \A m \in 1..n : m + 1 \in 1..n => tot[m + 1] - tot[m] <= c
  <2> SUFFICES ASSUME NEW m \in 1..n, m + 1 \in 1..n PROVE tot[m + 1] - tot[m] <= c
    OBVIOUS
  <2>1. m \in 1..k /\ tot[m] \in Int /\ tot[m + 1] \in Int
    BY <1>3, <1>4, <1>5
  <2>2. PICK e \in Int : e = tot[m + 1] - tot[m] /\ e = Changes(s)[m].delta
    BY <1>3, <2>1
  <2>3. 1 * e <= c
    BY <1>2, <1>7, <2>1, <2>2
  <2> QED BY <1>7, <2>2, <2>3
<1>9. PICK p \in Nat : p = n - 1 /\ tot[n] - tot[1] <= p * c
  <2>1. 1 \in 1..n /\ n \in 1..n /\ 1 <= n /\ c \in Int
    BY <1>4, <1>5, <1>7
  <2> QED BY <1>4, <1>8, <2>1, Climb
<1>10. PICK z \in Int : z = p * c /\ tot[n] - tot[1] <= z
  BY <1>7, <1>9
<1>11. z >= Meaningful
  <2>1. tot[n] \in Int /\ tot[1] \in Int
    BY <1>4, <1>5
  <2> QED BY <1>5, <1>10, <2>1
<1>12. c # 0
  <2> SUFFICES ASSUME c = 0 PROVE FALSE
    OBVIOUS
  <2>1. z = 0
    BY <1>9, <1>10
  <2> QED BY <1>5, <1>11, <2>1
<1>13. Jump # NoDelta /\ Jump.delta = c
  BY <1>7, <1>12
<1>14. Len(Changes(s)) = p
  BY <1>3, <1>5, <1>9
<1> QED BY <1>10, <1>11, <1>13, <1>14

\* What is said of the advisor's behavior has its moves in the report.
LEMMA BehaviorMoves ==
  ASSUME ReportInv
  PROVE  BehaviorHasMoves
<1> SUFFICES ASSUME NEW s \in Tickers, NEW kinds \in SUBSET {"BUY", "SELL", "SKIP"}
             PROVE  LET b == Behavior(s, kinds)  ch == Changes(s) IN
               /\ b.avoided_drawdown =>
                    \E i \in DOMAIN ch : ch[i].delta < 0 /\ Drop # NoDelta /\ ch[i].delta >= Drop.delta
               /\ b.missed_upside => Jump # NoDelta /\ Len(ch) * Jump.delta >= Meaningful
               /\ ~(b.avoided_drawdown /\ b.missed_upside)
  BY DEF BehaviorHasMoves
<1>1. PICK v : v = Summary(s).score_change
  OBVIOUS
<1>2. v = NoDelta \/ v \in Int
  <2>1. PICK n, day, tot, act : Timeline(s, n, day, tot, act)
    BY PointsAre
  <2>2. v = IF n >= 2 THEN tot[n] - tot[1] ELSE NoDelta
    BY <1>1, <2>1, SummaryIs
  <2>3. n \in Nat /\ \A i \in 1..n : tot[i] \in Int
    BY <2>1 DEF Timeline
  <2> QED BY <2>2, <2>3
<1>3. PICK avoided, missed : /\ avoided = Behavior(s, kinds).avoided_drawdown
                             /\ missed = Behavior(s, kinds).missed_upside
  OBVIOUS
<1>4. /\ avoided => v # NoDelta /\ v < 0
      /\ missed => v # NoDelta /\ v >= Meaningful
  BY <1>1, <1>3 DEF Behavior
<1>5. avoided => \E i \in DOMAIN Changes(s) : /\ Changes(s)[i].delta < 0
                                              /\ Drop # NoDelta /\ Changes(s)[i].delta >= Drop.delta
  BY <1>1, <1>2, <1>4, FellSomewhere
<1>6. missed => Jump # NoDelta /\ Len(Changes(s)) * Jump.delta >= Meaningful
  BY <1>1, <1>2, <1>4, RoseByJumps
<1>7. ~(avoided /\ missed)
  BY <1>2, <1>4, CalendarTyped
<1> QED BY <1>3, <1>5, <1>6, <1>7

\* The four parts of the agreement, of any batch the invariant allows.
LEMMA AgreementHolds ==
  ASSUME ReportInv
  PROVE  ReportAgrees
BY StepsAdd, LargestBound, Highlights, BehaviorMoves DEF ReportAgrees

-----------------------------------------------------------------------------
(* PART 3. The replay *)

\* What a replay does to its runs is what a batch does.
THEOREM ReplayIsBatch == ReplaySpec => Spec
<1>1. InitReplay => Init
  BY DEF InitReplay
<1>2. [NextReplay]_replayVars => [Next]_vars
  BY DEF NextReplay, Executing, Reporting, replayVars
<1> QED BY <1>1, <1>2, PTL DEF ReplaySpec, Spec

\* A replay's dates and recommendations come as those of a report do.
THEOREM ReplayIsReport == ReplaySpec => ReportSpec
<1>1. InitReplay => InitReport
  BY DEF InitReplay
<1>2. [NextReplay]_replayVars => [NextReport]_reportVars
  BY DEF NextReplay, Executing, Reporting, replayVars
<1> QED BY <1>1, <1>2, PTL DEF ReplaySpec, ReportSpec

\* The invariants of both hold throughout a replay.
THEOREM ReplayInvariant == ReplaySpec => [](IInv /\ ReportInv)
<1>1. InitReport => ReportInv
  BY ReportHolds
<1>2. ReportInv /\ [NextReport]_reportVars => ReportInv'
  BY ReportHolds
<1>3. ReportSpec => []ReportInv
  BY <1>1, <1>2, PTL DEF ReportSpec
<1> QED BY <1>3, ReplayIsBatch, ReplayIsReport, Invariant, PTL

\* ReportTyped: the dates are days of the calendar, no more than a batch may have,
\* recommendations are of dates of the batch, and the points of a symbol are all of them.
THEOREM ReportTypeCorrect == ReplaySpec => []ReportTyped
<1>1. ReportInv => ReportTyped
  <2> SUFFICES ASSUME ReportInv PROVE ReportTyped
    OBVIOUS
  <2>1. dates \subseteq Days /\ \A s \in Tickers : DOMAIN made[s] \subseteq dates
    BY DEF ReportInv, MadeOfDates
  <2>2. Cardinality(dates) <= MaxRuns
    <3>1. CASE dates = {}
      BY <3>1, FS_EmptySet, CalendarTyped
    <3>2. CASE dates # {}
      BY <3>2 DEF ReportInv, Asked
    <3> QED BY <3>1, <3>2
  <2>3. ASSUME NEW s \in Tickers PROVE Len(Points(s)) = Cardinality(DOMAIN made[s])
    <3>1. PICK n, day, tot, act : Timeline(s, n, day, tot, act)
      BY PointsAre
    <3> QED BY <3>1 DEF Timeline
  <2> QED BY <2>1, <2>2, <2>3 DEF ReportTyped
<1> QED BY <1>1, ReplayInvariant, PTL

\* MonthlyIsMonthly: a monthly batch has one date in every month it crosses, also
\* past a month too short for the day it began on, whatever the calendar.
THEOREM MonthlyBatches == ReplaySpec => []MonthlyIsMonthly
<1>1. ReportInv => MonthlyIsMonthly
  BY MonthlyHolds
<1> QED BY <1>1, ReplayInvariant, PTL

\* ReportAgrees: steps, summary, highlights and what is said of the advisor's
\* behavior agree, whatever the scores and in whichever order the runs completed.
THEOREM ReportsAgree == ReplaySpec => []ReportAgrees
<1>1. ReportInv => ReportAgrees
  BY AgreementHolds
<1> QED BY <1>1, ReplayInvariant, PTL
=============================================================================
