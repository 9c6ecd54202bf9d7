--------------------------- MODULE Learning_proofs ---------------------------
(* Proofs about what the system keeps of its recommendations: outcomes and    *)
(* lessons (Outcomes), for every set of requests, symbols, actions, days and  *)
(* price histories, every horizon and every number of runs and calls; and the *)
(* memory (Memory), for every set of runs and executions, every limit of a    *)
(* query and every bound on faults and commands.                              *)
EXTENDS Outcomes, Memory, SetLemmas, TLAPS

(* Outcomes: the inductive invariant *)

Known == (DOMAIN runs) \X Symbols

Fields == {"at", "call", "todo", "rec", "seen", "found", "rows", "events"}

RunRec == [day : Nat, actions : [Symbols -> Actions]]

Typed == /\ today \in Nat /\ DOMAIN req = Requests
         /\ runs \in Seq(RunRec)
         /\ Len(runs) <= MaxRuns
         /\ \A i \in DOMAIN runs : runs[i].day <= today

\* The columns of a row are those of one measurement.
Consistent(rec, row) ==
  IF row.status = "MEASURED"
  THEN row.label = ClassifyLabel(Action(rec), row.fwd, IF row.rel = None THEN row.fwd ELSE row.rel)
  ELSE row.label = None

\* a row that is written
Good(rec, row) == /\ {"status", "label", "fwd", "rel"} \subseteq DOMAIN row
                  /\ row.status # "ABSENT"
                  /\ row.status # "PENDING" => Elapsed(rec)

\* an event drawn from a row, of which the part about the row is due unless it
\* was written by two
Backed(e, row) == /\ {"rec", "label"} \subseteq DOMAIN e /\ e.rec \in Recs
                  /\ row # NoRow
                  /\ e.rec \notin raced => Final(row) /\ row.label = e.label

RowsGood == \A rec \in Recs : rows[rec] # NoRow =>
              /\ rec \in Known /\ Good(rec, rows[rec])
              /\ rec \notin raced => Consistent(rec, rows[rec])

EventsGood == \A e \in events : Backed(e, rows[e.rec])

\* A row is written by one request at a time.
Exclusive == \A p, q \in Requests : \A rec \in Recs :
               p # q /\ req[p].rows[rec] # NoRow => req[q].rows[rec] = NoRow

Shaped(q) == /\ DOMAIN req[q] = Fields /\ DOMAIN req[q].rows = Recs
             /\ req[q].todo \subseteq Known

\* what a request wrote: nobody has measured the row meanwhile, and it does not
\* take a result away
Own(q) == \A rec \in Recs : req[q].rows[rec] # NoRow =>
            /\ rec \in Known /\ rec \notin req[q].todo /\ Good(rec, req[q].rows[rec])
            /\ rows[rec] # NoRow => req[q].rows[rec].status # "PENDING"
            /\ rec \notin raced => ~Final(rows[rec]) /\ Consistent(rec, req[q].rows[rec])

\* what it has read, and computed
Looked(q) == req[q].at \in {"looked", "computed"} =>
  /\ req[q].rec \in req[q].todo
  /\ ~Final(req[q].seen)
  /\ req[q].seen # NoRow =>
       /\ Elapsed(req[q].rec) /\ rows[req[q].rec] # NoRow
       /\ req[q].seen.status # "PENDING" => rows[req[q].rec].status # "PENDING"
  /\ req[q].at = "looked" => Elapsed(req[q].rec)
  /\ req[q].at = "computed" =>
       /\ Good(req[q].rec, req[q].found) /\ Consistent(req[q].rec, req[q].found)
       /\ req[q].seen # NoRow => req[q].found.status # "PENDING"

\* the row as a request will leave it
RowOf(q, rec) == IF req[q].rows[rec] # NoRow THEN req[q].rows[rec] ELSE rows[rec]

Lessons(q) == \A e \in req[q].events : Backed(e, RowOf(q, e.rec)) /\ e.rec \notin req[q].todo

Holds(q) == Shaped(q) /\ Own(q) /\ Looked(q) /\ Lessons(q)

IInv == Typed /\ RowsGood /\ EventsGood /\ Exclusive /\ \A q \in Requests : Holds(q)

-----------------------------------------------------------------------------
(* Constants and operators *)

\* The numbers are numbers.
LEMMA Numbers == Horizon \in Nat /\ MaxRuns \in Nat /\ Days \subseteq Nat
BY ConstantsTyped

\* Runs that completed are among those there can be.
LEMMA KnownRecs ==
  ASSUME Typed
  PROVE  Known \subseteq Recs
<1>1. DOMAIN runs = 1..Len(runs) /\ Len(runs) \in Nat /\ Len(runs) <= MaxRuns
  BY DEF Typed
<1>2. DOMAIN runs \subseteq 1..MaxRuns
  BY <1>1, Numbers
<1> QED BY <1>2 DEF Known, Recs

\* Rows without a measurement.
LEMMA Plain == /\ NoRow.status = "ABSENT" /\ Pending.status = "PENDING" /\ Pending.label = None
               /\ {"status", "label", "fwd", "rel"} \subseteq DOMAIN Pending
               /\ Insufficient.status = "INSUFFICIENT_DATA" /\ Insufficient.label = None
               /\ {"status", "label", "fwd", "rel"} \subseteq DOMAIN Insufficient
BY DEF NoRow, Pending, Insufficient, Unmeasured

\* A result is never PENDING, and its label is the one of its columns.
LEMMA Result ==
  ASSUME NEW rec, NEW bars, NEW bench, NEW row, row = ForwardOutcome(Action(rec), bars, bench)
  PROVE  /\ {"status", "label", "fwd", "rel"} \subseteq DOMAIN row
         /\ row.status \notin {"ABSENT", "PENDING"} /\ Consistent(rec, row)
<1>1. CASE row = Insufficient
  BY <1>1, Plain DEF Consistent
<1>2. CASE row # Insufficient
  <2>1. PICK fwd, rel, dd, last :
          row = [status |-> "MEASURED",
                 label |-> ClassifyLabel(Action(rec), fwd, IF rel = None THEN fwd ELSE rel),
                 fwd |-> fwd, rel |-> rel, dd |-> dd, last |-> last]
    BY <1>2, Zenon DEF ForwardOutcome
  <2>2. PICK label : label = ClassifyLabel(Action(rec), fwd, IF rel = None THEN fwd ELSE rel)
    OBVIOUS
  <2>3. row = [status |-> "MEASURED", label |-> label, fwd |-> fwd, rel |-> rel,
               dd |-> dd, last |-> last]
    BY <2>1, <2>2
  <2>4. /\ {"status", "label", "fwd", "rel"} \subseteq DOMAIN row /\ row.status = "MEASURED"
        /\ row.label = label /\ row.fwd = fwd /\ row.rel = rel
    BY <2>3
  <2> QED BY <2>2, <2>4, Plain DEF Consistent
<1> QED BY <1>1, <1>2

\* A lesson is drawn from a final row.
LEMMA LessonDrawn ==
  ASSUME NEW q, NEW rec, NEW row, NEW e \in Lesson(q, rec, row)
  PROVE  /\ {"rec", "label"} \subseteq DOMAIN e
         /\ e.rec = rec /\ e.label = row.label /\ Final(row)
<1>1. Warrants(row, Action(rec))
      /\ e = [rec |-> rec, call |-> req[q].call, type |-> EventType(row, Action(rec)),
              label |-> row.label, status |-> "OPEN"]
  BY Zenon DEF Lesson
<1>2. Final(row)
  BY <1>1, Zenon DEF Warrants, Final
<1>3. PICK type : e = [rec |-> rec, call |-> req[q].call, type |-> type,
                       label |-> row.label, status |-> "OPEN"]
  BY <1>1
<1> QED BY <1>2, <1>3

-----------------------------------------------------------------------------
(* What every step does to the rows *)

\* Time goes on, runs stay, a row that changes gets a result, and unless two
\* wrote it, was not final.
Onward ==
  /\ \A rec \in Known : /\ rec \in Known' /\ Action(rec)' = Action(rec)
                        /\ Elapsed(rec) => Elapsed(rec)'
  /\ raced \subseteq raced'
  /\ \A rec \in Recs : rows'[rec] # rows[rec] =>
       /\ rows'[rec] # NoRow
       /\ rows[rec] # NoRow => rows'[rec].status # "PENDING"
       /\ rec \notin raced' => ~Final(rows[rec])

\* An event stays backed.
LEMMA BackedStays ==
  ASSUME Onward, NEW e, Backed(e, rows[e.rec])
  PROVE  Backed(e, rows[e.rec])'
BY DEF Onward, Backed, Final

\* What a request may rely on stays while it does nothing, if nobody commits
\* the rows it wrote.
LEMMA HoldsOn ==
  ASSUME IInv, Onward, NEW q \in Requests, req'[q] = req[q],
         \A rec \in Recs : req[q].rows[rec] # NoRow => rows'[rec] = rows[rec]
  PROVE  Holds(q)'
<1>0. Typed /\ Holds(q) /\ Known \subseteq Recs
  BY KnownRecs DEF IInv
<1>1. Shaped(q)'
  BY <1>0 DEF Holds, Shaped, Onward
<1>2. Own(q)'
  BY <1>0 DEF Holds, Own, Onward, Good, Consistent
<1>3. Looked(q)'
  BY <1>0 DEF Holds, Shaped, Looked, Onward, Good, Consistent
<1>4. ASSUME NEW e \in req[q].events
      PROVE  Backed(e, RowOf(q, e.rec))'
  <2>1. Backed(e, RowOf(q, e.rec)) /\ e.rec \in Recs
    BY <1>0 DEF Holds, Lessons, Backed
  <2>2. CASE req[q].rows[e.rec] # NoRow
    BY <2>1, <2>2 DEF RowOf, Backed, Onward
  <2>3. CASE req[q].rows[e.rec] = NoRow
    BY <2>1, <2>3 DEF RowOf, Backed, Onward, Final
  <2> QED BY <2>2, <2>3
<1>5. Lessons(q)'
  BY <1>0, <1>4 DEF Holds, Lessons
<1> QED BY <1>1, <1>2, <1>3, <1>5 DEF Holds

\* Steps that leave rows, events and requests alone.
LEMMA AroundKeeps ==
  ASSUME IInv, Onward, Typed', UNCHANGED <<rows, events, req, raced>>
  PROVE  IInv'
<1>0. Typed /\ Known \subseteq Recs
  BY KnownRecs DEF IInv
<1>1. \A q \in Requests : Holds(q)'
  BY HoldsOn
<1>2. RowsGood'
  BY <1>0 DEF IInv, RowsGood, Onward, Good, Consistent
<1>3. EventsGood'
  BY BackedStays DEF IInv, EventsGood
<1> QED BY <1>1, <1>2, <1>3 DEF IInv, Exclusive

\* Steps of a request that commit nothing.
LEMMA StepOf ==
  ASSUME IInv, NEW q \in Requests, UNCHANGED <<today, runs, rows, events>>, raced \subseteq raced',
         DOMAIN req' = Requests, \A p \in Requests : p # q => req'[p] = req[p],
         Holds(q)',
         \A p \in Requests : \A rec \in Recs :
           p # q /\ req'[q].rows[rec] # NoRow => req[p].rows[rec] = NoRow
  PROVE  IInv' /\ Onward
<1>1. Onward
  BY DEF Onward, Known, Action, Elapsed, From
<1>2. Typed'
  BY DEF IInv, Typed
<1>3. \A p \in Requests : Holds(p)'
  BY <1>1, HoldsOn
<1>4. RowsGood'
  BY DEF IInv, RowsGood, Known, Good, Consistent, Action, Elapsed, From
<1>5. EventsGood'
  BY <1>1, BackedStays DEF IInv, EventsGood
<1>6. Exclusive'
  BY DEF IInv, Exclusive
<1> QED BY <1>1, <1>2, <1>3, <1>4, <1>5, <1>6 DEF IInv

-----------------------------------------------------------------------------
(* Requests *)

\* A request that is not busy, or was just received, relies on nothing.
LEMMA FreshHolds ==
  ASSUME Typed, NEW q \in Requests, NEW todo, todo \subseteq Known', NEW call,
         \/ req'[q] = Idle
         \/ req'[q] = [Idle EXCEPT !.at = "next", !.call = call, !.todo = todo]
  PROVE  Holds(q)' /\ \A rec \in Recs : req'[q].rows[rec] = NoRow
<1>1. /\ DOMAIN req'[q] = Fields /\ req'[q].at \in {"idle", "next"}
      /\ req'[q].todo \subseteq Known' /\ req'[q].events = {}
      /\ req'[q].rows = [rec \in Recs |-> NoRow]
  <2>1. /\ DOMAIN Idle = Fields /\ Idle.at = "idle" /\ Idle.todo = {} /\ Idle.events = {}
        /\ Idle.rows = [rec \in Recs |-> NoRow]
    BY DEF Idle, Fields
  <2> QED BY <2>1 DEF Fields
<1>2. \A rec \in Recs : req'[q].rows[rec] = NoRow
  BY <1>1
<1>3. DOMAIN req'[q].rows = Recs
  BY <1>1
<1> QED BY <1>1, <1>2, <1>3 DEF Holds, Shaped, Own, Looked, Lessons

\* What is to be done next is of a run that is there.
LEMMA LatestKnown ==
  ASSUME Typed, runs # <<>>
  PROVE  LatestRun \in DOMAIN runs
<1>1. DOMAIN runs = 1..Len(runs) /\ Len(runs) \in Nat /\ Len(runs) # 0
      /\ \A i \in DOMAIN runs : runs[i].day \in Nat
  <2>1. \A i \in DOMAIN runs : runs[i] \in RunRec
    BY DEF Typed
  <2>2. \A x \in RunRec : x.day \in Nat
    BY DEF RunRec
  <2> QED BY <2>1, <2>2 DEF Typed
<1> DEFINE Days0 == {today - runs[i].day : i \in DOMAIN runs}
<1>2. Days0 \subseteq Nat /\ 1 \in DOMAIN runs
  BY <1>1 DEF Typed
<1>3. Days0 # {} /\ \A i \in DOMAIN runs : today - runs[i].day \in Days0
  BY <1>2
<1>4. \A d \in Days0 : \E i \in DOMAIN runs : today - runs[i].day = d
  OBVIOUS
<1> HIDE DEF Days0
<1>5. PICK d \in Days0 : \A y \in Days0 : ~ (<<y, d>> \in OpToRel(<, Nat))
  BY <1>2, <1>3, WFMin, NatLessThanWellFounded
<1>6. \A y \in Days0 : ~ (y < d)
  BY <1>2, <1>5 DEF OpToRel
<1>7. PICK k \in DOMAIN runs : today - runs[k].day = d
  BY <1>4
<1> DEFINE Same == {Len(runs) - i : i \in {j \in DOMAIN runs : runs[j].day = runs[k].day}}
<1>8. Same \subseteq Nat
  BY <1>1
<1>9. Same # {} /\ \A i \in DOMAIN runs : runs[i].day = runs[k].day => Len(runs) - i \in Same
  BY <1>7
<1>10. \A n \in Same : \E i \in DOMAIN runs : runs[i].day = runs[k].day /\ Len(runs) - i = n
  OBVIOUS
<1> HIDE DEF Same
<1>11. PICK n \in Same : \A y \in Same : ~ (<<y, n>> \in OpToRel(<, Nat))
  BY <1>8, <1>9, WFMin, NatLessThanWellFounded
<1>12. \A y \in Same : ~ (y < n)
  BY <1>8, <1>11 DEF OpToRel
<1>13. PICK i \in DOMAIN runs : runs[i].day = runs[k].day /\ Len(runs) - i = n
  BY <1>10
<1>14. ASSUME NEW j \in DOMAIN runs
       PROVE  runs[i].day > runs[j].day \/ (runs[i].day = runs[j].day /\ i >= j)
  <2>1. runs[j].day <= runs[k].day
    BY <1>1, <1>3, <1>6, <1>7 DEF Typed
  <2>2. runs[j].day = runs[k].day => j <= i
    BY <1>1, <1>9, <1>12, <1>13
  <2> QED BY <1>1, <1>13, <2>1, <2>2
<1> QED BY <1>14 DEF LatestRun

\* Measure keeps the invariant.
LEMMA MeasureKeeps ==
  ASSUME IInv, NEW q \in Requests, Measure(q)
  PROVE  IInv' /\ Onward
<1>0. Typed /\ UNCHANGED <<today, market, stored, runs, rows, events, raced>>
  BY DEF IInv, Measure
<1>1. {LatestRun} \X Symbols \subseteq Known'
  BY <1>0, LatestKnown DEF Known, Measure
<1>2. /\ DOMAIN req' = Requests /\ \A p \in Requests : p # q => req'[p] = req[p]
      /\ req'[q] = [Idle EXCEPT !.at = "next", !.call = calls', !.todo = {LatestRun} \X Symbols]
  BY <1>0 DEF Measure, Typed
<1>3. PICK todo, call : todo = {LatestRun} \X Symbols /\ call = calls'
  OBVIOUS
<1>4. todo \subseteq Known' /\ req'[q] = [Idle EXCEPT !.at = "next", !.call = call, !.todo = todo]
  BY <1>1, <1>2, <1>3
<1>5. Holds(q)' /\ \A rec \in Recs : req'[q].rows[rec] = NoRow
  BY <1>0, <1>4, FreshHolds
<1> QED BY <1>0, <1>2, <1>5, StepOf

\* The request is over, and what it wrote is lost.
LEMMA IdleKeeps ==
  ASSUME IInv, NEW q \in Requests, req' = [req EXCEPT ![q] = Idle],
         UNCHANGED <<today, runs, rows, events>>, raced \subseteq raced'
  PROVE  IInv' /\ Onward
<1>1. Typed /\ {} \subseteq Known'
  BY DEF IInv
<1>2. DOMAIN req' = Requests /\ req'[q] = Idle /\ \A p \in Requests : p # q => req'[p] = req[p]
  BY <1>1 DEF Typed
<1>3. Holds(q)' /\ \A rec \in Recs : req'[q].rows[rec] = NoRow
  BY <1>1, <1>2, FreshHolds
<1> QED BY <1>2, <1>3, StepOf

\* An iteration that ends with a row, the one that is there or one it wrote.
LEMMA ConcludeKeeps ==
  ASSUME IInv, NEW q \in Requests, NEW rec \in req[q].todo, NEW row, NEW own,
         Conclude(q, rec, row, own), UNCHANGED <<today, runs, rows, events>>,
         raced \subseteq raced', DOMAIN own = Recs,
         \A x \in Recs : x # rec => own[x] = req[q].rows[x],
         row # NoRow, row = IF own[rec] # NoRow THEN own[rec] ELSE rows[rec],
         own[rec] # NoRow =>
           /\ Good(rec, row)
           /\ rows[rec] # NoRow => row.status # "PENDING"
           /\ rec \notin raced' => ~Final(rows[rec]) /\ Consistent(rec, row)
           /\ \A p \in Requests : p # q => req[p].rows[rec] = NoRow
  PROVE  IInv' /\ Onward
<1>0. Typed /\ Holds(q) /\ Known \subseteq Recs /\ rec \in Recs /\ rec \in Known
  BY KnownRecs DEF IInv, Holds, Shaped
<1>1. /\ DOMAIN req' = Requests /\ \A p \in Requests : p # q => req'[p] = req[p]
      /\ DOMAIN req'[q] = Fields /\ req'[q].at = "next" /\ req'[q].todo = req[q].todo \ {rec}
      /\ req'[q].rows = own /\ req'[q].events = req[q].events \cup Lesson(q, rec, row)
  BY <1>0 DEF Typed, Holds, Shaped, Fields, Conclude
<1>2. Known' = Known /\ \A x : Elapsed(x)' = Elapsed(x) /\ Action(x)' = Action(x)
  BY DEF Known, Elapsed, Action, From
<1>3. Shaped(q)'
  BY <1>0, <1>1, <1>2 DEF Holds, Shaped
<1>4. Own(q)'
  BY <1>0, <1>1, <1>2 DEF Holds, Own, Good, Consistent
<1>5. Looked(q)'
  BY <1>1 DEF Looked
<1>6. ASSUME NEW e \in req'[q].events
      PROVE  Backed(e, RowOf(q, e.rec))' /\ e.rec \notin req'[q].todo
  <2>1. CASE e \in req[q].events
    <3>1. Backed(e, RowOf(q, e.rec)) /\ e.rec \notin req[q].todo /\ e.rec \in Recs
      BY <1>0, <2>1 DEF Holds, Lessons, Backed
    <3>2. e.rec # rec
      BY <3>1
    <3> QED BY <1>1, <3>1, <3>2 DEF RowOf, Backed
  <2>2. CASE e \in Lesson(q, rec, row)
    <3>1. /\ {"rec", "label"} \subseteq DOMAIN e
          /\ e.rec = rec /\ e.label = row.label /\ Final(row)
      BY <2>2, LessonDrawn
    <3>2. RowOf(q, rec)' = row
      BY <1>1 DEF RowOf
    <3> QED BY <1>0, <1>1, <3>1, <3>2 DEF Backed
  <2> QED BY <1>1, <2>1, <2>2
<1>7. Lessons(q)'
  BY <1>6 DEF Lessons
<1>8. ASSUME NEW p \in Requests, NEW x \in Recs, p # q, req'[q].rows[x] # NoRow
      PROVE  req[p].rows[x] = NoRow
  BY <1>1, <1>8 DEF IInv, Exclusive
<1>9. Holds(q)'
  BY <1>3, <1>4, <1>5, <1>7 DEF Holds
<1> QED BY <1>1, <1>8, <1>9, StepOf

\* Return keeps the invariant.
LEMMA ReturnKeeps ==
  ASSUME IInv, NEW q \in Requests, NEW rec \in req[q].todo, ReturnRow(q, rec)
  PROVE  IInv' /\ Onward
<1>0. Typed /\ Holds(q) /\ rec \in Recs
  BY KnownRecs DEF IInv, Holds, Shaped
<1>1. req[q].rows[rec] = NoRow /\ DOMAIN req[q].rows = Recs
  BY <1>0 DEF Holds, Shaped, Own
<1>2. rows[rec] # NoRow /\ Conclude(q, rec, rows[rec], req[q].rows)
      /\ UNCHANGED <<today, runs, rows, events, raced>>
  BY DEF ReturnRow
<1> QED BY <1>0, <1>1, <1>2, ConcludeKeeps

\* A request that looked or computed keeps what it wrote, and what is to be done.
LEMMA InnerKeeps ==
  ASSUME IInv, NEW q \in Requests, UNCHANGED <<today, runs, rows, events, raced>>,
         DOMAIN req' = Requests, \A p \in Requests : p # q => req'[p] = req[p],
         DOMAIN req'[q] = Fields, req'[q].rows = req[q].rows, req'[q].todo = req[q].todo,
         req'[q].events = req[q].events, Looked(q)'
  PROVE  IInv' /\ Onward
<1>0. Holds(q)
  BY DEF IInv
<1>1. Known' = Known /\ \A x : Elapsed(x)' = Elapsed(x) /\ Action(x)' = Action(x)
  BY DEF Known, Elapsed, Action, From
<1>2. Shaped(q)' /\ Own(q)'
  BY <1>0, <1>1 DEF Holds, Shaped, Own, Good, Consistent
<1>3. Lessons(q)'
  BY <1>0 DEF Holds, Lessons, RowOf, Backed
<1>4. \A p \in Requests : \A rec \in Recs :
        p # q /\ req'[q].rows[rec] # NoRow => req[p].rows[rec] = NoRow
  BY DEF IInv, Exclusive
<1>5. Holds(q)'
  BY <1>2, <1>3 DEF Holds
<1> QED BY <1>4, <1>5, StepOf

\* Look keeps the invariant.
LEMMA LookKeeps ==
  ASSUME IInv, NEW q \in Requests, NEW rec \in req[q].todo, Look(q, rec)
  PROVE  IInv' /\ Onward
<1>0. Typed /\ Holds(q) /\ rec \in Recs
  BY KnownRecs DEF IInv, Holds, Shaped
<1>1. UNCHANGED <<today, runs, rows, events, raced>>
  BY DEF Look
<1>2. /\ DOMAIN req' = Requests /\ \A p \in Requests : p # q => req'[p] = req[p]
      /\ DOMAIN req'[q] = Fields /\ req'[q].rows = req[q].rows /\ req'[q].todo = req[q].todo
      /\ req'[q].events = req[q].events
      /\ req'[q].at = IF Elapsed(rec) THEN "looked" ELSE "computed"
      /\ req'[q].rec = rec /\ req'[q].seen = rows[rec]
      /\ req'[q].found = IF Elapsed(rec) THEN NoRow ELSE Pending
  BY <1>0 DEF Look, Typed, Holds, Shaped, Fields
<1>3. ~Final(rows[rec]) /\ (rows[rec] = NoRow \/ Elapsed(rec))
  BY DEF Look
<1>4. Elapsed(rec)' = Elapsed(rec) /\ Action(rec)' = Action(rec)
  BY <1>1 DEF Elapsed, Action, From
<1>5. CASE Elapsed(rec)
  BY <1>1, <1>2, <1>3, <1>4, <1>5, InnerKeeps DEF Looked, Final
<1>6. CASE ~Elapsed(rec)
  <2>1. Good(rec, Pending)' /\ Consistent(rec, Pending)'
    BY Plain DEF Good, Consistent
  <2>2. Looked(q)'
    BY <1>1, <1>2, <1>3, <1>4, <1>6, <2>1 DEF Looked, Final
  <2> QED BY <1>1, <1>2, <2>2, InnerKeeps
<1> QED BY <1>5, <1>6

\* Compute keeps the invariant.
LEMMA ComputeKeeps ==
  ASSUME IInv, NEW q \in Requests, Compute(q)
  PROVE  IInv' /\ Onward
<1>0. Typed /\ Holds(q) /\ req[q].at = "looked" /\ UNCHANGED <<today, runs, rows, events, raced>>
  BY DEF IInv, Compute
<1>1. PICK rec, bars, bench, row :
        /\ rec = req[q].rec /\ row = ForwardOutcome(Action(rec), bars, bench)
        /\ req' = [req EXCEPT ![q].at = "computed", ![q].found = row]
  BY Zenon DEF Compute
<1>2. /\ DOMAIN req' = Requests /\ \A p \in Requests : p # q => req'[p] = req[p]
      /\ DOMAIN req'[q] = Fields /\ req'[q].rows = req[q].rows /\ req'[q].todo = req[q].todo
      /\ req'[q].events = req[q].events /\ req'[q].at = "computed" /\ req'[q].rec = rec
      /\ req'[q].seen = req[q].seen /\ req'[q].found = row
  BY <1>0, <1>1 DEF Typed, Holds, Shaped, Fields
<1>3. Elapsed(rec)' = Elapsed(rec) /\ Action(rec)' = Action(rec) /\ Elapsed(rec)
  BY <1>0, <1>1 DEF Elapsed, Action, From, Holds, Looked
<1>4. /\ {"status", "label", "fwd", "rel"} \subseteq DOMAIN row
      /\ row.status \notin {"ABSENT", "PENDING"} /\ Consistent(rec, row)
  BY <1>1, Result
<1>5. Good(rec, row)' /\ Consistent(rec, row)'
  BY <1>3, <1>4 DEF Good, Consistent
<1>6. Looked(q)'
  BY <1>0, <1>1, <1>2, <1>3, <1>4, <1>5 DEF Holds, Looked
<1> QED BY <1>0, <1>2, <1>6, InnerKeeps

\* The columns that a merge takes from the row, or from what was found.
LEMMA MergedColumns ==
  ASSUME NEW current, NEW saw, NEW found,
         {"status", "label", "fwd", "rel"} \subseteq DOMAIN found
  PROVE  LET row == Merged(current, saw, found)
         IN  /\ DOMAIN row = DOMAIN found
             /\ row.status = IF found.status = saw.status THEN current.status ELSE found.status
             /\ current = saw => /\ row.status = found.status /\ row.label = found.label
                                 /\ row.fwd = found.fwd /\ row.rel = found.rel
BY DEF Merged

\* Write keeps the invariant.
LEMMA WriteKeeps ==
  ASSUME IInv, NEW q \in Requests, Write(q)
  PROVE  IInv' /\ Onward
<1> DEFINE rec == req[q].rec
           saw == req[q].seen
           found == req[q].found
           row == IF saw = NoRow THEN found ELSE Merged(rows[rec], saw, found)
           own == [req[q].rows EXCEPT ![rec] = row]
<1>0. Typed /\ Holds(q) /\ UNCHANGED <<today, runs, rows, events>> /\ req[q].at = "computed"
  BY DEF IInv, Write
<1>1. /\ rec \in req[q].todo /\ ~Final(saw)
      /\ saw # NoRow => /\ Elapsed(rec) /\ rows[rec] # NoRow
                        /\ saw.status # "PENDING" => rows[rec].status # "PENDING"
                        /\ found.status # "PENDING"
      /\ Good(rec, found) /\ Consistent(rec, found)
  BY <1>0 DEF Holds, Looked
<1>2. /\ rec \in Recs /\ DOMAIN req[q].rows = Recs /\ RowsGood
  BY <1>0, <1>1, KnownRecs DEF IInv, Holds, Shaped
<1>3. raced \subseteq raced' /\ (rec \notin raced' => saw = NoRow \/ saw = rows[rec])
  BY DEF Write
<1>4. CASE saw = NoRow /\ rows[rec] # NoRow
  <2>1. req' = [req EXCEPT ![q] = Idle]
    BY <1>4 DEF Write
  <2> QED BY <1>0, <1>3, <2>1, IdleKeeps
<1>5. CASE ~(saw = NoRow /\ rows[rec] # NoRow)
  <2>1. Conclude(q, rec, row, own)
    BY <1>5, Zenon DEF Write
  <2>2. \A p \in Requests : p # q => req[p].rows[rec] = NoRow
    BY DEF Write, Locked
  <2>3. /\ Good(rec, row)
        /\ rows[rec] # NoRow => row.status # "PENDING"
        /\ rec \notin raced' => ~Final(rows[rec]) /\ Consistent(rec, row)
    <3>1. CASE saw = NoRow
      <4>1. rows[rec] = NoRow /\ row = found
        BY <1>5, <3>1
      <4> QED BY <1>1, <4>1, Plain DEF Final
    <3>2. CASE saw # NoRow
      <4>1. row = Merged(rows[rec], saw, found)
        BY <3>2
      <4>2. /\ DOMAIN row = DOMAIN found
            /\ row.status = IF found.status = saw.status THEN rows[rec].status ELSE found.status
            /\ rows[rec] = saw => /\ row.status = found.status /\ row.label = found.label
                                  /\ row.fwd = found.fwd /\ row.rel = found.rel
        BY <1>1, <4>1, MergedColumns DEF Good
      <4>3. row.status # "PENDING"
        BY <1>1, <3>2, <4>2
      <4>4. rows[rec] # NoRow /\ Good(rec, rows[rec]) /\ Elapsed(rec)
        BY <1>1, <1>2, <3>2 DEF RowsGood
      <4>5. Good(rec, row)
        BY <1>1, <4>2, <4>4 DEF Good
      <4>6. ASSUME rec \notin raced' PROVE ~Final(rows[rec]) /\ Consistent(rec, row)
        BY <1>1, <1>3, <3>2, <4>2, <4>6 DEF Consistent
      <4> QED BY <4>3, <4>5, <4>6
    <3> QED BY <3>1, <3>2
  <2>4. row # NoRow
    BY <2>3, Plain DEF Good
  <2>5. DOMAIN own = Recs /\ own[rec] = row /\ \A x \in Recs : x # rec => own[x] = req[q].rows[x]
    BY <1>2
  <2> HIDE DEF row, own
  <2> QED BY <1>0, <1>1, <1>3, <2>1, <2>2, <2>3, <2>4, <2>5, ConcludeKeeps
<1> QED BY <1>4, <1>5

\* The row read back is there, for it was when it was read.
LEMMA KeepKeeps ==
  ASSUME IInv, NEW q \in Requests, KeepRow(q)
  PROVE  IInv' /\ Onward
<1> DEFINE rec == req[q].rec
<1>0. /\ Holds(q) /\ req[q].at = "computed" /\ req[q].found = req[q].seen
      /\ UNCHANGED <<today, runs, rows, events, raced>>
      /\ Conclude(q, rec, rows[rec], req[q].rows)
  BY DEF IInv, KeepRow
<1>1. rec \in req[q].todo /\ Good(rec, req[q].found)
  BY <1>0 DEF Holds, Looked
<1>2. rec \in Recs /\ DOMAIN req[q].rows = Recs
  BY <1>0, <1>1, KnownRecs DEF IInv, Holds, Shaped
<1>3. req[q].rows[rec] = NoRow
  BY <1>0, <1>1, <1>2 DEF Holds, Own
<1>4. rows[rec] # NoRow
  BY <1>0, <1>1, Plain DEF Holds, Looked, Good
<1> HIDE DEF rec
<1> QED BY <1>0, <1>1, <1>2, <1>3, <1>4, ConcludeKeeps

\* What was written becomes visible, with the lessons.
LEMMA CommitKeeps ==
  ASSUME IInv, NEW q \in Requests, Commit(q)
  PROVE  IInv' /\ Onward
<1>0. Typed /\ Holds(q) /\ Known \subseteq Recs /\ UNCHANGED <<today, runs, raced>>
  BY KnownRecs DEF IInv, Commit
<1>1. \A rec \in Recs : rows'[rec] = RowOf(q, rec)
  BY DEF Commit, RowOf
<1>2. Known' = Known /\ \A x : Elapsed(x)' = Elapsed(x) /\ Action(x)' = Action(x)
  BY <1>0 DEF Known, Elapsed, Action, From
<1>3. Onward
  BY <1>0, <1>1, <1>2 DEF Onward, RowOf, Holds, Own
<1>4. /\ DOMAIN req' = Requests /\ \A p \in Requests : p # q => req'[p] = req[p]
      /\ req'[q] = Idle
  BY <1>0 DEF Typed, Commit
<1>5. Holds(q)' /\ \A rec \in Recs : req'[q].rows[rec] = NoRow
  <2>1. {} \subseteq Known'
    OBVIOUS
  <2> QED BY <1>0, <1>4, <2>1, FreshHolds
<1>6. ASSUME NEW p \in Requests, p # q PROVE Holds(p)'
  <2>1. \A rec \in Recs : req[p].rows[rec] # NoRow => rows'[rec] = rows[rec]
    BY <1>1, <1>6 DEF IInv, Exclusive, RowOf
  <2> QED BY <1>3, <1>4, <1>6, <2>1, HoldsOn
<1>7. RowsGood'
  BY <1>0, <1>1, <1>2 DEF IInv, RowsGood, RowOf, Holds, Own, Good, Consistent
<1>8. EventsGood'
  <2>1. ASSUME NEW e \in events PROVE Backed(e, rows[e.rec])'
    BY <1>3, BackedStays DEF IInv, EventsGood
  <2>2. ASSUME NEW e \in req[q].events PROVE Backed(e, rows[e.rec])'
    BY <1>0, <1>1 DEF Holds, Lessons, Backed
  <2>3. events' = events \cup req[q].events
    BY DEF Commit
  <2> QED BY <2>1, <2>2, <2>3 DEF EventsGood
<1>9. Exclusive'
  BY <1>4, <1>5 DEF IInv, Exclusive
<1>10. Typed'
  BY <1>0, <1>4 DEF Typed
<1> QED BY <1>3, <1>5, <1>6, <1>7, <1>8, <1>9, <1>10 DEF IInv

\* A user says what became of a lesson.
LEMMA ReviewKeeps ==
  ASSUME IInv, NEW e \in events, NEW status \in Reviews, Review(e, status)
  PROVE  IInv' /\ Onward
<1>0. Typed /\ UNCHANGED <<today, runs, rows, req, raced>>
  BY DEF IInv, Review
<1>1. Onward
  BY <1>0 DEF Onward, Known, Action, Elapsed, From
<1>2. \A q \in Requests : Holds(q)'
  BY <1>0, <1>1, HoldsOn
<1>3. RowsGood' /\ Exclusive' /\ Typed'
  BY <1>0 DEF IInv, RowsGood, Exclusive, Typed, Known, Good, Consistent, Action, Elapsed, From
<1>4. PICK f : f = [e EXCEPT !.status = status]
  OBVIOUS
<1>5. Backed(e, rows[e.rec])
  BY DEF IInv, EventsGood
<1>6. {"rec", "label"} \subseteq DOMAIN f /\ f.rec = e.rec /\ f.label = e.label
  BY <1>4, <1>5 DEF Backed
<1>7. Backed(f, rows[f.rec])'
  BY <1>0, <1>5, <1>6 DEF Backed, Final
<1>8. EventsGood'
  BY <1>0, <1>1, <1>4, <1>7, BackedStays DEF IInv, EventsGood, Review
<1> QED BY <1>1, <1>2, <1>3, <1>8 DEF IInv

-----------------------------------------------------------------------------
(* The environment *)

\* Environment keeps the invariant.
LEMMA EnvironmentKeeps ==
  ASSUME IInv, Environment
  PROVE  IInv' /\ Onward
<1>0. Typed /\ UNCHANGED <<rows, events, req, raced>>
  BY DEF IInv, Environment, Tick, StorePrices, CompleteRun
<1>1. CASE UNCHANGED <<today, runs>>
  <2>1. Onward /\ Typed'
    BY <1>0, <1>1 DEF Onward, Typed, Known, Action, Elapsed, From
  <2> QED BY <1>0, <2>1, AroundKeeps
<1>2. \A rec \in Known : From(rec) \in Nat
  <2>1. \A i \in DOMAIN runs : runs[i] \in RunRec
    BY <1>0 DEF Typed
  <2>2. \A x \in RunRec : x.day \in Nat
    BY DEF RunRec
  <2> QED BY <2>1, <2>2 DEF Known, From
<1>3. CASE Tick
  <2>1. today' \in Nat /\ today <= today' /\ runs' = runs
    BY <1>0, <1>3, Numbers DEF Tick, Typed
  <2>2. Typed'
    <3>1. \A i \in DOMAIN runs : runs[i].day \in Nat
      <4>1. \A i \in DOMAIN runs : runs[i] \in RunRec
        BY <1>0 DEF Typed
      <4>2. \A x \in RunRec : x.day \in Nat
        BY DEF RunRec
      <4> QED BY <4>1, <4>2
    <3> QED BY <1>0, <2>1, <3>1 DEF Typed
  <2>3. \A rec \in Known : Elapsed(rec) => Elapsed(rec)'
    BY <1>0, <1>2, <2>1, Numbers DEF Typed, Elapsed, From
  <2>4. Onward
    BY <1>0, <2>1, <2>3 DEF Onward, Known, Action
  <2> QED BY <1>0, <2>2, <2>4, AroundKeeps
<1>4. ASSUME NEW d \in Days, NEW actions \in [Symbols -> Actions], CompleteRun(d, actions)
      PROVE  IInv' /\ Onward
  <2>1. PICK x \in RunRec : x = [day |-> d, actions |-> actions] /\ x.day = d
    <3>1. d \in Nat
      BY Numbers
    <3>2. [day |-> d, actions |-> actions] \in RunRec
      BY <3>1 DEF RunRec
    <3> QED BY <3>2
  <2>2. /\ runs' = Append(runs, x) /\ Len(runs) < MaxRuns /\ d <= today /\ today' = today
    BY <1>4, <2>1 DEF CompleteRun
  <2>3. /\ runs' \in Seq(RunRec) /\ Len(runs') <= MaxRuns
        /\ \A i \in DOMAIN runs : i \in DOMAIN runs' /\ runs'[i] = runs[i]
        /\ \A i \in DOMAIN runs' : i \in DOMAIN runs \/ runs'[i] = x
    BY <1>0, <2>1, <2>2, Numbers DEF Typed
  <2>4. Typed'
    BY <1>0, <2>1, <2>2, <2>3 DEF Typed
  <2>5. \A rec \in Known : rec \in Known' /\ runs'[rec[1]] = runs[rec[1]]
    BY <2>3 DEF Known
  <2>6. Onward
    BY <1>0, <2>2, <2>5 DEF Onward, Action, Elapsed, From
  <2> QED BY <1>0, <2>4, <2>6, AroundKeeps
<1>5. ASSUME NEW s, StorePrices(s) PROVE UNCHANGED <<today, runs>>
  BY <1>5 DEF StorePrices
<1> QED BY <1>1, <1>3, <1>4, <1>5 DEF Environment

-----------------------------------------------------------------------------
(* The theorems *)

\* The invariant holds at first,
LEMMA InitIInv == Init => IInv
<1> SUFFICES ASSUME Init PROVE IInv
  OBVIOUS
<1>1. Typed
  BY Numbers DEF Init, Typed
<1>2. \A q \in Requests :
        /\ DOMAIN req[q] = Fields /\ req[q].at = "idle" /\ req[q].todo = {} /\ req[q].events = {}
        /\ req[q].rows = [rec \in Recs |-> NoRow]
  BY DEF Init, Idle, Fields
<1>3. \A q \in Requests : Holds(q)
  BY <1>2 DEF Holds, Shaped, Own, Looked, Lessons
<1>4. RowsGood /\ EventsGood /\ Exclusive
  BY <1>2 DEF Init, RowsGood, EventsGood, Exclusive
<1> QED BY <1>1, <1>3, <1>4 DEF IInv

\* Every step keeps the invariant and takes no result away.
LEMMA StepIInv == IInv /\ [Next]_vars => IInv' /\ Onward
<1> SUFFICES ASSUME IInv, [Next]_vars PROVE IInv' /\ Onward
  OBVIOUS
<1>1. CASE Environment
  BY <1>1, EnvironmentKeeps
<1>2. ASSUME NEW q \in Requests, Measure(q) \/ Abort(q) PROVE IInv' /\ Onward
  BY <1>2, MeasureKeeps, IdleKeeps DEF Abort
<1>3. ASSUME NEW q \in Requests, Step(q) PROVE IInv' /\ Onward
  BY <1>3, ReturnKeeps, LookKeeps, ComputeKeeps, WriteKeeps, KeepKeeps, CommitKeeps DEF Step
<1>4. ASSUME NEW e \in events, NEW status \in Reviews, Review(e, status) PROVE IInv' /\ Onward
  BY <1>4, ReviewKeeps
<1>5. CASE UNCHANGED vars
  <2>1. UNCHANGED <<today, runs, rows, events, req, raced>>
    BY <1>5 DEF vars
  <2>2. Typed /\ Onward
    BY <2>1 DEF IInv, Onward, Known, Action, Elapsed, From
  <2>3. Typed'
    BY <2>1, <2>2 DEF Typed
  <2> QED BY <2>1, <2>2, <2>3, AroundKeeps
<1> QED BY <1>1, <1>2, <1>3, <1>4, <1>5 DEF Next

\* The inductive invariant holds throughout.
THEOREM Invariant == Spec => []IInv
BY InitIInv, StepIInv, PTL DEF Spec

\* RowFromOneMeasurement: label and returns of a row belong together.
THEOREM AlwaysOneMeasurement == Spec => []RowFromOneMeasurement
<1>1. ASSUME IInv PROVE RowFromOneMeasurement
  BY <1>1 DEF IInv, RowsGood, Consistent, RowFromOneMeasurement
<1> QED BY <1>1, Invariant, PTL

\* EventsBacked: every learning event has the outcome it was drawn from.
THEOREM AlwaysBacked == Spec => []EventsBacked
<1>1. ASSUME IInv PROVE EventsBacked
  BY <1>1 DEF IInv, EventsGood, Backed, Final, Measured, EventsBacked
<1> QED BY <1>1, Invariant, PTL

\* SettledStays: a row with a result keeps it, unless two requests wrote it.
THEOREM ResultsStay == Spec => SettledStays
<1>1. ASSUME Onward
      PROVE  \A rec \in Recs :
               /\ rows[rec] # NoRow /\ rows[rec].status # "PENDING" => rows'[rec].status # "PENDING"
               /\ rec \notin raced' /\ Measured(rec) => rows'[rec] = rows[rec]
  BY <1>1 DEF Onward, Final, Measured
<1> QED BY <1>1, StepIInv, Invariant, PTL DEF Spec, SettledStays

-----------------------------------------------------------------------------
(* Memory: the inductive invariant *)

CliTyped == cli \in [at : {"idle", "reindexing"}, seen : SUBSET Executions,
                     todo : SUBSET Executions, fixed : SUBSET Executions]

Past == {"indexed", "committed", "lost"}

\* What an execution has in the database it wrote when it persisted.
RowsFiled == \A e \in Executions :
  /\ event[e] # "NONE" => at[e] \in {"indexed", "committed"}
  /\ neutral[e] => at[e] \in {"unsaved", "indexed", "committed"}
  /\ at[e] = "indexed" => event[e] # "NONE"

\* A reset wiped only what was indexed before.
WipedPast == \A e \in wiped : at[e] \in Past

\* An event that says INDEXED has a report, unless a reset took it.
IndexedKept == \A e \in Executions :
  event[e] = "INDEXED" => reports[RunOf[e]] # NoReport \/ e \in wiped

\* The command line works on committed recommendations, and what it has
\* upserted has a report, unless a reset took it.
CliCommitted ==
  /\ \A e \in cli.todo : at[e] = "committed" /\ neutral[e]
  /\ \A e \in cli.fixed : /\ at[e] = "committed" /\ neutral[e]
                          /\ reports[RunOf[e]] # NoReport \/ e \in wiped
  /\ cli.fixed # {} => restamped

MemoryInv == /\ MemoryTyped /\ CliTyped /\ RowsFiled /\ WipedPast /\ IndexedKept /\ CliCommitted
             /\ ReportsExplained

\* Reports are dated by the clock, and a report that was not renewed is at
\* least as young as any that its run indexed.
Dated ==
  /\ \A e \in Executions : stamped[e] <= clock
  /\ \A r \in Runs : reports[r] # NoReport => reports[r].stamp <= clock
  /\ ~restamped => \A e \in Executions :
       event[e] = "INDEXED" /\ e \notin wiped => stamped[e] <= reports[RunOf[e]].stamp

-----------------------------------------------------------------------------
(* What an upsert leaves *)

\* An upsert leaves the report of one execution under its run.
LEMMA Upserted ==
  ASSUME MemoryTyped, NEW e \in Executions, Upsert(e)
  PROVE  /\ clock' = clock + 1 /\ clock' \in Nat
         /\ reports' \in [Runs -> Report \cup {NoReport}]
         /\ RunOf[e] \in Runs
         /\ reports'[RunOf[e]] \in Report /\ reports'[RunOf[e]] # NoReport
         /\ reports'[RunOf[e]].by = e /\ reports'[RunOf[e]].stamp = clock + 1
         /\ \A r \in Runs : r # RunOf[e] => reports'[r] = reports[r]
         /\ \A r \in Runs : reports[r] # NoReport => reports'[r] # NoReport
<1> DEFINE new == [by |-> e, stamp |-> clock + 1]
<1>4. reports \in [Runs -> Report \cup {NoReport}] /\ clock \in Nat
  BY Zenon DEF MemoryTyped
<1>1. new \in Report /\ new # NoReport /\ new.by = e /\ new.stamp = clock + 1
  <2>1. PICK c \in Nat : c = clock + 1
    BY <1>4
  <2>2. [by |-> e, stamp |-> c] \in Report
    BY DEF Report
  <2>3. NoReport \notin Report
    BY MemoryConstants DEF Report
  <2> QED BY <2>1, <2>2, <2>3
<1>2. reports' = [reports EXCEPT ![RunOf[e]] = new] /\ clock' = clock + 1
  BY DEF Upsert
<1>3. RunOf[e] \in Runs
  BY MemoryConstants
<1> HIDE DEF new
<1>5. reports'[RunOf[e]] = new /\ reports' \in [Runs -> Report \cup {NoReport}]
  BY <1>1, <1>2, <1>3, <1>4
<1>6. \A r \in Runs : r # RunOf[e] => reports'[r] = reports[r]
  BY <1>2, <1>4
<1> QED BY <1>1, <1>2, <1>3, <1>4, <1>5, <1>6
-----------------------------------------------------------------------------
(* The invariant of the memory is kept *)

\* what MemoryTyped says of each variable
LEMMA Types ==
  ASSUME MemoryTyped
  PROVE  /\ at \in [Executions -> {"waiting", "asked", "unsaved", "indexed", "committed", "lost"}]
         /\ neutral \in [Executions -> BOOLEAN]
         /\ event \in [Executions -> {"NONE", "INDEXED", "FAILED"}]
         /\ reports \in [Runs -> Report \cup {NoReport}]
         /\ clock \in Nat
         /\ stamped \in [Executions -> Nat]
         /\ wiped \subseteq Executions
         /\ cli.seen \subseteq Executions /\ cli.todo \subseteq Executions
         /\ cli.fixed \subseteq Executions
         /\ RunOf \in [Executions -> Runs]
BY MemoryConstants, Zenon DEF MemoryTyped

\* Commit keeps the invariant.
LEMMA CommitExecutionKeeps ==
  ASSUME MemoryInv, NEW e \in Executions, CommitExecution(e)
  PROVE  RowsFiled' /\ WipedPast' /\ IndexedKept' /\ CliCommitted' /\ ReportsExplained'
<1>1. RowsFiled' /\ WipedPast' /\ IndexedKept'
  BY Types DEF MemoryInv, CommitExecution, RowsFiled, WipedPast, IndexedKept, Past, history
<1>2. CliCommitted'
  BY Types DEF MemoryInv, CommitExecution, CliCommitted, history
<1>3. ReportsExplained'
  BY Types DEF MemoryInv, CommitExecution, ReportsExplained, Committed, Recommendations,
     history, RowsFiled, Report
<1> QED BY <1>1, <1>2, <1>3

\* Lose keeps the invariant.
LEMMA LoseKeeps ==
  ASSUME MemoryInv, NEW e \in Executions, Lose(e)
  PROVE  RowsFiled' /\ WipedPast' /\ IndexedKept' /\ CliCommitted' /\ ReportsExplained'
<1>1. RowsFiled' /\ WipedPast' /\ IndexedKept'
  BY Types DEF MemoryInv, Lose, RowsFiled, WipedPast, IndexedKept, Past, history
<1>2. CliCommitted'
  BY Types DEF MemoryInv, Lose, CliCommitted, history
<1>3. ReportsExplained'
  BY Types DEF MemoryInv, Lose, ReportsExplained, Committed, Recommendations,
     history, RowsFiled, Report
<1> QED BY <1>1, <1>2, <1>3

\* Persist keeps the invariant.
LEMMA PersistKeeps ==
  ASSUME MemoryInv, NEW e \in Executions, Persist(e)
  PROVE  RowsFiled' /\ WipedPast' /\ IndexedKept' /\ CliCommitted' /\ ReportsExplained'
<1>1. RowsFiled' /\ WipedPast'
  BY Types DEF MemoryInv, Persist, RowsFiled, WipedPast, Past
<1>2. IndexedKept'
  BY Types, Upserted DEF MemoryInv, Persist, IndexedKept
<1>3. CliCommitted'
  BY Types, Upserted DEF MemoryInv, Persist, CliCommitted
<1>4. ReportsExplained'
  BY Types, Upserted DEF MemoryInv, Persist, ReportsExplained, Committed, Recommendations,
     RowsFiled, Report
<1> QED BY <1>1, <1>2, <1>3, <1>4

\* IndexFails keeps the invariant.
LEMMA IndexFailsKeeps ==
  ASSUME MemoryInv, NEW e \in Executions, IndexFails(e)
  PROVE  RowsFiled' /\ WipedPast' /\ IndexedKept' /\ CliCommitted' /\ ReportsExplained'
<1>1. RowsFiled' /\ WipedPast'
  BY Types DEF MemoryInv, IndexFails, RowsFiled, WipedPast, Past, history
<1>2. IndexedKept'
  BY Types, Upserted DEF MemoryInv, IndexFails, IndexedKept, history
<1>3. CliCommitted'
  BY Types, Upserted DEF MemoryInv, IndexFails, CliCommitted, history
<1>4. ReportsExplained'
  BY Types, Upserted DEF MemoryInv, IndexFails, ReportsExplained, Committed, Recommendations,
     RowsFiled, Report, history
<1> QED BY <1>1, <1>2, <1>3, <1>4

\* Retrieve keeps the invariant.
LEMMA RetrieveKeeps ==
  ASSUME MemoryInv, NEW e \in Executions, Retrieve(e)
  PROVE  RowsFiled' /\ WipedPast' /\ IndexedKept' /\ CliCommitted' /\ ReportsExplained'
<1>1. RowsFiled' /\ WipedPast'
  BY Types DEF MemoryInv, Retrieve, RowsFiled, WipedPast, Past, history
<1>2. IndexedKept'
  BY Types DEF MemoryInv, Retrieve, IndexedKept, history
<1>3. CliCommitted'
  BY Types DEF MemoryInv, Retrieve, CliCommitted, history
<1>4. ReportsExplained'
  <2>1. at[e] = "waiting" /\ at' = [at EXCEPT ![e] = "asked"] /\ reports' = reports /\ event' = event
        /\ neutral' = neutral /\ restamped' = restamped
    BY DEF Retrieve, history
  <2> QED BY <2>1, Types DEF MemoryInv, ReportsExplained, Committed, Recommendations, Report
<1> QED BY <1>1, <1>2, <1>3, <1>4

\* RetrieveFails keeps the invariant.
LEMMA RetrieveFailsKeeps ==
  ASSUME MemoryInv, NEW e \in Executions, RetrieveFails(e)
  PROVE  RowsFiled' /\ WipedPast' /\ IndexedKept' /\ CliCommitted' /\ ReportsExplained'
<1>1. RowsFiled' /\ WipedPast'
  BY Types DEF MemoryInv, RetrieveFails, RowsFiled, WipedPast, Past, history
<1>2. IndexedKept'
  BY Types DEF MemoryInv, RetrieveFails, IndexedKept, history
<1>3. CliCommitted'
  BY Types DEF MemoryInv, RetrieveFails, CliCommitted, history
<1>4. ReportsExplained'
  BY Types DEF MemoryInv, RetrieveFails, ReportsExplained, Committed, Recommendations,
     RowsFiled, Report, history
<1> QED BY <1>1, <1>2, <1>3, <1>4

\* SaveFails keeps the invariant.
LEMMA SaveFailsKeeps ==
  ASSUME MemoryInv, NEW e \in Executions, SaveFails(e)
  PROVE  RowsFiled' /\ WipedPast' /\ IndexedKept' /\ CliCommitted' /\ ReportsExplained'
<1>1. RowsFiled' /\ WipedPast'
  BY Types DEF MemoryInv, SaveFails, RowsFiled, WipedPast, Past, history
<1>2. IndexedKept'
  BY Types DEF MemoryInv, SaveFails, IndexedKept, history
<1>3. CliCommitted'
  BY Types DEF MemoryInv, SaveFails, CliCommitted, history
<1>4. ReportsExplained'
  BY Types DEF MemoryInv, SaveFails, ReportsExplained, Committed, Recommendations,
     RowsFiled, Report, history
<1> QED BY <1>1, <1>2, <1>3, <1>4

\* ReindexOne keeps the invariant.
LEMMA ReindexOneKeeps ==
  ASSUME MemoryInv, NEW e \in Executions, ReindexOne(e)
  PROVE  RowsFiled' /\ WipedPast' /\ IndexedKept' /\ CliCommitted' /\ ReportsExplained'
<1>1. RowsFiled' /\ WipedPast'
  BY Types DEF MemoryInv, ReindexOne, RowsFiled, WipedPast, Past, database
<1>2. IndexedKept'
  BY Types, Upserted DEF MemoryInv, ReindexOne, IndexedKept, database
<1>3. CliCommitted'
  BY Types, Upserted DEF MemoryInv, ReindexOne, CliCommitted, database
<1>4. ReportsExplained'
  BY Types, Upserted DEF MemoryInv, ReindexOne, ReportsExplained, CliCommitted, RowsFiled,
     Committed, Recommendations, Report, database
<1> QED BY <1>1, <1>2, <1>3, <1>4

\* ReindexOneFails keeps the invariant.
LEMMA ReindexOneFailsKeeps ==
  ASSUME MemoryInv, NEW e \in Executions, ReindexOneFails(e)
  PROVE  RowsFiled' /\ WipedPast' /\ IndexedKept' /\ CliCommitted' /\ ReportsExplained'
<1>1. RowsFiled' /\ WipedPast'
  BY Types DEF MemoryInv, ReindexOneFails, RowsFiled, WipedPast, Past, history, database
<1>2. IndexedKept'
  BY Types DEF MemoryInv, ReindexOneFails, IndexedKept, history, database
<1>3. CliCommitted'
  BY Types DEF MemoryInv, ReindexOneFails, CliCommitted, history, database
<1>4. ReportsExplained'
  BY Types DEF MemoryInv, ReindexOneFails, ReportsExplained, Committed, Recommendations,
     RowsFiled, Report, history, database
<1> QED BY <1>1, <1>2, <1>3, <1>4

\* Reindex keeps the invariant.
LEMMA ReindexKeeps ==
  ASSUME MemoryInv, Reindex
  PROVE  RowsFiled' /\ WipedPast' /\ IndexedKept' /\ CliCommitted' /\ ReportsExplained'
<1>1. RowsFiled' /\ WipedPast'
  BY Types DEF MemoryInv, Reindex, RowsFiled, WipedPast, Past, history, database
<1>2. IndexedKept'
  BY Types DEF MemoryInv, Reindex, IndexedKept, history, database
<1>3. CliCommitted'
  BY Types DEF MemoryInv, Reindex, CliCommitted, Failed, Recommendations, Committed, history, database
<1>4. ReportsExplained'
  BY Types DEF MemoryInv, Reindex, ReportsExplained, Committed, Recommendations,
     RowsFiled, Report, history, database
<1> QED BY <1>1, <1>2, <1>3, <1>4

\* ReindexEnds keeps the invariant.
LEMMA ReindexEndsKeeps ==
  ASSUME MemoryInv, ReindexEnds
  PROVE  RowsFiled' /\ WipedPast' /\ IndexedKept' /\ CliCommitted' /\ ReportsExplained'
<1>1. RowsFiled' /\ WipedPast'
  BY Types DEF MemoryInv, ReindexEnds, RowsFiled, WipedPast, CliCommitted, Past, history, database
<1>2. IndexedKept'
  BY Types DEF MemoryInv, ReindexEnds, IndexedKept, CliCommitted, history
<1>3. CliCommitted'
  BY DEF ReindexEnds, CliCommitted, NoCommand
<1>4. ReportsExplained'
  BY Types DEF MemoryInv, ReindexEnds, ReportsExplained, Committed, Recommendations,
     RowsFiled, Report, history, database
<1> QED BY <1>1, <1>2, <1>3, <1>4

\* ReindexDies keeps the invariant.
LEMMA ReindexDiesKeeps ==
  ASSUME MemoryInv, ReindexDies
  PROVE  RowsFiled' /\ WipedPast' /\ IndexedKept' /\ CliCommitted' /\ ReportsExplained'
<1>1. RowsFiled' /\ WipedPast'
  BY Types DEF MemoryInv, ReindexDies, RowsFiled, WipedPast, Past, history, database
<1>2. IndexedKept'
  BY Types DEF MemoryInv, ReindexDies, IndexedKept, history, database
<1>3. CliCommitted'
  BY DEF ReindexDies, CliCommitted, NoCommand
<1>4. ReportsExplained'
  BY Types DEF MemoryInv, ReindexDies, ReportsExplained, Committed, Recommendations,
     RowsFiled, Report, history, database
<1> QED BY <1>1, <1>2, <1>3, <1>4

\* Reset keeps the invariant.
LEMMA ResetKeeps ==
  ASSUME MemoryInv, Reset
  PROVE  RowsFiled' /\ WipedPast' /\ IndexedKept' /\ CliCommitted' /\ ReportsExplained'
<1>1. RowsFiled' /\ WipedPast'
  BY Types DEF MemoryInv, Reset, RowsFiled, WipedPast, Past, database
<1>2. IndexedKept'
  BY Types DEF MemoryInv, Reset, IndexedKept, RowsFiled, database
<1>3. CliCommitted'
  BY Types DEF MemoryInv, Reset, CliCommitted, database
<1>4. ReportsExplained'
  BY Types DEF MemoryInv, Reset, ReportsExplained, Committed, Recommendations,
     RowsFiled, Report, database
<1> QED BY <1>1, <1>2, <1>3, <1>4
-----------------------------------------------------------------------------
(* Types are kept *)

\* the part of MemoryTyped about the database and the collection
DataTyped ==
  /\ at \in [Executions -> {"waiting", "asked", "unsaved", "indexed", "committed", "lost"}]
  /\ neutral \in [Executions -> BOOLEAN]
  /\ event \in [Executions -> {"NONE", "INDEXED", "FAILED"}]
  /\ reports \in [Runs -> Report \cup {NoReport}]
  /\ clock \in Nat
  /\ stamped \in [Executions -> Nat] /\ wiped \subseteq Executions /\ restamped \in BOOLEAN

ToldTyped ==
  told \in [Executions -> [as : {"nothing", "first run", "previous", "failed"},
                           missed : SUBSET Executions]]

BoundsTyped == faults \in Nat /\ commands \in Nat

\* The type invariant in parts.
LEMMA TypeParts == MemoryTyped /\ CliTyped <=> DataTyped /\ ToldTyped /\ BoundsTyped /\ CliTyped
BY DEF MemoryTyped, DataTyped, ToldTyped, BoundsTyped, CliTyped

\* Retrieve keeps the types.
LEMMA RetrieveTyped ==
  ASSUME MemoryTyped, CliTyped, NEW e \in Executions, Retrieve(e)
  PROVE  DataTyped' /\ ToldTyped' /\ BoundsTyped' /\ CliTyped'
<1>1. DataTyped'
  BY Types DEF Retrieve, DataTyped, database, history, MemoryTyped
<1>2. ToldTyped'
  <2>1. \A R : Missed(R) \subseteq Executions
    BY DEF Missed, Remembered, Recommendations, Committed
  <2>2. PICK as \in {"first run", "previous"}, m \in SUBSET Executions :
                told' = [told EXCEPT ![e] = [as |-> as, missed |-> m]]
    BY <2>1 DEF Retrieve, Tell
  <2> QED BY <2>2, TypeParts DEF ToldTyped
<1>3. BoundsTyped'
  BY TypeParts DEF Retrieve, BoundsTyped, bounds, Fault, Command
<1>4. CliTyped'
  BY TypeParts DEF Retrieve, CliTyped, NoCommand
<1> QED BY <1>1, <1>2, <1>3, <1>4

\* RetrieveFails keeps the types.
LEMMA RetrieveFailsTyped ==
  ASSUME MemoryTyped, CliTyped, NEW e \in Executions, RetrieveFails(e)
  PROVE  DataTyped' /\ ToldTyped' /\ BoundsTyped' /\ CliTyped'
<1>1. DataTyped'
  BY Types DEF RetrieveFails, DataTyped, database, history, MemoryTyped
<1>2. ToldTyped'
  BY TypeParts DEF RetrieveFails, ToldTyped, Tell
<1>3. BoundsTyped'
  BY TypeParts DEF RetrieveFails, BoundsTyped, bounds, Fault, Command
<1>4. CliTyped'
  BY TypeParts DEF RetrieveFails, CliTyped, NoCommand
<1> QED BY <1>1, <1>2, <1>3, <1>4

\* Persist keeps the types.
LEMMA PersistTyped ==
  ASSUME MemoryTyped, CliTyped, NEW e \in Executions, Persist(e)
  PROVE  DataTyped' /\ ToldTyped' /\ BoundsTyped' /\ CliTyped'
<1>1. DataTyped'
  <2>1. neutral' \in [Executions -> BOOLEAN]
    BY Types, Zenon DEF Persist
  <2>2. reports' \in [Runs -> Report \cup {NoReport}] /\ clock' \in Nat
    BY Types, Upserted DEF Persist
  <2>3. /\ at' \in [Executions -> {"waiting", "asked", "unsaved", "indexed", "committed", "lost"}]
        /\ event' \in [Executions -> {"NONE", "INDEXED", "FAILED"}]
        /\ stamped' \in [Executions -> Nat]
    BY Types DEF Persist
  <2>4. wiped' \subseteq Executions /\ restamped' \in BOOLEAN
    BY Types, Zenon DEF Persist, MemoryTyped
  <2> QED BY <2>1, <2>2, <2>3, <2>4 DEF DataTyped
<1>2. ToldTyped'
  BY TypeParts DEF Persist, ToldTyped, Tell
<1>3. BoundsTyped'
  BY TypeParts DEF Persist, BoundsTyped, bounds, Fault, Command
<1>4. CliTyped'
  BY TypeParts DEF Persist, CliTyped, NoCommand
<1> QED BY <1>1, <1>2, <1>3, <1>4

\* IndexFails keeps the types.
LEMMA IndexFailsTyped ==
  ASSUME MemoryTyped, CliTyped, NEW e \in Executions, IndexFails(e)
  PROVE  DataTyped' /\ ToldTyped' /\ BoundsTyped' /\ CliTyped'
<1>1. DataTyped'
  <2>1. neutral' \in [Executions -> BOOLEAN]
    BY Types, Zenon DEF IndexFails
  <2>2. reports' \in [Runs -> Report \cup {NoReport}] /\ clock' \in Nat
    BY Types, Upserted DEF IndexFails
  <2>3. /\ at' \in [Executions -> {"waiting", "asked", "unsaved", "indexed", "committed", "lost"}]
        /\ event' \in [Executions -> {"NONE", "INDEXED", "FAILED"}]
        /\ stamped' \in [Executions -> Nat]
    BY Types DEF IndexFails, history
  <2>4. wiped' \subseteq Executions /\ restamped' \in BOOLEAN
    BY Types, Zenon DEF IndexFails, MemoryTyped, history
  <2> QED BY <2>1, <2>2, <2>3, <2>4 DEF DataTyped
<1>2. ToldTyped'
  BY TypeParts DEF IndexFails, ToldTyped, Tell
<1>3. BoundsTyped'
  BY TypeParts DEF IndexFails, BoundsTyped, bounds, Fault, Command
<1>4. CliTyped'
  BY TypeParts DEF IndexFails, CliTyped, NoCommand
<1> QED BY <1>1, <1>2, <1>3, <1>4

\* SaveFails keeps the types.
LEMMA SaveFailsTyped ==
  ASSUME MemoryTyped, CliTyped, NEW e \in Executions, SaveFails(e)
  PROVE  DataTyped' /\ ToldTyped' /\ BoundsTyped' /\ CliTyped'
<1>1. DataTyped'
  BY Types DEF SaveFails, DataTyped, database, history, MemoryTyped
<1>2. ToldTyped'
  BY TypeParts DEF SaveFails, ToldTyped, Tell
<1>3. BoundsTyped'
  BY TypeParts DEF SaveFails, BoundsTyped, bounds, Fault, Command
<1>4. CliTyped'
  BY TypeParts DEF SaveFails, CliTyped, NoCommand
<1> QED BY <1>1, <1>2, <1>3, <1>4

\* Commit keeps the types.
LEMMA CommitTyped ==
  ASSUME MemoryTyped, CliTyped, NEW e \in Executions, CommitExecution(e)
  PROVE  DataTyped' /\ ToldTyped' /\ BoundsTyped' /\ CliTyped'
<1>1. DataTyped'
  BY Types DEF CommitExecution, DataTyped, database, history, MemoryTyped
<1>2. ToldTyped'
  BY TypeParts DEF CommitExecution, ToldTyped, Tell
<1>3. BoundsTyped'
  BY TypeParts DEF CommitExecution, BoundsTyped, bounds, Fault, Command
<1>4. CliTyped'
  BY TypeParts DEF CommitExecution, CliTyped, NoCommand
<1> QED BY <1>1, <1>2, <1>3, <1>4

\* Lose keeps the types.
LEMMA LoseTyped ==
  ASSUME MemoryTyped, CliTyped, NEW e \in Executions, Lose(e)
  PROVE  DataTyped' /\ ToldTyped' /\ BoundsTyped' /\ CliTyped'
<1>1. DataTyped'
  BY Types DEF Lose, DataTyped, database, history, MemoryTyped
<1>2. ToldTyped'
  BY TypeParts DEF Lose, ToldTyped, Tell
<1>3. BoundsTyped'
  BY TypeParts DEF Lose, BoundsTyped, bounds, Fault, Command
<1>4. CliTyped'
  BY TypeParts DEF Lose, CliTyped, NoCommand
<1> QED BY <1>1, <1>2, <1>3, <1>4

\* ReindexOne keeps the types.
LEMMA ReindexOneTyped ==
  ASSUME MemoryTyped, CliTyped, NEW e \in Executions, ReindexOne(e)
  PROVE  DataTyped' /\ ToldTyped' /\ BoundsTyped' /\ CliTyped'
<1>1. DataTyped'
  BY Types, Upserted DEF ReindexOne, DataTyped, database, history, MemoryTyped
<1>2. ToldTyped'
  BY TypeParts DEF ReindexOne, ToldTyped, Tell
<1>3. BoundsTyped'
  BY TypeParts DEF ReindexOne, BoundsTyped, bounds, Fault, Command
<1>4. CliTyped'
  BY TypeParts DEF ReindexOne, CliTyped, NoCommand
<1> QED BY <1>1, <1>2, <1>3, <1>4

\* ReindexOneFails keeps the types.
LEMMA ReindexOneFailsTyped ==
  ASSUME MemoryTyped, CliTyped, NEW e \in Executions, ReindexOneFails(e)
  PROVE  DataTyped' /\ ToldTyped' /\ BoundsTyped' /\ CliTyped'
<1>1. DataTyped'
  BY Types DEF ReindexOneFails, DataTyped, database, history, MemoryTyped
<1>2. ToldTyped'
  BY TypeParts DEF ReindexOneFails, ToldTyped, Tell
<1>3. BoundsTyped'
  BY TypeParts DEF ReindexOneFails, BoundsTyped, bounds, Fault, Command
<1>4. CliTyped'
  BY TypeParts DEF ReindexOneFails, CliTyped, NoCommand
<1> QED BY <1>1, <1>2, <1>3, <1>4

\* Reindex keeps the types.
LEMMA ReindexTyped ==
  ASSUME MemoryTyped, CliTyped, Reindex
  PROVE  DataTyped' /\ ToldTyped' /\ BoundsTyped' /\ CliTyped'
<1>1. DataTyped'
  BY Types DEF Reindex, DataTyped, database, history, MemoryTyped
<1>2. ToldTyped'
  BY TypeParts DEF Reindex, ToldTyped, Tell
<1>3. BoundsTyped'
  BY TypeParts DEF Reindex, BoundsTyped, bounds, Fault, Command
<1>4. CliTyped'
  BY TypeParts DEF Reindex, CliTyped, Failed, Recommendations, Committed
<1> QED BY <1>1, <1>2, <1>3, <1>4

\* ReindexEnds keeps the types.
LEMMA ReindexEndsTyped ==
  ASSUME MemoryTyped, CliTyped, ReindexEnds
  PROVE  DataTyped' /\ ToldTyped' /\ BoundsTyped' /\ CliTyped'
<1>1. DataTyped'
  BY Types DEF ReindexEnds, DataTyped, database, history, MemoryTyped
<1>2. ToldTyped'
  BY TypeParts DEF ReindexEnds, ToldTyped, Tell
<1>3. BoundsTyped'
  BY TypeParts DEF ReindexEnds, BoundsTyped, bounds, Fault, Command
<1>4. CliTyped'
  BY TypeParts DEF ReindexEnds, CliTyped, NoCommand
<1> QED BY <1>1, <1>2, <1>3, <1>4

\* ReindexDies keeps the types.
LEMMA ReindexDiesTyped ==
  ASSUME MemoryTyped, CliTyped, ReindexDies
  PROVE  DataTyped' /\ ToldTyped' /\ BoundsTyped' /\ CliTyped'
<1>1. DataTyped'
  BY Types DEF ReindexDies, DataTyped, database, history, MemoryTyped
<1>2. ToldTyped'
  BY TypeParts DEF ReindexDies, ToldTyped, Tell
<1>3. BoundsTyped'
  BY TypeParts DEF ReindexDies, BoundsTyped, bounds, Fault, Command
<1>4. CliTyped'
  BY TypeParts DEF ReindexDies, CliTyped, NoCommand
<1> QED BY <1>1, <1>2, <1>3, <1>4

\* Reset keeps the types.
LEMMA ResetTyped ==
  ASSUME MemoryTyped, CliTyped, Reset
  PROVE  DataTyped' /\ ToldTyped' /\ BoundsTyped' /\ CliTyped'
<1>1. DataTyped'
  BY Types DEF Reset, DataTyped, database, history, MemoryTyped
<1>2. ToldTyped'
  BY TypeParts DEF Reset, ToldTyped, Tell
<1>3. BoundsTyped'
  BY TypeParts DEF Reset, BoundsTyped, bounds, Fault, Command
<1>4. CliTyped'
  BY TypeParts DEF Reset, CliTyped, NoCommand
<1> QED BY <1>1, <1>2, <1>3, <1>4

-----------------------------------------------------------------------------
(* The theorems *)

\* Nothing is asked, filed or reindexed at the start.
LEMMA InitMemoryInv == InitMemory => MemoryInv
<1> SUFFICES ASSUME InitMemory PROVE MemoryInv
  OBVIOUS
<1>1. MemoryTyped /\ CliTyped
  BY MemoryConstants, TypeParts
     DEF InitMemory, DataTyped, ToldTyped, BoundsTyped, CliTyped, NoCommand, Untold
<1>2. RowsFiled /\ WipedPast /\ IndexedKept /\ ReportsExplained
  BY MemoryConstants DEF InitMemory, RowsFiled, WipedPast, IndexedKept, ReportsExplained
<1>3. CliCommitted
  BY DEF InitMemory, CliCommitted, NoCommand
<1> QED BY <1>1, <1>2, <1>3 DEF MemoryInv

\* Each step keeps the types and each part of the invariant.
LEMMA StepMemoryInv == MemoryInv /\ [NextMemory]_memoryVars => MemoryInv'
<1> SUFFICES ASSUME MemoryInv, [NextMemory]_memoryVars PROVE MemoryInv'
  OBVIOUS
<1>0. MemoryTyped /\ CliTyped
  BY DEF MemoryInv
<1> DEFINE AllTyped == DataTyped' /\ ToldTyped' /\ BoundsTyped' /\ CliTyped'
           Kept == RowsFiled' /\ WipedPast' /\ IndexedKept' /\ CliCommitted' /\ ReportsExplained'
<1>1. ASSUME NEW e \in Executions, Execute(e) PROVE AllTyped /\ Kept
  <2>1. CASE Retrieve(e)
    BY <1>0, <2>1, RetrieveTyped, RetrieveKeeps
  <2>2. CASE RetrieveFails(e)
    BY <1>0, <2>2, RetrieveFailsTyped, RetrieveFailsKeeps
  <2>3. CASE Persist(e)
    BY <1>0, <2>3, PersistTyped, PersistKeeps
  <2>4. CASE IndexFails(e)
    BY <1>0, <2>4, IndexFailsTyped, IndexFailsKeeps
  <2>5. CASE SaveFails(e)
    BY <1>0, <2>5, SaveFailsTyped, SaveFailsKeeps
  <2>6. CASE CommitExecution(e)
    BY <1>0, <2>6, CommitTyped, CommitExecutionKeeps
  <2>7. CASE Lose(e)
    BY <1>0, <2>7, LoseTyped, LoseKeeps
  <2> QED BY <1>1, <2>1, <2>2, <2>3, <2>4, <2>5, <2>6, <2>7 DEF Execute
<1>2. ASSUME NEW e \in Executions, ReindexOne(e) PROVE AllTyped /\ Kept
  BY <1>0, <1>2, ReindexOneTyped, ReindexOneKeeps
<1>3. ASSUME NEW e \in Executions, ReindexOneFails(e) PROVE AllTyped /\ Kept
  BY <1>0, <1>3, ReindexOneFailsTyped, ReindexOneFailsKeeps
<1>4. ASSUME Reindex PROVE AllTyped /\ Kept
  BY <1>0, <1>4, ReindexTyped, ReindexKeeps
<1>5. ASSUME ReindexEnds PROVE AllTyped /\ Kept
  BY <1>0, <1>5, ReindexEndsTyped, ReindexEndsKeeps
<1>6. ASSUME ReindexDies PROVE AllTyped /\ Kept
  BY <1>0, <1>6, ReindexDiesTyped, ReindexDiesKeeps
<1>7. ASSUME Reset PROVE AllTyped /\ Kept
  BY <1>0, <1>7, ResetTyped, ResetKeeps
<1>8. ASSUME UNCHANGED memoryVars PROVE AllTyped /\ Kept
  <2>1. DataTyped' /\ ToldTyped' /\ BoundsTyped' /\ CliTyped'
    BY <1>0, <1>8, TypeParts
       DEF memoryVars, database, bounds, history, DataTyped, ToldTyped, BoundsTyped, CliTyped
  <2>2. Kept
    BY <1>8 DEF MemoryInv, memoryVars, database, bounds, history,
                RowsFiled, WipedPast, IndexedKept, CliCommitted, ReportsExplained,
                Committed, Recommendations
  <2> QED BY <2>1, <2>2
<1>9. AllTyped /\ Kept
  BY <1>1, <1>2, <1>3, <1>4, <1>5, <1>6, <1>7, <1>8 DEF NextMemory
<1>10. MemoryTyped' /\ CliTyped'
  BY <1>9 DEF MemoryTyped, DataTyped, ToldTyped, BoundsTyped, CliTyped
<1> QED BY <1>9, <1>10 DEF MemoryInv

\* The inductive invariant holds throughout.
THEOREM MemoryInvariant == MemorySpec => []MemoryInv
BY InitMemoryInv, StepMemoryInv, PTL DEF MemorySpec

\* MemoryTyped: every variable keeps its type.
THEOREM MemoryTypeCorrect == MemorySpec => []MemoryTyped
<1>1. MemoryInv => MemoryTyped
  BY DEF MemoryInv
<1> QED BY <1>1, MemoryInvariant, PTL

\* NothingForgotten: an event that says INDEXED has a report that only a reset
\* takes, whichever execution, retry or reindex wrote either; any other is FAILED.
THEOREM NeverForgotten == MemorySpec => []NothingForgotten
<1>1. ASSUME MemoryInv PROVE NothingForgotten
  BY <1>1, Types DEF MemoryInv, RowsFiled, IndexedKept, NothingForgotten, Filed, Recommendations, Committed
<1> QED BY <1>1, MemoryInvariant, PTL

\* ReportsExplained: whoever a report is about has persisted it, and lost it only with
\* its transaction, or has committed a recommendation that was reindexed.
THEOREM AlwaysExplained == MemorySpec => []ReportsExplained
<1>1. MemoryInv => ReportsExplained
  BY DEF MemoryInv
<1> QED BY <1>1, MemoryInvariant, PTL

-----------------------------------------------------------------------------
(* What the memory tells *)

\* Steps that leave the collection and its dates alone, and mark nothing INDEXED.
LEMMA DatedStays ==
  ASSUME Dated, UNCHANGED <<reports, clock, stamped, wiped, restamped>>,
         \A e \in Executions : event'[e] = "INDEXED" => restamped \/ event[e] = "INDEXED"
  PROVE  Dated'
BY DEF Dated

\* A report is dated later than all there are.
LEMMA PersistDated ==
  ASSUME MemoryInv, Dated, NEW e \in Executions, Persist(e)
  PROVE  Dated'
<1>1. MemoryTyped /\ Upsert(e)
  BY DEF MemoryInv, Persist
<1>2. /\ \A x \in Executions : stamped'[x] = IF x = e THEN clock + 1 ELSE stamped[x]
      /\ \A x \in Executions : x # e => event'[x] = event[x]
      /\ UNCHANGED <<wiped, restamped>>
  BY <1>1, Types DEF Persist
<1>3. \A x \in Executions : stamped'[x] <= clock'
  BY <1>1, <1>2, Types, Upserted DEF Dated
<1>4. \A r \in Runs : reports'[r] # NoReport => reports'[r].stamp <= clock'
  BY <1>1, Types, Upserted DEF Dated, Report
<1>5. ASSUME ~restamped', NEW x \in Executions, event'[x] = "INDEXED", x \notin wiped'
      PROVE  stamped'[x] <= reports'[RunOf[x]].stamp
  <2>1. CASE RunOf[x] = RunOf[e]
    BY <1>1, <1>3, <2>1, Upserted
  <2>2. CASE RunOf[x] # RunOf[e]
    BY <1>1, <1>2, <1>5, <2>2, Types, Upserted DEF Dated
  <2> QED BY <2>1, <2>2
<1> QED BY <1>3, <1>4, <1>5 DEF Dated

\* An upsert that raised may have been done.
LEMMA IndexFailsDated ==
  ASSUME MemoryInv, Dated, NEW e \in Executions, IndexFails(e)
  PROVE  Dated'
<1>1. MemoryTyped /\ event' = [event EXCEPT ![e] = "FAILED"] /\ UNCHANGED <<stamped, wiped, restamped>>
  BY DEF MemoryInv, IndexFails, history
<1>2. CASE UNCHANGED <<reports, clock>>
  BY <1>1, <1>2, Types, DatedStays
<1>3. CASE Upsert(e)
  <2>1. \A x \in Executions : stamped'[x] <= clock'
    BY <1>1, <1>3, Types, Upserted DEF Dated
  <2>2. \A r \in Runs : reports'[r] # NoReport => reports'[r].stamp <= clock'
    BY <1>1, <1>3, Types, Upserted DEF Dated, Report
  <2>3. ASSUME ~restamped', NEW x \in Executions, event'[x] = "INDEXED", x \notin wiped'
        PROVE  stamped'[x] <= reports'[RunOf[x]].stamp
    <3>1. event[x] = "INDEXED"
      BY <1>1, <2>3, Types
    <3>2. CASE RunOf[x] = RunOf[e]
      BY <1>1, <1>3, <2>1, <3>2, Upserted
    <3>3. CASE RunOf[x] # RunOf[e]
      BY <1>1, <1>3, <2>3, <3>1, <3>3, Types, Upserted DEF Dated
    <3> QED BY <3>2, <3>3
  <2> QED BY <2>1, <2>2, <2>3 DEF Dated
<1> QED BY <1>2, <1>3 DEF IndexFails

\* A renewed report is dated now, and nothing is claimed of the others any more.
LEMMA ReindexOneDated ==
  ASSUME MemoryInv, Dated, NEW e \in Executions, ReindexOne(e)
  PROVE  Dated'
<1>1. MemoryTyped /\ Upsert(e) /\ restamped' /\ stamped' = stamped
  BY DEF MemoryInv, ReindexOne
<1>2. \A x \in Executions : stamped'[x] <= clock'
  BY <1>1, Types, Upserted DEF Dated
<1>3. \A r \in Runs : reports'[r] # NoReport => reports'[r].stamp <= clock'
  BY <1>1, Types, Upserted DEF Dated, Report
<1> QED BY <1>1, <1>2, <1>3 DEF Dated

\* After a reset there are no reports, and all that had one are wiped.
LEMMA ResetDated ==
  ASSUME MemoryInv, Dated, Reset
  PROVE  Dated'
<1>1. /\ \A r \in Runs : reports'[r] = NoReport
      /\ UNCHANGED <<event, stamped, clock>>
      /\ \A x \in Executions : event'[x] = "INDEXED" => x \in wiped'
  BY Types DEF MemoryInv, Reset, RowsFiled, database
<1> QED BY <1>1 DEF Dated

\* The dates are in order at first,
LEMMA InitDated == InitMemory => Dated
BY MemoryConstants DEF InitMemory, Dated

\* and every step keeps them so.
LEMMA StepDated == MemoryInv /\ Dated /\ [NextMemory]_memoryVars => Dated'
<1> SUFFICES ASSUME MemoryInv, Dated, [NextMemory]_memoryVars PROVE Dated'
  OBVIOUS
<1>0. event \in [Executions -> {"NONE", "INDEXED", "FAILED"}]
  BY Types DEF MemoryInv
<1>1. ASSUME NEW e \in Executions, Execute(e) PROVE Dated'
  <2>1. CASE Persist(e)
    BY <2>1, PersistDated
  <2>2. CASE IndexFails(e)
    BY <2>2, IndexFailsDated
  <2>3. CASE Retrieve(e) \/ RetrieveFails(e) \/ SaveFails(e) \/ CommitExecution(e)
    BY <2>3, DatedStays DEF Retrieve, RetrieveFails, SaveFails, CommitExecution, history
  <2>4. CASE Lose(e)
    BY <1>0, <2>4, DatedStays DEF Lose, history
  <2> QED BY <1>1, <2>1, <2>2, <2>3, <2>4 DEF Execute
<1>2. ASSUME NEW e \in Executions, ReindexOne(e) \/ ReindexOneFails(e) PROVE Dated'
  BY <1>2, ReindexOneDated, DatedStays DEF ReindexOneFails, database, history
<1>3. CASE Reindex \/ ReindexDies
  BY <1>3, DatedStays DEF Reindex, ReindexDies, database, history
<1>4. CASE ReindexEnds
  <2>1. \A e \in Executions : event'[e] = "INDEXED" => restamped \/ event[e] = "INDEXED"
    BY <1>4 DEF ReindexEnds, MemoryInv, CliCommitted
  <2> QED BY <1>4, <2>1, DatedStays DEF ReindexEnds, history
<1>5. CASE Reset
  BY <1>5, ResetDated
<1>6. CASE UNCHANGED memoryVars
  BY <1>6, DatedStays DEF memoryVars, database, history
<1> QED BY <1>1, <1>2, <1>3, <1>4, <1>5, <1>6 DEF NextMemory

\* Reports, rows and what prompts were told keep the order of their dates.
THEOREM DatesInvariant == MemorySpec => [](MemoryInv /\ Dated)
<1>1. InitMemory => MemoryInv /\ Dated
  BY InitMemoryInv, InitDated
<1>2. (MemoryInv /\ Dated) /\ [NextMemory]_memoryVars => (MemoryInv /\ Dated)'
  BY StepMemoryInv, StepDated
<1> QED BY <1>1, <1>2, PTL DEF MemorySpec

\* A query that returns all there are has the newest of them.
LEMMA NewestFound ==
  ASSUME MemoryTyped, Dated, NEW R \in SUBSET Reported, R # {}
  PROVE  NewestOf(R) \in R /\ \A x \in R : reports[x].stamp <= reports[NewestOf(R)].stamp
<1> DEFINE S == {n \in 0..clock : \E r \in R : reports[r].stamp = n}
<1>1. \A r \in R : reports[r].stamp \in 0..clock
  BY Types DEF Dated, Reported, Report
<1>2. S \in SUBSET (0..clock) /\ S # {}
  BY <1>1
<1>3. PICK n \in S : \A y \in S : y <= n
  BY <1>2, Types, Highest
<1>4. PICK r \in R : reports[r].stamp = n
  BY <1>3
<1>5. \A x \in R : reports[x].stamp <= reports[r].stamp
  BY <1>1, <1>3, <1>4
<1> QED BY <1>4, <1>5 DEF NewestOf

\* A query that finds as much as there is, or as much as it may.
LEMMA AllFound ==
  ASSUME NEW R \in Found
  PROVE  /\ R \in SUBSET Reported
         /\ R = {} => Reported = {}
         /\ Cardinality(Reported) <= Limit => R = Reported
<1>1. Reported \in SUBSET Runs /\ IsFiniteSet(Reported) /\ Cardinality(Reported) \in Nat
  BY RunsFinite, FS_Subset, FS_CardinalityType DEF Reported
<1>2. /\ R \in SUBSET Reported
      /\ Cardinality(R) = IF Cardinality(Reported) < Limit THEN Cardinality(Reported) ELSE Limit
  BY DEF Found
<1>3. Limit \in Nat \ {0}
  BY MemoryConstants
<1>4. ASSUME R = {} PROVE Reported = {}
  BY <1>1, <1>2, <1>3, <1>4, FS_EmptySet
<1>5. ASSUME Cardinality(Reported) <= Limit PROVE R = Reported
  BY <1>1, <1>2, <1>3, <1>5, FS_Subset
<1> QED BY <1>2, <1>4, <1>5

\* Nothing known is newer than the report a query comes to.
LEMMA NothingMissed ==
  ASSUME MemoryInv, Dated, NEW R \in Found
  PROVE  Missed(R) = {}
<1>1. \A x \in Remembered : RunOf[x] \in Reported /\ x \in Executions
                       /\ event[x] = "INDEXED" /\ x \notin wiped
  BY Types DEF MemoryInv, IndexedKept, Remembered, Recommendations, Committed, Reported
<1>2. CASE R = {}
  BY <1>1, <1>2, AllFound DEF Missed
<1>3. CASE R # {} /\ Cardinality(Reported) <= Limit /\ ~restamped
  <2>1. R = Reported
    BY <1>3, AllFound
  <2>2. \A x \in R : reports[x].stamp <= reports[NewestOf(R)].stamp
    BY <1>3, AllFound, NewestFound DEF MemoryInv
  <2>3. \A r \in Reported : reports[r].stamp \in Nat
    BY Types DEF MemoryInv, Reported, Report
  <2>4. NewestOf(R) \in Reported
    BY <1>3, <2>1, AllFound, NewestFound DEF MemoryInv
  <2>5. \A x \in Remembered : stamped[x] <= reports[RunOf[x]].stamp /\ stamped[x] \in Nat
    BY <1>1, <1>3, Types DEF Dated, MemoryInv
  <2>6. \A x \in Remembered : ~(stamped[x] > reports[NewestOf(R)].stamp)
    BY <1>1, <2>1, <2>2, <2>3, <2>4, <2>5
  <2> QED BY <1>3, <2>6 DEF Missed
<1>4. CASE R # {} /\ (Cardinality(Reported) > Limit \/ restamped)
  BY <1>4 DEF Missed
<1>5. Cardinality(Reported) \in Nat /\ Limit \in Nat
  BY MemoryConstants, RunsFinite, FS_Subset, FS_CardinalityType DEF Reported
<1> QED BY <1>2, <1>3, <1>4, <1>5

\* What an execution was told does not change after it asked.
LEMMA StepTold == MemoryInv /\ Dated /\ HistoryTold /\ [NextMemory]_memoryVars => HistoryTold'
<1> SUFFICES ASSUME MemoryInv, Dated, HistoryTold, [NextMemory]_memoryVars PROVE HistoryTold'
  OBVIOUS
<1>0. ToldTyped
  BY TypeParts DEF MemoryInv
<1>1. ASSUME NEW e \in Executions, NEW as, Tell(e, as, {}) PROVE HistoryTold'
  BY <1>0, <1>1 DEF HistoryTold, Tell, ToldTyped
<1>2. ASSUME NEW e \in Executions, Retrieve(e) PROVE HistoryTold'
  BY <1>1, <1>2, NothingMissed DEF Retrieve
<1>3. ASSUME NEW e \in Executions, RetrieveFails(e) PROVE HistoryTold'
  BY <1>1, <1>3 DEF RetrieveFails
<1>4. CASE told' = told
  BY <1>4 DEF HistoryTold
<1>5. ASSUME NEW e \in Executions, Execute(e) \/ ReindexOne(e) \/ ReindexOneFails(e)
      PROVE  HistoryTold'
  BY <1>2, <1>3, <1>4, <1>5
     DEF Execute, Persist, IndexFails, SaveFails, CommitExecution, Lose, ReindexOne, ReindexOneFails
<1> QED BY <1>4, <1>5 DEF NextMemory, Reindex, ReindexEnds, ReindexDies, Reset, memoryVars

\* HistoryTold: where a query returns all there are and none was renewed, the
\* newest report is at least as young as any known recommendation.
THEOREM AlwaysTold == MemorySpec => []HistoryTold
<1>1. InitMemory => HistoryTold
  BY DEF InitMemory, HistoryTold, Untold
<1> QED BY <1>1, DatesInvariant, StepTold, PTL DEF MemorySpec
=============================================================================
