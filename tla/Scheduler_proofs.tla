-------------------------- MODULE Scheduler_proofs --------------------------
(* Proofs about Scheduler, for every number of worker processes, firings and *)
(* faults, every window and every length of time.                            *)
EXTENDS Scheduler, TLAPS, FiniteSetTheorems

(* Types *)

Ats == {"none", "queued", "check", "create", "send", "done", "failed"}

Statuses == {"QUEUED", "RUNNING", "COMPLETED", "FAILED"}

TaskRec == [at : Ats, began : Nat, run : Nat]

RunRec == [created : Nat, status : Statuses, again : BOOLEAN]

MessageRec == [run : Nat, at : {"queued", "working", "done", "lost"}]

Typed == /\ hour \in Nat
         /\ tasks \in [Firings -> TaskRec]
         /\ runs \in Seq(RunRec)
         /\ messages \in Seq(MessageRec)

-----------------------------------------------------------------------------
(* The inductive invariant *)

\* tasks that occupy a process
Holding == {f \in Firings : tasks[f].at \in {"check", "create", "send"}}

\* messages that occupy a process
Working == {m \in DOMAIN messages : messages[m].at = "working"}

\* tasks that found no recent run and are about to create one, in a window
CreatingIn(t) == {f \in Firings : /\ tasks[f].at = "create"
                                  /\ tasks[f].began <= t /\ t <= tasks[f].began + Window}

\* No process does two things, and nothing was begun in the future.
Occupied == /\ Cardinality(Holding) <= Workers
            /\ \A f \in Firings : tasks[f].at = "create" => tasks[f].began <= hour
            /\ \A i \in DOMAIN runs : runs[i].created <= hour

\* The active runs of a window, and the tasks about to create one in it, each held
\* a process when the last of them looked and found none of the runs.
Room == \A t \in 0..hour : Cardinality(ActiveIn(t)) + Cardinality(CreatingIn(t)) <= Workers

IInv == Typed /\ Occupied /\ Room

-----------------------------------------------------------------------------
(* Sets of tasks and runs *)

\* All of them are finite and can be counted.
LEMMA Counted ==
  ASSUME Typed
  PROVE  /\ IsFiniteSet(Holding) /\ Cardinality(Holding) \in Nat
         /\ IsFiniteSet(Working) /\ Cardinality(Working) \in Nat
         /\ \A t : IsFiniteSet(ActiveIn(t)) /\ Cardinality(ActiveIn(t)) \in Nat
         /\ \A t : IsFiniteSet(CreatingIn(t)) /\ Cardinality(CreatingIn(t)) \in Nat
<1>1. IsFiniteSet(Firings)
  BY ConstantsTyped, FS_Interval DEF Firings
<1>2. /\ DOMAIN runs = 1..Len(runs) /\ Len(runs) \in Nat
      /\ DOMAIN messages = 1..Len(messages) /\ Len(messages) \in Nat
  BY DEF Typed
<1>3. IsFiniteSet(DOMAIN runs) /\ IsFiniteSet(DOMAIN messages)
  BY <1>2, FS_Interval
<1>4. Holding \in SUBSET Firings /\ \A t : CreatingIn(t) \in SUBSET Firings
  BY DEF Holding, CreatingIn
<1>5. Working \in SUBSET DOMAIN messages /\ \A t : ActiveIn(t) \in SUBSET DOMAIN runs
  BY DEF ActiveIn, Working
<1> QED BY <1>1, <1>3, <1>4, <1>5, FS_Subset, FS_CardinalityType

\* A finite set has at least as many members as its subsets.
LEMMA Fewer ==
  ASSUME NEW S, IsFiniteSet(S), NEW T, T \subseteq S
  PROVE  Cardinality(T) <= Cardinality(S) /\ Cardinality(T) \in Nat /\ Cardinality(S) \in Nat
BY FS_Subset, FS_CardinalityType

\* What tasks, runs and messages have.
LEMMA Shapes ==
  ASSUME Typed
  PROVE  /\ \A f \in Firings : tasks[f] \in TaskRec /\ tasks[f].began \in Nat /\ tasks[f].run \in Nat
         /\ \A i \in DOMAIN runs : /\ runs[i] \in RunRec /\ runs[i].created \in Nat
                                  /\ runs[i].status \in Statuses /\ runs[i].again \in BOOLEAN
         /\ \A m \in DOMAIN messages : messages[m] \in MessageRec /\ messages[m].run \in Nat
<1>1. \A f \in Firings : tasks[f] \in TaskRec
  BY DEF Typed
<1>2. \A i \in DOMAIN runs : runs[i] \in RunRec
  BY DEF Typed
<1>3. \A m \in DOMAIN messages : messages[m] \in MessageRec
  BY DEF Typed
<1>4. \A x \in TaskRec : x.began \in Nat /\ x.run \in Nat
  BY DEF TaskRec
<1>5. \A x \in RunRec : x.created \in Nat /\ x.status \in Statuses /\ x.again \in BOOLEAN
  BY DEF RunRec
<1>6. \A x \in MessageRec : x.run \in Nat
  BY DEF MessageRec
<1> QED BY <1>1, <1>2, <1>3, <1>4, <1>5, <1>6

\* A window that is closed holds what was created in it before.
LEMMA Past ==
  ASSUME IInv
  PROVE  /\ Cardinality(ActiveIn(hour + 1)) <= Cardinality(ActiveIn(hour))
         /\ Cardinality(CreatingIn(hour + 1)) <= Cardinality(CreatingIn(hour))
<1>0. Typed /\ hour \in Nat /\ Window \in Nat /\ Occupied
  BY ConstantsTyped DEF IInv, Typed
<1>1. /\ \A i \in DOMAIN runs : runs[i].created \in Nat /\ runs[i].created <= hour
      /\ \A f \in Firings : tasks[f].began \in Nat
      /\ \A f \in Firings : tasks[f].at = "create" => tasks[f].began <= hour
  BY <1>0, Shapes DEF Occupied
<1>2. ActiveIn(hour + 1) \subseteq ActiveIn(hour)
  BY <1>0, <1>1 DEF ActiveIn
<1>3. CreatingIn(hour + 1) \subseteq CreatingIn(hour)
  BY <1>0, <1>1 DEF CreatingIn
<1> QED BY <1>0, <1>2, <1>3, Counted, Fewer

-----------------------------------------------------------------------------
(* What a step can do to the bounds *)

\* Where no run becomes active, but for one started again, and no task is newly
\* about to create one, the room is no smaller.
LEMMA Calmer ==
  ASSUME IInv, Typed', hour' = hour,
         \A t \in 0..hour : ActiveIn(t)' \subseteq ActiveIn(t),
         \A t \in 0..hour : CreatingIn(t)' \subseteq CreatingIn(t)
  PROVE  Room'
<1>0. Typed /\ Room /\ Workers \in Nat
  BY ConstantsTyped DEF IInv
<1>1. ASSUME NEW t \in 0..hour
      PROVE  Cardinality(ActiveIn(t)') + Cardinality(CreatingIn(t)') <= Workers
  <2>1. /\ Cardinality(ActiveIn(t)') <= Cardinality(ActiveIn(t))
        /\ Cardinality(ActiveIn(t)') \in Nat /\ Cardinality(ActiveIn(t)) \in Nat
    BY <1>0, <1>1, Counted, Fewer
  <2>2. /\ Cardinality(CreatingIn(t)') <= Cardinality(CreatingIn(t))
        /\ Cardinality(CreatingIn(t)') \in Nat /\ Cardinality(CreatingIn(t)) \in Nat
    BY <1>0, <1>1, Counted, Fewer
  <2>3. Cardinality(ActiveIn(t)) + Cardinality(CreatingIn(t)) <= Workers
    BY <1>0, <1>1 DEF Room
  <2> QED BY <1>0, <2>1, <2>2, <2>3
<1> QED BY <1>1 DEF Room

\* A task leaves its process, or was not in one and takes none.
LEMMA TaskLeaves ==
  ASSUME IInv, NEW f \in Firings, NEW at \in {"queued", "done", "failed"}, At(f, at),
         hour' = hour, runs' = runs, messages' \in Seq(MessageRec)
  PROVE  IInv'
<1>0. Typed /\ at \in Ats /\ Occupied
  BY DEF IInv, Ats
<1>1. /\ tasks' \in [Firings -> TaskRec]
      /\ \A g \in Firings : g # f => tasks'[g] = tasks[g]
      /\ tasks'[f].at = at
  BY <1>0 DEF Typed, At, Task, TaskRec
<1>2. Typed'
  BY <1>0, <1>1 DEF Typed
<1>3. Holding' \subseteq Holding
  BY <1>1 DEF Holding
<1>4. \A t : CreatingIn(t)' \subseteq CreatingIn(t)
  BY <1>1 DEF CreatingIn
<1>5. \A t : ActiveIn(t)' = ActiveIn(t)
  BY DEF ActiveIn, Active
<1>6. Room'
  BY <1>2, <1>4, <1>5, Calmer
<1>7. Cardinality(Holding') <= Cardinality(Holding) /\ Cardinality(Holding') \in Nat
      /\ Cardinality(Holding) \in Nat
  BY <1>0, <1>3, Counted, Fewer
<1>8. Occupied'
  BY <1>0, <1>1, <1>7, ConstantsTyped DEF Occupied
<1> QED BY <1>2, <1>6, <1>8 DEF IInv

\* Time, tasks and runs that are left alone.
LEMMA LeavingKeeps ==
  ASSUME IInv, NEW f \in Firings,
         Fire(f) \/ Skip(f) \/ Send(f) \/ SendFails(f) \/ Redeliver(f)
  PROVE  IInv'
<1>1. messages \in Seq(MessageRec)
  BY DEF IInv, Typed
<1>2. Append(messages, Message(tasks[f].run)) \in Seq(MessageRec)
  <2>1. tasks[f].run \in Nat
    BY DEF IInv, Typed, TaskRec
  <2>2. Message(tasks[f].run) \in MessageRec
    BY <2>1 DEF Message, MessageRec
  <2> QED BY <1>1, <2>2
<1> QED BY <1>1, <1>2, TaskLeaves DEF Fire, Skip, Send, SendFails, Redeliver

\* Tick keeps the invariant: the new window is the last one, an hour older.
LEMMA TickKeeps ==
  ASSUME IInv, Tick
  PROVE  IInv'
<1>0. Typed /\ Occupied /\ Room /\ hour \in Nat /\ Workers \in Nat /\ hour' = hour + 1
      /\ tasks' = tasks /\ runs' = runs /\ messages' = messages
  BY ConstantsTyped DEF IInv, Typed, Tick
<1>1. Typed'
  BY <1>0 DEF Typed
<1>2. Holding' = Holding
  BY <1>0 DEF Holding
<1>3. Occupied'
  BY <1>0, <1>2, Shapes DEF Occupied
<1>4. \A t : ActiveIn(t)' = ActiveIn(t) /\ CreatingIn(t)' = CreatingIn(t)
  BY <1>0 DEF ActiveIn, Active, CreatingIn
<1>5. ASSUME NEW t \in 0..(hour + 1)
      PROVE  Cardinality(ActiveIn(t)) + Cardinality(CreatingIn(t)) <= Workers
  <2>1. CASE t \in 0..hour
    BY <1>0, <2>1 DEF Room
  <2>2. CASE t = hour + 1
    <3>1. Cardinality(ActiveIn(hour)) + Cardinality(CreatingIn(hour)) <= Workers
      BY <1>0 DEF Room
    <3>2. /\ Cardinality(ActiveIn(hour)) \in Nat /\ Cardinality(CreatingIn(hour)) \in Nat
          /\ Cardinality(ActiveIn(hour + 1)) \in Nat /\ Cardinality(CreatingIn(hour + 1)) \in Nat
      BY <1>0, Counted
    <3>3. /\ Cardinality(ActiveIn(hour + 1)) <= Cardinality(ActiveIn(hour))
          /\ Cardinality(CreatingIn(hour + 1)) <= Cardinality(CreatingIn(hour))
      BY Past
    <3> QED BY <1>0, <2>2, <3>1, <3>2, <3>3
  <2> QED BY <1>0, <2>1, <2>2
<1>6. Room'
  BY <1>0, <1>4, <1>5 DEF Room
<1> QED BY <1>1, <1>3, <1>6 DEF IInv

\* A process that is free is taken.
LEMMA TakeKeeps ==
  ASSUME IInv, NEW f \in Firings, Take(f)
  PROVE  IInv'
<1>0. Typed /\ Occupied /\ hour' = hour /\ runs' = runs /\ tasks[f].at = "queued"
      /\ messages' = messages /\ Workers \in Nat
  BY ConstantsTyped DEF IInv, Take
<1>1. /\ tasks' \in [Firings -> TaskRec]
      /\ \A g \in Firings : g # f => tasks'[g] = tasks[g]
      /\ tasks'[f].at = "check"
  BY <1>0 DEF Typed, Take, At, Task, TaskRec, Ats
<1>2. Typed'
  BY <1>0, <1>1 DEF Typed
<1>3. Holding' = Holding \cup {f} /\ f \notin Holding
  BY <1>0, <1>1 DEF Holding
<1>4. Cardinality(Holding') = Cardinality(Holding) + 1
  BY <1>0, <1>3, Counted, FS_AddElement
<1>5. Cardinality(Holding) < Workers
  <2>1. Cardinality(Holding) + Cardinality(Working) < Workers
    BY DEF Take, Busy, Holding, Working
  <2> QED BY <1>0, <2>1, Counted
<1>6. Occupied'
  BY <1>0, <1>1, <1>4, <1>5, Counted DEF Occupied
<1>7. \A t : ActiveIn(t)' = ActiveIn(t) /\ CreatingIn(t)' \subseteq CreatingIn(t)
  BY <1>0, <1>1 DEF ActiveIn, Active, CreatingIn
<1>8. Room'
  BY <1>0, <1>2, <1>7, Calmer
<1> QED BY <1>2, <1>6, <1>8 DEF IInv

\* A task that finds no recent run begins in a window that has none.
LEMMA ProceedKeeps ==
  ASSUME IInv, NEW f \in Firings, Proceed(f)
  PROVE  IInv'
<1>0. Typed /\ Occupied /\ Room /\ hour \in Nat /\ Workers \in Nat /\ Window \in Nat
      /\ hour' = hour /\ runs' = runs /\ messages' = messages
      /\ tasks[f].at = "check" /\ ~Recent
  BY ConstantsTyped DEF IInv, Typed, Proceed
<1>1. /\ tasks' \in [Firings -> TaskRec]
      /\ \A g \in Firings : g # f => tasks'[g] = tasks[g]
      /\ tasks'[f].at = "create" /\ tasks'[f].began = hour
  BY <1>0 DEF Typed, Proceed, Task, TaskRec, Ats
<1>2. Typed'
  BY <1>0, <1>1 DEF Typed
<1>3. Holding' = Holding
  BY <1>0, <1>1 DEF Holding
<1>4. Occupied'
  BY <1>0, <1>1, <1>3 DEF Occupied
<1>5. \A t : ActiveIn(t)' = ActiveIn(t)
  BY <1>0 DEF ActiveIn, Active
<1>6. ASSUME NEW t \in 0..hour
      PROVE  Cardinality(ActiveIn(t)) + Cardinality(CreatingIn(t)') <= Workers
  <2>1. CASE t = hour
    <3>1. ActiveIn(t) = {}
      BY <1>0, <2>1 DEF Recent, ActiveIn, Active
    <3>2. Cardinality(ActiveIn(t)) = 0
      BY <3>1, FS_EmptySet
    <3>3. CreatingIn(t)' \subseteq Holding
      BY <1>3 DEF CreatingIn, Holding
    <3>4. Cardinality(CreatingIn(t)') <= Cardinality(Holding) /\ Cardinality(CreatingIn(t)') \in Nat
          /\ Cardinality(Holding) \in Nat
      BY <1>0, <3>3, Counted, Fewer
    <3> QED BY <1>0, <3>2, <3>4 DEF Occupied
  <2>2. CASE t # hour
    <3>1. CreatingIn(t)' \subseteq CreatingIn(t)
      BY <1>0, <1>1, <2>2 DEF CreatingIn
    <3>2. Cardinality(CreatingIn(t)') <= Cardinality(CreatingIn(t)) /\ Cardinality(CreatingIn(t)') \in Nat
          /\ Cardinality(CreatingIn(t)) \in Nat
      BY <1>0, <3>1, Counted, Fewer
    <3> QED BY <1>0, <3>2, Counted DEF Room
  <2> QED BY <2>1, <2>2
<1>7. Room'
  BY <1>0, <1>5, <1>6 DEF Room
<1> QED BY <1>2, <1>4, <1>7 DEF IInv

\* A run that was just created is a run.
LEMMA RunCreated ==
  ASSUME NEW h \in Nat
  PROVE  LET x == [created |-> h, status |-> "QUEUED", again |-> FALSE] IN
         x \in RunRec /\ x.status = "QUEUED" /\ x.created = h /\ x.again = FALSE
BY DEF RunRec, Statuses

\* A task that creates a run is not about to create one any more.
LEMMA CreateKeeps ==
  ASSUME IInv, NEW f \in Firings, Create(f)
  PROVE  IInv'
<1>0. Typed /\ Occupied /\ Room /\ hour' = hour /\ hour \in Nat /\ tasks[f].at = "create"
      /\ Workers \in Nat /\ Window \in Nat /\ messages' = messages
  BY ConstantsTyped DEF IInv, Typed, Create
<1>1. PICK b \in Nat : b = tasks[f].began /\ b <= hour
  BY <1>0 DEF Typed, TaskRec, Occupied
<1>2. PICK x \in RunRec : /\ x = [created |-> b, status |-> "QUEUED", again |-> FALSE]
                          /\ x.status = "QUEUED" /\ x.created = b /\ x.again = FALSE
  BY <1>1, RunCreated
<1>3. PICK n \in Nat : n = Len(runs) + 1 /\ DOMAIN runs = 1..(n - 1) /\ n \notin DOMAIN runs
  BY <1>0 DEF Typed
<1>4. runs' = Append(runs, x)
  BY <1>1, <1>2 DEF Create
<1>5. /\ runs' \in Seq(RunRec) /\ DOMAIN runs' = DOMAIN runs \cup {n} /\ runs'[n] = x
      /\ \A j \in DOMAIN runs : runs'[j] = runs[j]
  BY <1>0, <1>3, <1>4 DEF Typed
<1>6. tasks' = [tasks EXCEPT ![f] = Task("send", 0, n)]
  BY <1>3 DEF Create
<1>7. /\ tasks' \in [Firings -> TaskRec]
      /\ \A g \in Firings : g # f => tasks'[g] = tasks[g]
      /\ tasks'[f].at = "send"
  BY <1>0, <1>6 DEF Typed, Task, TaskRec, Ats
<1>8. Typed'
  BY <1>0, <1>5, <1>7 DEF Typed
<1>9. Holding' = Holding
  BY <1>0, <1>7 DEF Holding
<1>10. \A i \in DOMAIN runs' : runs'[i].created <= hour
  BY <1>0, <1>1, <1>2, <1>5 DEF Occupied
<1>11. Occupied'
  BY <1>0, <1>7, <1>9, <1>10 DEF Occupied
<1>12. ASSUME NEW t \in 0..hour
       PROVE  Cardinality(ActiveIn(t)') + Cardinality(CreatingIn(t)') <= Workers
  <2>0. /\ Cardinality(ActiveIn(t)) + Cardinality(CreatingIn(t)) <= Workers
        /\ IsFiniteSet(ActiveIn(t)) /\ Cardinality(ActiveIn(t)) \in Nat
        /\ IsFiniteSet(CreatingIn(t)) /\ Cardinality(CreatingIn(t)) \in Nat
    BY <1>0, Counted DEF Room
  <2>1. CASE b <= t /\ t <= b + Window
    <3>1. ActiveIn(t)' = ActiveIn(t) \cup {n} /\ n \notin ActiveIn(t)
      BY <1>2, <1>3, <1>5, <2>1 DEF ActiveIn, Active
    <3>2. CreatingIn(t)' = CreatingIn(t) \ {f} /\ f \in CreatingIn(t)
      BY <1>0, <1>1, <1>7, <2>1 DEF CreatingIn
    <3>3. Cardinality(ActiveIn(t)') = Cardinality(ActiveIn(t)) + 1
      BY <2>0, <3>1, FS_AddElement
    <3>4. Cardinality(CreatingIn(t)') = Cardinality(CreatingIn(t)) - 1
      BY <2>0, <3>2, FS_RemoveElement
    <3> QED BY <1>0, <2>0, <3>3, <3>4
  <2>2. CASE ~(b <= t /\ t <= b + Window)
    <3>1. ActiveIn(t)' = ActiveIn(t)
      BY <1>2, <1>3, <1>5, <2>2 DEF ActiveIn, Active
    <3>2. CreatingIn(t)' = CreatingIn(t)
      BY <1>0, <1>1, <1>7, <2>2 DEF CreatingIn
    <3> QED BY <2>0, <3>1, <3>2
  <2> QED BY <2>1, <2>2
<1>13. Room'
  BY <1>0, <1>12 DEF Room
<1> QED BY <1>8, <1>11, <1>13 DEF IInv

-----------------------------------------------------------------------------
(* The runs themselves *)

\* A run gets another status, and may be one that was started again.
LEMMA RunMoves ==
  ASSUME IInv, NEW i, NEW x,
         i \in DOMAIN runs => x \in RunRec,
         i \in DOMAIN runs => x.created = runs[i].created,
         i \in DOMAIN runs /\ x.status \in {"QUEUED", "RUNNING"} /\ x.again = FALSE
           => Active(i) /\ ~runs[i].again,
         runs' = [runs EXCEPT ![i] = x], messages' \in Seq(MessageRec), UNCHANGED <<hour, tasks>>
  PROVE  IInv'
<1>0. Typed /\ Occupied /\ Workers \in Nat
  BY ConstantsTyped DEF IInv
<1>1. /\ runs' \in Seq(RunRec) /\ DOMAIN runs' = DOMAIN runs
      /\ \A j \in DOMAIN runs : runs'[j] = IF j = i THEN x ELSE runs[j]
  <2>1. CASE i \in DOMAIN runs
    BY <1>0, <2>1 DEF Typed
  <2>2. CASE i \notin DOMAIN runs
    <3>1. runs' = runs
      BY <1>0, <2>2 DEF Typed
    <3> QED BY <1>0, <2>2, <3>1 DEF Typed
  <2> QED BY <2>1, <2>2
<1>2. Typed'
  BY <1>0, <1>1 DEF Typed
<1>3. Holding' = Holding /\ \A t : CreatingIn(t)' = CreatingIn(t)
  BY DEF Holding, CreatingIn
<1>4. Occupied'
  <2>1. \A j \in DOMAIN runs : runs'[j].created = runs[j].created
    BY <1>1
  <2> QED BY <1>0, <1>1, <1>3, <2>1 DEF Occupied
<1>5. \A t : ActiveIn(t)' \subseteq ActiveIn(t)
  <2> SUFFICES ASSUME NEW t, NEW j \in ActiveIn(t)' PROVE j \in ActiveIn(t)
    OBVIOUS
  <2>1. CASE j = i
    <3>1. i \in DOMAIN runs /\ runs'[i] = x /\ x \in RunRec
      BY <1>1, <2>1 DEF ActiveIn
    <3>2. x.again \in BOOLEAN
      BY <3>1 DEF RunRec
    <3>3. x.status \in {"QUEUED", "RUNNING"} /\ x.again = FALSE
          /\ x.created <= t /\ t <= x.created + Window
      BY <2>1, <3>1, <3>2 DEF ActiveIn, Active
    <3>4. Active(i) /\ ~runs[i].again /\ x.created = runs[i].created
      BY <3>1, <3>3
    <3> QED BY <2>1, <3>1, <3>3, <3>4 DEF ActiveIn
  <2>2. CASE j # i
    BY <1>1, <2>2 DEF ActiveIn, Active
  <2> QED BY <2>1, <2>2
<1>6. Room'
  BY <1>2, <1>3, <1>5, Calmer
<1> QED BY <1>2, <1>4, <1>6 DEF IInv

\* A message that changes place is a message.
LEMMA MessageMoves ==
  ASSUME Typed, NEW m \in DOMAIN messages, NEW at \in {"queued", "working", "done", "lost"}
  PROVE  [messages EXCEPT ![m].at = at] \in Seq(MessageRec)
<1>1. PICK x \in MessageRec : x = messages[m]
  BY DEF Typed
<1>2. [x EXCEPT !.at = at] \in MessageRec
  BY DEF MessageRec
<1>3. PICK y \in MessageRec : y = [x EXCEPT !.at = at]
  BY <1>2
<1>4. [messages EXCEPT ![m].at = at] = [messages EXCEPT ![m] = y]
  BY <1>1, <1>3
<1> QED BY <1>4 DEF Typed

\* Start keeps the invariant: a run that was settled is one started again.
LEMMA StartKeeps ==
  ASSUME IInv, NEW m \in DOMAIN messages, Start(m)
  PROVE  IInv'
<1>0. Typed
  BY DEF IInv
<1>1. PICK i : i = messages[m].run
  OBVIOUS
<1>2. runs' = [runs EXCEPT ![i].status = "RUNNING", ![i].again = @ \/ Settled(i)]
  BY <1>1 DEF Start
<1>3. messages' \in Seq(MessageRec) /\ UNCHANGED <<hour, tasks>>
  BY <1>0, MessageMoves DEF Start
<1>4. PICK x : x = [runs[i] EXCEPT !.status = "RUNNING", !.again = @ \/ Settled(i)]
  OBVIOUS
<1>5. runs' = [runs EXCEPT ![i] = x]
  BY <1>0, <1>2, <1>4 DEF Typed
<1>6. ASSUME i \in DOMAIN runs
      PROVE  /\ x \in RunRec /\ x.created = runs[i].created
             /\ x.again = FALSE => Active(i) /\ ~runs[i].again
  <2>1. PICK r \in RunRec : r = runs[i]
    BY <1>0, <1>6 DEF Typed
  <2>2. x = [created |-> r.created, status |-> "RUNNING", again |-> r.again \/ Settled(i)]
    BY <1>4, <2>1 DEF RunRec
  <2>3. r.created \in Nat /\ r.again \in BOOLEAN /\ r.status \in Statuses
    BY <2>1 DEF RunRec
  <2>4. Settled(i) \in BOOLEAN
    BY DEF Settled
  <2>5. x \in RunRec
    BY <2>2, <2>3, <2>4 DEF RunRec, Statuses
  <2>6. x.again = FALSE => ~r.again /\ ~Settled(i)
    BY <2>2, <2>3, <2>4
  <2>7. ~Settled(i) => Active(i)
    BY <2>1, <2>3 DEF Settled, Active, Statuses
  <2> QED BY <2>1, <2>2, <2>5, <2>6, <2>7
<1> QED BY <1>3, <1>5, <1>6, RunMoves

\* Finish keeps the invariant.
LEMMA FinishKeeps ==
  ASSUME IInv, NEW m \in DOMAIN messages, Finish(m)
  PROVE  IInv'
<1>0. Typed
  BY DEF IInv
<1>1. PICK i, s : i = messages[m].run /\ s \in {"COMPLETED", "FAILED"}
                  /\ runs' = [runs EXCEPT ![i].status = s]
  BY DEF Finish
<1>2. messages' \in Seq(MessageRec) /\ UNCHANGED <<hour, tasks>>
  BY <1>0, MessageMoves DEF Finish
<1>3. PICK x : x = [runs[i] EXCEPT !.status = s]
  OBVIOUS
<1>4. runs' = [runs EXCEPT ![i] = x]
  BY <1>0, <1>1, <1>3 DEF Typed
<1>5. ASSUME i \in DOMAIN runs
      PROVE  /\ x \in RunRec /\ x.created = runs[i].created
             /\ x.status \notin {"QUEUED", "RUNNING"}
  <2>1. PICK r \in RunRec : r = runs[i]
    BY <1>0, <1>5 DEF Typed
  <2> QED BY <1>1, <1>3, <2>1 DEF RunRec, Statuses
<1> QED BY <1>2, <1>4, <1>5, RunMoves

\* So does a message that is handed over again.
LEMMA RedeliverRunKeeps ==
  ASSUME IInv, NEW m \in DOMAIN messages, RedeliverRun(m)
  PROVE  IInv'
<1>0. Typed /\ Occupied /\ Workers \in Nat /\ UNCHANGED <<hour, tasks, runs>>
  BY ConstantsTyped DEF IInv, RedeliverRun
<1>1. PICK at \in {"queued", "working", "done", "lost"} :
        messages' = Append([messages EXCEPT ![m].at = at], Message(messages[m].run))
  BY DEF RedeliverRun
<1>2. PICK y \in MessageRec : y = Message(messages[m].run)
  BY <1>0, Shapes DEF Message, MessageRec
<1>3. Typed'
  <2>1. PICK ms \in Seq(MessageRec) : ms = [messages EXCEPT ![m].at = at]
    BY <1>0, MessageMoves
  <2>2. messages' = Append(ms, y)
    BY <1>1, <1>2, <2>1
  <2>3. messages' \in Seq(MessageRec)
    BY <2>2
  <2> QED BY <1>0, <2>3 DEF Typed
<1>4. Holding' = Holding /\ \A t : CreatingIn(t)' = CreatingIn(t) /\ ActiveIn(t)' = ActiveIn(t)
  BY <1>0 DEF Holding, CreatingIn, ActiveIn, Active
<1>5. Occupied'
  BY <1>0, <1>4 DEF Occupied
<1>6. Room'
  BY <1>0, <1>3, <1>4, Calmer
<1> QED BY <1>3, <1>5, <1>6 DEF IInv

-----------------------------------------------------------------------------
(* The theorems *)

\* The invariant holds at first,
LEMMA InitIInv == Init => IInv
<1> SUFFICES ASSUME Init PROVE IInv
  OBVIOUS
<1>1. Typed
  <2>1. Task("none", 0, 0) \in TaskRec
    BY DEF Task, TaskRec, Ats
  <2> QED BY <2>1 DEF Init, Typed
<1>2. \A f \in Firings : tasks[f].at = "none"
  BY DEF Init, Task
<1>3. Holding = {} /\ \A t : CreatingIn(t) = {} /\ ActiveIn(t) = {}
  BY <1>2 DEF Init, Holding, CreatingIn, ActiveIn
<1>4. Occupied
  BY <1>2, <1>3, FS_EmptySet, ConstantsTyped DEF Init, Occupied
<1>5. Room
  BY <1>3, FS_EmptySet, ConstantsTyped DEF Room
<1> QED BY <1>1, <1>4, <1>5 DEF IInv

\* and every step keeps it.
LEMMA StepIInv == IInv /\ [Next]_vars => IInv'
<1> SUFFICES ASSUME IInv, [Next]_vars PROVE IInv'
  OBVIOUS
<1>1. CASE Tick
  BY <1>1, TickKeeps
<1>2. ASSUME NEW f \in Firings, Fire(f) \/ Work(f) \/ SendFails(f) \/ Redeliver(f) PROVE IInv'
  BY <1>2, LeavingKeeps, TakeKeeps, ProceedKeeps, CreateKeeps DEF Work
<1>3. ASSUME NEW m \in DOMAIN messages, Execute(m) \/ RedeliverRun(m) PROVE IInv'
  BY <1>3, StartKeeps, FinishKeeps, RedeliverRunKeeps DEF Execute
<1>4. CASE UNCHANGED vars
  BY <1>4 DEF vars, IInv, Typed, Occupied, Room, Holding, CreatingIn, ActiveIn, Active
<1> QED BY <1>1, <1>2, <1>3, <1>4 DEF Next

\* The inductive invariant holds throughout.
THEOREM Invariant == Spec => []IInv
BY InitIInv, StepIInv, PTL DEF Spec

\* OneInWindow, whatever is handed over again: those who created the active runs of
\* a window each held a process when the last of them looked for a recent run.
THEOREM AlwaysOneInWindow == Spec => []OneInWindow
<1>1. IInv => OneInWindow
  <2> SUFFICES ASSUME IInv, NEW t \in 0..hour PROVE Cardinality(ActiveIn(t)) <= Workers
    BY DEF OneInWindow
  <2>1. Cardinality(ActiveIn(t)) \in Nat /\ Cardinality(CreatingIn(t)) \in Nat
    BY Counted DEF IInv
  <2>2. Cardinality(ActiveIn(t)) + Cardinality(CreatingIn(t)) <= Workers
    BY DEF IInv, Room
  <2> QED BY <2>1, <2>2, ConstantsTyped
<1> QED BY <1>1, Invariant, PTL
=============================================================================
