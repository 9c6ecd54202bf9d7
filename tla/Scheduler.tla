----------------------------- MODULE Scheduler -----------------------------
(***************************************************************************)
(* Scheduled research: beat, or somebody by hand, queues a task that       *)
(* creates and enqueues a run unless a recent scheduled run is active.     *)
(* Tasks and runs share the worker's processes, and the broker may hand    *)
(* both over again.                                                        *)
(***************************************************************************)
EXTENDS Naturals, Sequences, FiniteSets

CONSTANTS Workers,     \* processes (--concurrency)
          Window,      \* hours: a run created before is not recent (6)
          MaxFirings, MaxHour, MaxFaults   \* bounds

ASSUME ConstantsTyped == /\ Workers \in Nat \ {0} /\ Window \in Nat
                         /\ MaxFirings \in Nat /\ MaxHour \in Nat /\ MaxFaults \in Nat

VARIABLES hour,
          tasks,    \* tasks[f]: the scheduled task queued by firing f
          runs,     \* the SCHEDULED runs
          messages, \* what was handed, or is to be handed, to the worker to execute a run
          faults

vars == <<hour, tasks, runs, messages, faults>>

Firings == 1..MaxFirings

Task(step, began, run) == [at |-> step, began |-> began, run |-> run]

Init == /\ hour = 0 /\ faults = 0
        /\ tasks = [f \in Firings |-> Task("none", 0, 0)]
        /\ runs = <<>>
        /\ messages = <<>>

Tick == /\ hour < MaxHour /\ hour' = hour + 1
        /\ UNCHANGED <<tasks, runs, messages, faults>>

\* f goes to a step before which, or after which, it has no transaction and no run.
At(f, step) == tasks' = [tasks EXCEPT ![f] = Task(step, 0, 0)]

Message(i) == [run |-> i, at |-> "queued"]

Fault == faults < MaxFaults /\ faults' = faults + 1

\* A process does one thing at a time.
Busy == Cardinality({f \in Firings : tasks[f].at \in {"check", "create", "send"}})
        + Cardinality({m \in DOMAIN messages : messages[m].at = "working"})

-----------------------------------------------------------------------------
(* scheduled_research_task *)

\* beat_schedule, or trigger-scheduled-research
Fire(f) == /\ tasks[f].at = "none" /\ \A g \in 1..(f - 1) : tasks[g].at # "none"
           /\ At(f, "queued")
           /\ UNCHANGED <<hour, runs, messages, faults>>

Take(f) == /\ tasks[f].at = "queued" /\ Busy < Workers
           /\ At(f, "check")
           /\ UNCHANGED <<hour, runs, messages, faults>>

\* mutation: a run that waits does not count
RecentRunning == \E i \in DOMAIN runs : runs[i].status = "RUNNING" /\ runs[i].created + Window >= hour

\* has_recent_scheduled_run
Recent == \E i \in DOMAIN runs : /\ runs[i].status \in {"QUEUED", "RUNNING"}
                                 /\ runs[i].created + Window >= hour

\* mutation: a firing that is skipped is tried again
SkipRequeued(f) == /\ tasks[f].at = "check"
                   /\ At(f, "queued")
                   /\ UNCHANGED <<hour, runs, messages, faults>>

\* a recent run, or an empty watchlist
Skip(f) == /\ tasks[f].at = "check"
           /\ At(f, "done")
           /\ UNCHANGED <<hour, runs, messages, faults>>

\* This query begins the transaction, whose time created_at will be.
Proceed(f) == /\ tasks[f].at = "check" /\ ~Recent
              /\ tasks' = [tasks EXCEPT ![f] = Task("create", hour, 0)]
              /\ UNCHANGED <<hour, runs, messages, faults>>

\* created, QUEUED, with tickers, and committed
Create(f) ==
  /\ tasks[f].at = "create"
  /\ runs' = Append(runs, [created |-> tasks[f].began, status |-> "QUEUED", again |-> FALSE])
  /\ tasks' = [tasks EXCEPT ![f] = Task("send", 0, Len(runs) + 1)]
  /\ UNCHANGED <<hour, messages, faults>>

Send(f) == /\ tasks[f].at = "send"
           /\ messages' = Append(messages, Message(tasks[f].run))
           /\ At(f, "done")
           /\ UNCHANGED <<hour, runs, faults>>

\* The broker account cannot be read, or send_task raises, before or after it
\* published.  The run is left as it is; a task that raised is acknowledged.
SendFails(f) == /\ tasks[f].at = "send" /\ Fault
                /\ At(f, "failed")
                /\ messages' \in {messages, Append(messages, Message(tasks[f].run))}
                /\ UNCHANGED <<hour, runs>>

\* acks_late: a worker that dies, also after it sent the run, has not
\* acknowledged the task, which is delivered again.  (What is delivered again
\* while the first delivery is worked on is another firing.)
Redeliver(f) == /\ tasks[f].at \in {"check", "create", "send", "done"} /\ Fault
                /\ At(f, "queued")
                /\ UNCHANGED <<hour, runs, messages>>

Work(f) == Take(f) \/ Skip(f) \/ Proceed(f) \/ Create(f) \/ Send(f)

-----------------------------------------------------------------------------
(* run_research_run_task *)

Settled(i) == runs[i].status \in {"COMPLETED", "FAILED"}

\* Whatever the run's status: a run that was settled is active again.
Start(m) == LET i == messages[m].run IN
            /\ messages[m].at = "queued" /\ Busy < Workers
            /\ messages' = [messages EXCEPT ![m].at = "working"]
            /\ runs' = [runs EXCEPT ![i].status = "RUNNING", ![i].again = @ \/ Settled(i)]
            /\ UNCHANGED <<hour, tasks, faults>>

\* the verdict, and the acknowledgement
Finish(m) == /\ messages[m].at = "working"
             /\ messages' = [messages EXCEPT ![m].at = "done"]
             /\ \E s \in {"COMPLETED", "FAILED"} :
                  runs' = [runs EXCEPT ![messages[m].run].status = s]
             /\ UNCHANGED <<hour, tasks, faults>>

\* A message that is not acknowledged is handed over again: its worker died, also
\* between verdict and acknowledgement, or its visibility timeout passed.
RedeliverRun(m) ==
  /\ messages[m].at \in {"working", "done"} /\ Fault
  /\ \E left \in {messages[m].at, "lost"} :
       messages' = Append([messages EXCEPT ![m].at = left], Message(messages[m].run))
  /\ UNCHANGED <<hour, tasks, runs>>

Execute(m) == Start(m) \/ Finish(m)

Next == \/ Tick
        \/ \E f \in Firings : Fire(f) \/ Work(f) \/ SendFails(f) \/ Redeliver(f)
        \/ \E m \in DOMAIN messages : Execute(m) \/ RedeliverRun(m)

Spec == Init /\ [][Next]_vars

\* every run, and every message of one, ever
Ids == 1..(MaxFirings + 2 * MaxFaults)

\* The worker works; time need not pass.
FairSpec == /\ Spec
            /\ \A f \in Firings : WF_vars(Work(f))
            /\ \A m \in Ids : WF_vars(m \in DOMAIN messages /\ Execute(m))

-----------------------------------------------------------------------------
(* Properties *)

TypeOK == /\ hour \in 0..MaxHour /\ faults \in 0..MaxFaults
          /\ \A f \in Firings :
               /\ tasks[f].at \in {"none", "queued", "check", "create", "send", "done", "failed"}
               /\ tasks[f].run \in 0..Len(runs)
               /\ tasks[f].began \in 0..hour
          /\ \A i \in DOMAIN runs :
               /\ runs[i].status \in {"QUEUED", "RUNNING", "COMPLETED", "FAILED"}
               /\ runs[i].created \in 0..hour /\ runs[i].again \in BOOLEAN
          /\ \A m \in DOMAIN messages :
               /\ messages[m].run \in DOMAIN runs
               /\ messages[m].at \in {"queued", "working", "done", "lost"}

Active(i) == runs[i].status \in {"QUEUED", "RUNNING"}

\* the active runs created within the window that ends at an hour, those aside
\* that a message handed over again made active after they were settled
ActiveIn(t) == {i \in DOMAIN runs : /\ Active(i) /\ ~runs[i].again
                                    /\ runs[i].created <= t /\ t <= runs[i].created + Window}

\* "Used to prevent duplicate beat runs": of one window there are no more active
\* scheduled runs than worker processes, crashes and redeliveries of tasks and
\* runs included, but for settled runs that were started again.  With one process
\* that is the promise; with two, tasks that look before either has committed its
\* run both create one.
OneInWindow == \A t \in 0..hour : Cardinality(ActiveIn(t)) <= Workers

\* Every firing is answered: it creates a run, is skipped, or fails.
EveryFiringEnds == \A f \in Firings :
  (tasks[f].at = "queued") ~> (tasks[f].at \in {"done", "failed"})

\* "Create and enqueue a scheduled research run": a run that was created is
\* executed some time.
CreatedIsExecuted == \A i \in Ids :
  (i \in DOMAIN runs) ~> (i \in DOMAIN runs /\ Settled(i))

\* OneInWindow of all active runs
OneInWindowOfAll == \A t \in 0..hour :
  Cardinality({i \in DOMAIN runs : /\ Active(i) /\ runs[i].created <= t
                                   /\ t <= runs[i].created + Window}) <= Workers
=============================================================================
