------------------------------- MODULE Memory -------------------------------
(***************************************************************************)
(* The research memory of one symbol: reports of recommendations in        *)
(* ChromaDB beside the rows in Postgres they are about.                    *)
(*                                                                         *)
(* An execution of a research run asks the memory what was recommended     *)
(* before, saves its own recommendation in its transaction, indexes a      *)
(* report of it and records how that went; the transaction commits later,  *)
(* or is lost.  A report is filed under its run: executing a run again     *)
(* replaces it.  The command line reindexes and resets.                    *)
(***************************************************************************)
EXTENDS Naturals, FiniteSets

CONSTANTS Runs,
          Executions,   \* executions of the runs, deliveries of one message included
          RunOf,        \* [Executions -> Runs]
          Limit,        \* reports a query returns
          MaxFaults,    \* bound: queries and upserts that fail, transactions lost
          MaxCommands,  \* bound: uses of the command line
          NoReport

ASSUME MemoryConstants == /\ RunOf \in [Executions -> Runs]
                          /\ Limit \in Nat \ {0} /\ {MaxFaults, MaxCommands} \subseteq Nat
                          /\ NoReport \notin [by : Executions, stamp : Nat]

ASSUME RunsFinite == IsFiniteSet(Runs)

VARIABLES at,       \* how far an execution is: "waiting", "asked", "unsaved",
                    \* "indexed", "committed" or "lost"
          neutral,  \* whether it came to a recommendation
          event,    \* its MemoryIndexEvent, "NONE", "INDEXED" or "FAILED"
          reports,  \* reports[r]: the collection recommendation_reports
          clock,    \* created_at_ts of the youngest report
          told,     \* what the memory told an execution
          cli,      \* the command line: reindexing, and what its session holds
          faults, commands,
          stamped,  \* history: when an execution indexed its report, 0 if it did not
          wiped,    \* history: executions whose reports a reset may have dropped
          restamped \* history: whether a reindex has renewed a report

database == <<at, neutral, event>>
bounds == <<faults, commands>>
history == <<stamped, wiped, restamped>>
memoryVars == <<database, reports, clock, told, cli, bounds, history>>

NoCommand == [at |-> "idle", seen |-> {}, todo |-> {}, fixed |-> {}]

\* missed: newer recommendations than the one it was told
Untold == [as |-> "nothing", missed |-> {}]

InitMemory == /\ at = [e \in Executions |-> "waiting"]
              /\ neutral = [e \in Executions |-> FALSE]
              /\ event = [e \in Executions |-> "NONE"]
              /\ reports = [r \in Runs |-> NoReport]
              /\ clock = 0
              /\ told = [e \in Executions |-> Untold]
              /\ cli = NoCommand
              /\ faults = 0 /\ commands = 0
              /\ stamped = [e \in Executions |-> 0]
              /\ wiped = {} /\ restamped = FALSE

Committed == {e \in Executions : at[e] = "committed"}

\* NeutralRecommendation rows that can be seen
Recommendations == {e \in Committed : neutral[e]}

Fault == faults < MaxFaults /\ faults' = faults + 1

-----------------------------------------------------------------------------
(* retrieve_symbol_memory *)

Reported == {r \in Runs : reports[r] # NoReport}

\* the most similar, at most as many as asked for
Found == {R \in SUBSET Reported :
            Cardinality(R) = IF Cardinality(Reported) < Limit THEN Cardinality(Reported) ELSE Limit}

\* mutation: in the order of similarity
NewestOfAny(R) == CHOOSE r \in R : \A x \in R : reports[r].stamp <= reports[x].stamp

\* created_at_ts descending; every report has an action and a run
NewestOf(R) == CHOOSE r \in R : \A x \in R : reports[x].stamp <= reports[r].stamp

\* recommendations committed, marked INDEXED and not reset since
Remembered == {x \in Recommendations \ wiped : event[x] = "INDEXED"}

\* No claim is made of more reports than asked for, nor of renewed ones.
Missed(R) == IF R = {} THEN Remembered
             ELSE IF Cardinality(Reported) > Limit \/ restamped THEN {}
             ELSE {x \in Remembered : stamped[x] > reports[NewestOf(R)].stamp}

Tell(e, as, missed) == told' = [told EXCEPT ![e] = [as |-> as, missed |-> missed]]

\* "No previous research found. First run." if there is nothing
Retrieve(e) ==
  /\ at[e] = "waiting"
  /\ at' = [at EXCEPT ![e] = "asked"]
  /\ \E R \in Found : Tell(e, IF R = {} THEN "first run" ELSE "previous", Missed(R))
  /\ UNCHANGED <<neutral, event, reports, clock, cli, bounds, history>>

\* "Continuing without history."
RetrieveFails(e) ==
  /\ at[e] = "waiting" /\ Fault
  /\ at' = [at EXCEPT ![e] = "asked"]
  /\ Tell(e, "failed", {})
  /\ UNCHANGED <<neutral, event, reports, clock, cli, commands, history>>

-----------------------------------------------------------------------------
(* persist_results *)

\* mutation: indexed although nothing was saved
SaveFailsQuietly(e) ==
  /\ at[e] = "asked" /\ Fault
  /\ reports' = [reports EXCEPT ![RunOf[e]] = [by |-> e, stamp |-> clock + 1]]
  /\ clock' = clock + 1
  /\ at' = [at EXCEPT ![e] = "unsaved"]
  /\ \E b \in BOOLEAN : neutral' = [neutral EXCEPT ![e] = b]
  /\ UNCHANGED <<event, told, cli, commands, history>>

\* The ticker is FAILED, nothing is indexed and there is no event; a neutral row
\* that was flushed before a later statement raised stays.
SaveFails(e) ==
  /\ at[e] = "asked" /\ Fault
  /\ at' = [at EXCEPT ![e] = "unsaved"]
  /\ \E b \in BOOLEAN : neutral' = [neutral EXCEPT ![e] = b]
  /\ UNCHANGED <<event, reports, clock, told, cli, commands, history>>

Upsert(e) == /\ reports' = [reports EXCEPT ![RunOf[e]] = [by |-> e, stamp |-> clock + 1]]
             /\ clock' = clock + 1

\* Saved and indexed, also where no node came to a recommendation; the event
\* is added to the transaction.
Persist(e) ==
  /\ at[e] = "asked"
  /\ at' = [at EXCEPT ![e] = "indexed"]
  /\ \E b \in BOOLEAN : neutral' = [neutral EXCEPT ![e] = b]
  /\ Upsert(e)
  /\ event' = [event EXCEPT ![e] = "INDEXED"]
  /\ stamped' = [stamped EXCEPT ![e] = clock + 1]
  /\ UNCHANGED <<told, cli, bounds, wiped, restamped>>

\* Saved, but the upsert raised, before or after it was done.
IndexFails(e) ==
  /\ at[e] = "asked" /\ Fault
  /\ at' = [at EXCEPT ![e] = "indexed"]
  /\ \E b \in BOOLEAN : neutral' = [neutral EXCEPT ![e] = b]
  /\ Upsert(e) \/ UNCHANGED <<reports, clock>>
  /\ event' = [event EXCEPT ![e] = "FAILED"]
  /\ UNCHANGED <<told, cli, commands, history>>

\* The transaction of the execution ends, with what its other tickers did.
CommitExecution(e) ==
  /\ at[e] \in {"indexed", "unsaved"}
  /\ at' = [at EXCEPT ![e] = "committed"]
  /\ UNCHANGED <<neutral, event, reports, clock, told, cli, bounds, history>>

\* A crash, or an error of a later statement: rows and event are rolled back,
\* the report stays.
Lose(e) ==
  /\ at[e] \in {"asked", "indexed", "unsaved"} /\ Fault
  /\ at' = [at EXCEPT ![e] = "lost"]
  /\ neutral' = [neutral EXCEPT ![e] = FALSE]
  /\ event' = [event EXCEPT ![e] = "NONE"]
  /\ UNCHANGED <<reports, clock, told, cli, commands, history>>

-----------------------------------------------------------------------------
(* apps/cli/memory.py *)

Command == commands < MaxCommands /\ commands' = commands + 1

\* events with an entity
Failed == {e \in Recommendations : event[e] = "FAILED"}

\* reindex [--all]; the events are loaded, and updated, only without --all
Reindex ==
  /\ cli.at = "idle" /\ Command
  /\ \/ /\ Failed # {}
        /\ cli' = [at |-> "reindexing", seen |-> Failed, todo |-> Failed, fixed |-> {}]
     \/ cli' = [at |-> "reindexing", seen |-> {}, todo |-> Recommendations, fixed |-> {}]
  /\ UNCHANGED <<database, reports, clock, told, faults, history>>

\* The report is made from the row, but of the time it is made.
ReindexOne(e) ==
  /\ cli.at = "reindexing" /\ e \in cli.todo
  /\ Upsert(e)
  /\ cli' = [cli EXCEPT !.todo = @ \ {e}, !.fixed = @ \cup ({e} \cap cli.seen)]
  /\ restamped' = TRUE
  /\ UNCHANGED <<database, told, bounds, stamped, wiped>>

\* counted, and the next one tried
ReindexOneFails(e) ==
  /\ cli.at = "reindexing" /\ e \in cli.todo /\ Fault
  /\ cli' = [cli EXCEPT !.todo = @ \ {e}]
  /\ UNCHANGED <<database, reports, clock, told, commands, history>>

\* mutation: all events that were found are updated
ReindexEndsAll ==
  /\ cli.at = "reindexing" /\ cli.todo = {}
  /\ event' = [e \in Executions |-> IF e \in cli.seen THEN "INDEXED" ELSE event[e]]
  /\ cli' = NoCommand
  /\ UNCHANGED <<at, neutral, reports, clock, told, bounds, history>>

\* one commit for all
ReindexEnds ==
  /\ cli.at = "reindexing" /\ cli.todo = {}
  /\ event' = [e \in Executions |-> IF e \in cli.fixed THEN "INDEXED" ELSE event[e]]
  /\ cli' = NoCommand
  /\ UNCHANGED <<at, neutral, reports, clock, told, bounds, history>>

ReindexDies ==
  /\ cli.at = "reindexing" /\ Fault
  /\ cli' = NoCommand
  /\ UNCHANGED <<database, reports, clock, told, commands, history>>

\* reset, also from another terminal while a reindex runs
Reset ==
  /\ Command
  /\ reports' = [r \in Runs |-> NoReport]
  /\ wiped' = {e \in Executions : at[e] \in {"indexed", "committed", "lost"}}
  /\ UNCHANGED <<database, clock, told, cli, faults, stamped, restamped>>

-----------------------------------------------------------------------------
Execute(e) == \/ Retrieve(e) \/ RetrieveFails(e) \/ Persist(e) \/ IndexFails(e) \/ SaveFails(e)
              \/ CommitExecution(e) \/ Lose(e)

NextMemory == \/ \E e \in Executions : Execute(e) \/ ReindexOne(e) \/ ReindexOneFails(e)
              \/ Reindex \/ ReindexEnds \/ ReindexDies \/ Reset

MemorySpec == InitMemory /\ [][NextMemory]_memoryVars

-----------------------------------------------------------------------------
(* Properties *)

Report == [by : Executions, stamp : Nat]

MemoryTyped ==
  /\ at \in [Executions -> {"waiting", "asked", "unsaved", "indexed", "committed", "lost"}]
  /\ neutral \in [Executions -> BOOLEAN]
  /\ event \in [Executions -> {"NONE", "INDEXED", "FAILED"}]
  /\ reports \in [Runs -> Report \cup {NoReport}]
  /\ clock \in Nat
  /\ told \in [Executions -> [as : {"nothing", "first run", "previous", "failed"},
                              missed : SUBSET Executions]]
  /\ cli.at \in {"idle", "reindexing"}
  /\ cli.seen \subseteq Executions /\ cli.todo \subseteq Executions /\ cli.fixed \subseteq Executions
  /\ faults \in Nat /\ commands \in Nat
  /\ stamped \in [Executions -> Nat] /\ wiped \subseteq Executions /\ restamped \in BOOLEAN

\* the rows of tickers that completed: the other ones have no event
Filed == {e \in Recommendations : event[e] # "NONE"}

\* "Rows with status=FAILED can be replayed" (MemoryIndexEvent): a
\* recommendation that was committed with a completed ticker has a report under
\* its run, or an event from which a reindex finds it; only a reset can forget
\* one.  However upserts fail, whether they were done or not, and whatever a
\* reindex that fails for some, dies or overlaps with executions makes of the
\* events.
NothingForgotten == \A e \in Filed :
  \/ reports[RunOf[e]] # NoReport
  \/ event[e] = "FAILED"
  \/ e \in wiped

\* Reports are written before the rows they are about are committed, so some
\* are about rows that never were: but a report is always of an execution of
\* its run that got as far as indexing one, is still to commit or lost its
\* transaction, or that was committed and reindexed; never of one that could not
\* save anything and went on.
ReportsExplained == \A r \in Runs : reports[r] # NoReport =>
  LET e == reports[r].by IN
    /\ RunOf[e] = r
    /\ at[e] \in {"indexed", "committed", "lost"}
    /\ at[e] # "lost" /\ event[e] = "NONE" => e \in Recommendations /\ restamped

\* "previous_recommendation always uses the newest real research run doc": as
\* long as there are no more reports than a query returns and none was renewed
\* by a reindex, no recommendation that was committed and marked INDEXED when
\* the run asked is newer than the one it was told, and it is told that this is
\* the first run only if there was none.
HistoryTold == \A e \in Executions : told[e].missed = {}

\* NothingForgotten of every row: a row whose ticker failed has no event to be
\* replayed from.
EveryRowFound == \A e \in Recommendations :
  reports[RunOf[e]] # NoReport \/ event[e] = "FAILED" \/ e \in wiped
=============================================================================
