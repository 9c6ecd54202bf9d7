---------------------------- MODULE RunLifecycle ----------------------------
(***************************************************************************)
(* What a research run promises to its reader, after the lifecycle drawn   *)
(* in docs/MILESTONES.md:                                                  *)
(*                                                                         *)
(*   sync   CREATED -> RUNNING -> COMPLETED / FAILED                       *)
(*   async  CREATED -> QUEUED -> RUNNING -> COMPLETED / FAILED             *)
(*                                                                         *)
(* A run is settled once.  Its recommendations become visible in the very  *)
(* step that settles it, at most one for each symbol.                      *)
(* CREATED never reaches another transaction, so a run that is not yet     *)
(* visible is "ABSENT".                                                    *)
(***************************************************************************)
EXTENDS Naturals

CONSTANTS Runs,     \* research_runs rows
          Symbols   \* symbols of each run

VARIABLES status,   \* status[r]   ResearchRun.status
          recs      \* recs[r][s]  number of neutral_recommendations rows

vars == <<status, recs>>

Init == /\ status = [r \in Runs |-> "ABSENT"]
        /\ recs = [r \in Runs |-> [s \in Symbols |-> 0]]

Move(r, from, to) == /\ status[r] = from
                     /\ status' = [status EXCEPT ![r] = to]

Submit(r) == /\ \E first \in {"QUEUED", "RUNNING"} : Move(r, "ABSENT", first)
             /\ UNCHANGED recs

\* The job queue is unavailable.
Reject(r) == Move(r, "QUEUED", "FAILED") /\ UNCHANGED recs

Start(r) == Move(r, "QUEUED", "RUNNING") /\ UNCHANGED recs

Settle(r) == /\ \E last \in {"COMPLETED", "FAILED"} : Move(r, "RUNNING", last)
             /\ \E S \in SUBSET Symbols :
                  recs' = [recs EXCEPT ![r] = [s \in Symbols |-> IF s \in S THEN 1 ELSE 0]]

Next == \E r \in Runs : Submit(r) \/ Reject(r) \/ Start(r) \/ Settle(r)

Spec == Init /\ [][Next]_vars
=============================================================================
