--------------------------- MODULE MCResearchRuns ---------------------------
(* Small instances of ResearchRuns for TLC. *)
EXTENDS ResearchRuns, TLC

\* The fault budgets of the runs: every kind not named is 0.
Allow(kinds, n) == [k \in FaultKinds |-> IF k \in kinds THEN n ELSE 0]

\* anything the queue, the workers, PostgreSQL and the nodes can do, once each
EveryFault == Allow(FaultKinds, 1)
\* exactly-once delivery: no duplicated message, everything else may happen
ExactlyOnce == Allow(FaultKinds \ {"ambiguous", "restart", "redelivery"}, 1)
\* what a run survives: an unavailable queue, a restarted worker, node faults.
\* Not together with "redelivery": see "How a run is stranded" in README.md.
Recoverable == Allow({"sendfail", "ambiguous", "restart", "node", "setup"}, 1)
OneRedelivery == Allow({"redelivery"}, 1)
FailingNode == Allow({"norec"}, 1)
NoFault == Allow({}, 0)

Symmetry == Permutations(Symbols) \cup Permutations(Workers)
=============================================================================
