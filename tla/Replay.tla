------------------------------- MODULE Replay -------------------------------
(***************************************************************************)
(* Historical replay: how a batch is executed (ReplayBatch) and what its   *)
(* report says (ReplayReport).                                             *)
(*                                                                         *)
(* The execution of a batch does not depend on its dates and scores, nor   *)
(* the report on queue and workers, only on which runs completed; so a     *)
(* behaviour is about one or the other.                                    *)
(***************************************************************************)
EXTENDS ReplayBatch, ReplayReport

replayVars == <<vars, reportVars>>

Executing(A) == request = <<>> /\ A /\ UNCHANGED reportVars

Reporting == api = "idle" /\ NextReport /\ UNCHANGED vars

InitReplay == Init /\ InitReport

NextReplay == Executing(Next) \/ Reporting

\* The request runs on, the workers take messages and finish them.
ReplaySpec == InitReplay /\ [][NextReplay]_replayVars
              /\ WF_replayVars(Executing(Request))
              /\ \A r \in Runs : WF_replayVars(Executing(Work(r)))
=============================================================================
