---------------------------- MODULE AdvisorRuns ----------------------------
(***************************************************************************)
(* An advisor backtest as its user sees it: the simulation is run and      *)
(* stored in one transaction, or refused, and analyses of what was stored  *)
(* are asked for.                                                          *)
(*                                                                         *)
(* A stored run is never changed, so what is in it makes no difference to  *)
(* who is given which analysis: Analysed says which ones are looked at.    *)
(***************************************************************************)
EXTENDS AdvisorSimulation, BacktestAnalysis

CONSTANT Analysed     \* bound: the price histories whose runs are analysed

\* create_advisor_backtest: a simulation that is done is committed
Stored == phase = "done" /\ Store

\* Analyses are asked for of runs that traded nothing, refused ones included.
Asked == phase \in {"done", "rejected"} /\ bars \in Analysed /\ recs = 0

InitAdvisor == Init /\ InitAnalysis

NextAdvisor == \/ Next /\ UNCHANGED analysisVars
               \/ Stored /\ UNCHANGED vars
               \/ Asked /\ NextAnalysis /\ UNCHANGED vars

AdvisorSpec == InitAdvisor /\ [][NextAdvisor]_<<vars, analysisVars>>
=============================================================================
