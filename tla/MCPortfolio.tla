---------------------------- MODULE MCPortfolio ----------------------------
(* An instance of Portfolio for TLC. *)
EXTENDS Portfolio, TLC

Symmetry == Permutations(Slots)
=============================================================================
