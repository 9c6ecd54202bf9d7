------------------------------ MODULE MCMemory ------------------------------
(* Memory with two runs, one of them executed twice. *)
EXTENDS Memory, TLC

CONSTANTS a1, a2, b1, A, B

TwoRuns == (a1 :> A @@ a2 :> A @@ b1 :> B)
Symmetry == Permutations({a1, a2})
=============================================================================
