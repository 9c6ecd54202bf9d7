----------------------------- MODULE MCOutcomes -----------------------------
(* Outcomes over a week of which four days are looked at, with a horizon of *)
(* six days and price histories that rise, fall, recover or have gaps.      *)
EXTENDS Outcomes

Week == {0, 1, 3, 7}

TwoDays == {0, 6}

Fall    == [d \in Week |-> IF d < 3 THEN 100 ELSE 80]
Recover == [d \in Week |-> IF d = 3 THEN 80 ELSE IF d = 7 THEN 125 ELSE 100]
Sparse  == [d \in Week |-> IF d = 7 THEN 100 ELSE 0]
Flat    == [d \in Week |-> 100]

OneStock  == {("S" :> x @@ "B" :> Fall) : x \in {Fall, Recover, Sparse}}
FirstOrLast == {("S" :> [d \in TwoDays |-> IF d = 0 THEN 100 ELSE 80] @@
                 "T" :> [d \in TwoDays |-> IF d = 0 THEN 100 ELSE 125] @@
                 "B" :> [d \in TwoDays |-> 100])}
FlatStock == {("S" :> Flat @@ "B" :> Flat)}
=============================================================================
