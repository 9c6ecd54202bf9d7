------------------------ MODULE MCAdvisorSimulation ------------------------
(* AdvisorRuns on a window of three days and price histories with gaps      *)
(* before, across and after its end.                                        *)
EXTENDS AdvisorRuns, TLC

\* days 1..3 are the window, 0 and 4..5 its buffers
SmallDays == 0..5

Steady == [d \in SmallDays |-> 10]
Rising == [d \in SmallDays |-> IF d < 2 THEN 5 ELSE 10]
\* no price on the first days, on the last ones, and none at all
Late   == [d \in SmallDays |-> IF d \in {1, 2} THEN 0 ELSE 10]
Early  == [d \in SmallDays |-> IF d \in {2, 3} THEN 0 ELSE 20]
Never  == [d \in SmallDays |-> 0]

Histories == {("A" :> Steady @@ "B" :> Rising), ("A" :> Late @@ "B" :> Rising),
              ("A" :> Early @@ "B" :> Steady), ("A" :> Never @@ "B" :> Late),
              ("A" :> Never @@ "B" :> Never)}

\* no price: a run without holdings is stored, one with holdings is refused
NoPrices == {("A" :> Never @@ "B" :> Never)}

\* nothing, a little, nearly everything, more than there is
FewHoldings == {("A" :> 0 @@ "B" :> 0), ("A" :> 9 @@ "B" :> 0), ("A" :> 90 @@ "B" :> 0),
                ("A" :> 10 @@ "B" :> 200)}
=============================================================================
