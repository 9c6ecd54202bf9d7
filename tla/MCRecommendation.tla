-------------------------- MODULE MCRecommendation --------------------------
(* Recommendation with the seeded strategy and inputs on both sides of every *)
(* threshold.                                                                *)
EXTENDS Recommendation

Seeded == [strong_buy |-> 85, buy_candidate |-> 70, hold |-> 50, reduce |-> 35,
           min_quality |-> 50, min_quality_strong |-> 75, min_confidence |-> 65,
           min_fundamentals |-> 30, max_weight |-> 15,
           low_fundamentals |-> "WATCHLIST", missing_news |-> "BUY_CANDIDATE",
           missing_portfolio |-> "BUY_CANDIDATE"]

\* nothing positive, a fair and a perfect chart
FewSignals == {3, 25, 35}
\* a perfect score from few fields, a poor and a perfect snapshot
FewSnapshots == {[score |-> 35, quality |-> 20], [score |-> 5, quality |-> 90],
                 [score |-> 35, quality |-> 100]}
EdgeScores == {0, 12}
WorstSocial == {15}
EdgeLlm == {0, 25}

Fund(w, l, c) == [weight |-> w, held |-> w > 0, limit |-> l, concentration |-> c,
                  cash |-> 50, risk |-> "HIGH"]
\* no position; under, between and over the two limits; an unset limit
FewPortfolios == {Fund(0, 10, 0), Fund(4, 10, 20), Fund(12, 10, 60), Fund(20, 10, 100),
                  Fund(4, 0, 20)}
=============================================================================
