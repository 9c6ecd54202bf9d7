--------------------------- MODULE Decision_proofs ---------------------------
(* Proofs about a decision, from the inputs of the scoring to the trade, for  *)
(* every strategy and every set of inputs, and about the portfolio that it is *)
(* made for, for every set of symbols, quantities and prices and any number   *)
(* of requests at once.                                                       *)
EXTENDS Recommendation, Portfolio, SetLemmas, TLAPS

-----------------------------------------------------------------------------
(* Recommendation *)

\* A gate that replaces a buy by an action no stronger than the weakest buy
\* stays within the actions and does not strengthen.
LEMMA BuysReplaced ==
  ASSUME NEW a \in Actions, NEW low,
         NEW by \in {"WATCHLIST", "HOLD"}
  PROVE  /\ Replace(a, Buys, low, by) \in Actions
         /\ Rank[Replace(a, Buys, low, by)] <= Rank[a]
BY DEF Replace, Rank, Actions, Buys

\* The gate that demotes a STRONG_BUY does not strengthen.
LEMMA StrongReplaced ==
  ASSUME NEW a \in Actions, NEW low
  PROVE  /\ Replace(a, {"STRONG_BUY"}, low, "BUY_CANDIDATE") \in Actions
         /\ Rank[Replace(a, {"STRONG_BUY"}, low, "BUY_CANDIDATE")] <= Rank[a]
BY DEF Replace, Rank, Actions

\* A configured cap never strengthens, whatever action it names.
LEMMA Capped ==
  ASSUME NEW a \in Actions, NEW F, NEW low, NEW cap \in Actions
  PROVE  /\ Cap(a, F, low, cap) \in Actions
         /\ Rank[Cap(a, F, low, cap)] <= Rank[a]
BY DEF Cap, Rank, Actions

\* Ranks are numbers.
LEMMA RankIsNat == \A a \in Actions : Rank[a] \in Nat
BY DEF Rank, Actions

\* The caps of a strategy are actions.
LEMMA CapsAreActions ==
  /\ Strategy.low_fundamentals \in Actions
  /\ Strategy.missing_news \in Actions
  /\ Strategy.missing_portfolio \in Actions
BY StrategyTyped

\* Seven gates in a row weaken.
LEMMA PolicyWeakens ==
  ASSUME NEW a \in Actions, NEW i
  PROVE  /\ ApplyPolicy(a, i) \in Actions
         /\ Rank[ApplyPolicy(a, i)] <= Rank[a]
<1> DEFINE L1 == i.data_quality < Strategy.min_quality
           L2 == i.fundamentals < Strategy.min_fundamentals
           L3 == i.confidence < Strategy.min_confidence
           L4 == i.data_quality < Strategy.min_quality_strong
           L7 == i.weight > Strategy.max_weight
           g1 == Replace(a, Buys, L1, "WATCHLIST")
           g2 == Cap(g1, Buys, L2, Strategy.low_fundamentals)
           g3 == Replace(g2, Buys, L3, "WATCHLIST")
           g4 == Replace(g3, {"STRONG_BUY"}, L4, "BUY_CANDIDATE")
           g5 == Cap(g4, {"STRONG_BUY"}, i.news_missing, Strategy.missing_news)
           g6 == Cap(g5, {"STRONG_BUY"}, i.portfolio_missing, Strategy.missing_portfolio)
           g7 == Replace(g6, Buys, L7, "HOLD")
<1>0. ApplyPolicy(a, i) = g7
  BY DEF ApplyPolicy
<1> HIDE DEF L1, L2, L3, L4, L7
<1>1. g1 \in Actions /\ Rank[g1] <= Rank[a]
  BY BuysReplaced
<1> HIDE DEF g1
<1>2. g2 \in Actions /\ Rank[g2] <= Rank[g1]
  BY <1>1, Capped, CapsAreActions
<1> HIDE DEF g2
<1>3. g3 \in Actions /\ Rank[g3] <= Rank[g2]
  BY <1>2, BuysReplaced
<1> HIDE DEF g3
<1>4. g4 \in Actions /\ Rank[g4] <= Rank[g3]
  BY <1>3, StrongReplaced
<1> HIDE DEF g4
<1>5. g5 \in Actions /\ Rank[g5] <= Rank[g4]
  BY <1>4, Capped, CapsAreActions
<1> HIDE DEF g5
<1>6. g6 \in Actions /\ Rank[g6] <= Rank[g5]
  BY <1>5, Capped, CapsAreActions
<1> HIDE DEF g6
<1>7. g7 \in Actions /\ Rank[g7] <= Rank[g6]
  BY <1>6, BuysReplaced
<1> HIDE DEF g7
<1>8. Rank[g7] <= Rank[a]
  BY <1>1, <1>2, <1>3, <1>4, <1>5, <1>6, <1>7, RankIsNat
<1> QED BY <1>0, <1>7, <1>8

\* A decision without a position is weakened once more, never strengthened.
LEMMA WithoutPositionWeakens ==
  ASSUME NEW a \in Actions, NEW held
  PROVE  /\ WithoutPosition(a, held) \in Actions
         /\ Rank[WithoutPosition(a, held)] <= Rank[a]
BY DEF WithoutPosition, Rank, Actions

-----------------------------------------------------------------------------
(* Ranges of the scores *)

\* Rounding tenths gives whole points.
LEMMA RoundType ==
  ASSUME NEW x \in Int
  PROVE  RoundTenths(x) \in Int
BY DEF RoundTenths

\* Rounding keeps a score within its bounds.
LEMMA RoundRange ==
  ASSUME NEW x \in Int, 0 <= x, x <= 1000
  PROVE  0 <= RoundTenths(x) /\ RoundTenths(x) <= 100
BY DEF RoundTenths

\* Every score stands for an action.
LEMMA ScoreToActionType == \A score, held : ScoreToAction(score, held) \in Actions
BY DEF ScoreToAction, Actions, Rank

\* Scores of news and social posts are 0..15.
LEMMA ScoredType ==
  ASSUME NEW x \in Scored
  PROVE  x.score \in 0..15
<1>1. CASE x \in [score: NewsScores, no_data: {FALSE}]
  <2>1. x.score \in NewsScores
    BY <1>1
  <2> QED BY <2>1, InputsTyped
<1>2. CASE x = [score |-> NoData, no_data |-> TRUE]
  BY <1>2 DEF NoData
<1> QED BY <1>1, <1>2 DEF Scored

\* An analysis asks for a penalty that is a number.
LEMMA AnalysesType ==
  ASSUME NEW a \in Analyses
  PROVE  a.penalty \in Nat
<1>1. CASE a \in [outcome: {"ok"}, penalty: LlmPenalties, cap_strong_buy: BOOLEAN]
  <2>1. a.penalty \in LlmPenalties
    BY <1>1
  <2>2. LlmPenalties \subseteq Nat
    BY InputsTyped
  <2> QED BY <2>1, <2>2
<1>2. CASE a \in [outcome: {"disabled", "failed"}, penalty: {0}, cap_strong_buy: {FALSE}]
  BY <1>2
<1> QED BY <1>1, <1>2 DEF Analyses

\* Scoring gives a score and a confidence from 0 to 100.
LEMMA ScoringType ==
  ASSUME TypeOK, news \in Scored, social \in Scored, llm \in Analyses
  PROVE  /\ NeutralScore \in 0..100
         /\ Confidence(NeutralScore) \in 0..100
<1>1. NewsTenths \in Int
  BY ScoredType DEF NewsTenths
<1>2. SignalTenths \in Int
  BY InputsTyped DEF TypeOK, SignalTenths
<1>3. SnapshotTenths \in Int /\ FundamentalsQuality \in 0..100
  BY InputsTyped DEF TypeOK, SnapshotTenths, FundamentalsQuality
<1>4. PICK x \in 0..1000 :
          x = Clip(SignalTenths + SnapshotTenths + NewsTenths + FitStub, 0, 1000)
  BY <1>1, <1>2, <1>3 DEF FitStub, Clip
<1>5. NeutralScore \in 0..100
  <2>1. RoundTenths(x) \in Int
    BY <1>4, RoundType
  <2>2. 0 <= RoundTenths(x) /\ RoundTenths(x) <= 100
    BY <1>4, RoundRange
  <2> QED BY <1>4, <2>1, <2>2 DEF NeutralScore
<1>6. llm.penalty \in Nat /\ penalties \in Nat
  BY AnalysesType DEF TypeOK
<1>7. PICK high \in {70, 100} : high = IF FundamentalsQuality < 30 THEN 70 ELSE 100
  OBVIOUS
<1>8. PICK c \in 20..high : c = Clip(NeutralScore + 10, 20, high)
  BY <1>5, <1>7 DEF Clip
<1>9. PICK d \in 0..100 : d = Clip(c - penalties, 0, 100)
  BY <1>6, <1>7, <1>8 DEF Clip
<1>10. Confidence(NeutralScore) = Clip(d - llm.penalty, 0, 100)
  BY <1>7, <1>8, <1>9 DEF Confidence
<1>11. Clip(d - llm.penalty, 0, 100) \in 0..100
  BY <1>6, <1>9 DEF Clip
<1> QED BY <1>5, <1>10, <1>11

\* The limit of a portfolio is a number of percent.
LEMMA LimitType ==
  ASSUME NEW p, p.limit \in Nat
  PROVE  Limit(p) \in Nat
BY StrategyTyped DEF Limit

\* What sizing reads of a portfolio context, default or loaded.
Held == [weight: 0..100, held: BOOLEAN, limit: Nat, concentration: 0..100,
         cash: 0..100, risk: {"LOW", "MEDIUM", "HIGH"}]

\* A loaded portfolio is one of those.
LEMMA PortfolioType ==
  ASSUME NEW p \in Portfolios
  PROVE  p \in Held
<1>1. p \in [weight: 0..100, held: BOOLEAN, limit: 0..100, concentration: 0..100,
             cash: 0..100, risk: {"LOW", "MEDIUM", "HIGH"}]
  BY InputsTyped
<1> QED BY <1>1 DEF Held

\* Room under the limit is 0 to 5 points.
LEMMA RoomType ==
  ASSUME NEW p \in Held
  PROVE  Room(p) \in Int
<1>1. Limit(p) \in Nat
  BY LimitType DEF Held
<1>2. CASE Limit(p) = 0
  BY <1>2 DEF Room
<1>3. CASE Limit(p) # 0
  <2>1. Clip(Limit(p) - p.weight, 0, 100) \in 0..100
    BY <1>1 DEF Held, Clip
  <2>2. PICK n \in Int : n = 50 * Clip(Limit(p) - p.weight, 0, 100)
    BY <2>1
  <2>3. n \div Limit(p) \in Int
    BY <1>1, <1>3, <2>2
  <2> QED BY <1>3, <2>2, <2>3 DEF Room
<1> QED BY <1>2, <1>3

\* The portfolio fit is 0 to 15 points.
LEMMA FitType ==
  ASSUME NEW p \in Held, NEW a
  PROVE  PortfolioFit(p, a) \in 0..150
<1>1. Alignment(p, a) \in Int
  BY DEF Alignment
<1>2. (60 * (100 - p.concentration)) \div 100 \in Int /\ (20 * p.cash) \div 100 \in Int
  BY DEF Held
<1>3. PICK x \in Int : PortfolioFit(p, a) = Clip(x, 0, 150)
  BY <1>1, <1>2, RoomType DEF PortfolioFit
<1> QED BY <1>3 DEF Clip

\* The fields of a neutral row.
LEMMA NeutralShape ==
  \A s, c \in 0..100, f \in 0..150, a \in Actions, k \in BOOLEAN :
    [score |-> s, action |-> a, confidence |-> c, fit |-> f, capped |-> k] \in NeutralRecs
BY DEF NeutralRecs

\* Rescoring keeps the shape of the neutral row and looks its action up again.
LEMMA RescoredType ==
  ASSUME NEW n \in NeutralRecs, NEW p \in Portfolios
  PROVE  /\ Rescored(n, p) \in NeutralRecs
         /\ Rescored(n, p).action = ScoreToAction(Rescored(n, p).score, FALSE)
<1>1. PICK fit \in 0..150 : fit = PortfolioFit(p, n.action)
  BY PortfolioType, FitType
<1>2. PICK d \in Int : d = fit - n.fit
  BY <1>1 DEF NeutralRecs
<1>3. PICK e \in Int : e = RoundTenths(d)
  BY <1>2, RoundType
<1>4. PICK score \in 0..100 : score = Clip(n.score + e, 0, 100)
  BY <1>3 DEF NeutralRecs, Clip
<1>5. PICK a \in Actions : a = ScoreToAction(score, FALSE)
  BY ScoreToActionType
<1>6. Rescored(n, p) = [n EXCEPT !.score = score, !.action = a, !.fit = fit]
  BY <1>1, <1>2, <1>3, <1>4, <1>5 DEF Rescored
<1>7. Rescored(n, p) = [score |-> score, action |-> a, confidence |-> n.confidence,
                        fit |-> fit, capped |-> n.capped]
  BY <1>6 DEF NeutralRecs
<1>8. Rescored(n, p) \in NeutralRecs
  <2>1. n.confidence \in 0..100 /\ n.capped \in BOOLEAN
    BY DEF NeutralRecs
  <2>2. [score |-> score, action |-> a, confidence |-> n.confidence, fit |-> fit,
         capped |-> n.capped] \in NeutralRecs
    BY <2>1, NeutralShape, Zenon
  <2> QED BY <1>7, <2>2
<1>9. Rescored(n, p).score = score /\ Rescored(n, p).action = a
  BY <1>7
<1> QED BY <1>5, <1>8, <1>9

\* A size never exceeds the limit it was given.
LEMMA SizeType ==
  ASSUME NEW risk \in {"LOW", "MEDIUM", "HIGH"}, NEW score, NEW confidence, NEW limit \in Nat
  PROVE  /\ PositionSize(risk, score, confidence, limit) \in Nat
         /\ PositionSize(risk, score, confidence, limit) <= 100 * limit
<1>1. MaxByRisk[risk] \in Nat
  BY DEF MaxByRisk
<1>2. PICK cap \in Nat : /\ cap = IF MaxByRisk[risk] < 100 * limit THEN MaxByRisk[risk]
                                                                 ELSE 100 * limit
                         /\ cap <= 100 * limit
  BY <1>1
<1>3. PositionSize(risk, score, confidence, limit) \in {0, cap, (3 * cap) \div 4, cap \div 2}
  BY <1>2 DEF PositionSize
<1> QED BY <1>2, <1>3

\* A trade goes towards the limit.
LEMMA TradeType ==
  ASSUME NEW a, NEW weight \in 0..100, NEW limit \in Nat, NEW target \in Nat,
         target <= 100 * limit
  PROVE  /\ Trade(a, weight, target, limit) \in {"BUY", "TRIM", "NONE"}
         /\ Trade(a, weight, target, limit) = "BUY" => weight < limit
         /\ Trade(a, weight, target, limit) = "TRIM" => weight > limit
BY DEF Trade

\* What the decision node holds is a typed context.
LEMMA HoldingType ==
  ASSUME TypeOK
  PROVE  Holding \in Held /\ Limit(Holding) \in Nat
<1>1. CASE portfolio # None
  <2>1. portfolio \in Portfolios
    BY <1>1 DEF TypeOK
  <2> QED BY <1>1, <2>1, PortfolioType, LimitType DEF Holding, Held
<1>2. CASE portfolio = None
  <2>1. Strategy.max_weight \in Nat
    BY StrategyTyped
  <2> QED BY <1>2, <2>1, LimitType DEF Holding, Held
<1> QED BY <1>1, <1>2
-----------------------------------------------------------------------------
(* The invariant *)

\* Penalizing keeps the sum a natural number.
LEMMA PenalizeType ==
  ASSUME TypeOK, NEW p \in Nat, Penalize(p)
  PROVE  penalties' \in Nat
BY DEF TypeOK, Penalize

\* The initial state has gathered and decided nothing.
LEMMA InitHolds == Init => IInv
<1> SUFFICES ASSUME Init PROVE IInv
  OBVIOUS
<1>1. TypeOK
  BY DEF Init, TypeOK, Qualities
<1>2. ChainInv
  BY DEF Init, ChainInv, BeforeNews, BeforeSocial, BeforeLlm
<1>3. NeutralMatches /\ PersonalNeverStronger /\ ActionMatchesScore /\ TradeWithinLimit
  BY DEF Init, NeutralMatches, PersonalNeverStronger, ActionMatchesScore, TradeWithinLimit
<1> QED BY <1>1, <1>2, <1>3 DEF IInv

\* Gathering evidence touches neither the rows nor what they were decided from.
Undecided == UNCHANGED <<neutral, portfolio, personal, saved>>

\* The decision properties read the rows and the portfolio only.
LEMMA DecisionKept ==
  ASSUME IInv, Undecided
  PROVE  (NeutralMatches /\ PersonalNeverStronger /\ ActionMatchesScore /\ TradeWithinLimit)'
BY DEF IInv, Undecided, NeutralMatches, PersonalNeverStronger, ActionMatchesScore,
       TradeWithinLimit, Holding

\* Scoring writes a typed row whose action is the one its score stands for,
\* unless the critic capped it.
LEMMA ScoringStep ==
  ASSUME IInv, NeutralRecommendation
  PROVE  /\ neutral' \in NeutralRecs
         /\ NeutralMatches'
<1>1. news \in Scored /\ social \in Scored /\ llm \in Analyses
  BY DEF NeutralRecommendation, Run, IInv, ChainInv, BeforeNews, BeforeSocial, BeforeLlm
<1>2. PICK score \in 0..100, confidence \in 0..100 :
        score = NeutralScore /\ confidence = Confidence(NeutralScore)
  BY <1>1, ScoringType DEF IInv
<1>3. PICK action \in Actions : action = ScoreToAction(score, FALSE)
  BY ScoreToActionType
<1>4. PICK capped \in BOOLEAN : capped = (llm.cap_strong_buy /\ action = "STRONG_BUY")
  OBVIOUS
<1>5. PICK final \in Actions : final = IF capped THEN "BUY_CANDIDATE" ELSE action
  BY <1>3 DEF Actions, Rank
<1>6. neutral' = [score |-> score, action |-> final, confidence |-> confidence,
                  fit |-> FitStub, capped |-> capped]
  BY <1>2, <1>3, <1>4, <1>5 DEF NeutralRecommendation
<1>7. neutral' \in NeutralRecs
  <2>1. FitStub \in 0..150
    BY DEF FitStub
  <2>2. [score |-> score, action |-> final, confidence |-> confidence,
         fit |-> FitStub, capped |-> capped] \in NeutralRecs
    BY <1>2, <1>4, <1>5, <2>1, NeutralShape, Zenon
  <2> QED BY <1>6, <2>2
<1>8. NeutralMatches'
  BY <1>3, <1>5, <1>6 DEF NeutralMatches
<1> QED BY <1>7, <1>8

\* The decision node weakens the neutral action and trades within the limit.
LEMMA DecisionStep ==
  ASSUME IInv, PersonalizedRecommendation, neutral # None
  PROVE  /\ personal' \in PersonalRecs
         /\ PersonalNeverStronger'
         /\ TradeWithinLimit'
<1>1. neutral \in NeutralRecs /\ neutral.action \in Actions
  BY DEF IInv, TypeOK, NeutralRecs
<1>2. Holding \in Held /\ Limit(Holding) \in Nat
  BY HoldingType DEF IInv
<1>3. PICK gated \in Actions : /\ gated = ApplyPolicy(neutral.action, GateInput)
                               /\ Rank[gated] <= Rank[neutral.action]
  BY <1>1, PolicyWeakens
<1>4. PICK action \in Actions : /\ action = WithoutPosition(gated, Holding.held)
                                /\ Rank[action] <= Rank[gated]
  BY <1>3, WithoutPositionWeakens
<1>5. PICK limit \in Nat, weight \in 0..100 : limit = Limit(Holding) /\ weight = Holding.weight
  BY <1>2 DEF Held
<1>6. PICK target \in Nat :
        /\ target = PositionSize(Holding.risk, neutral.score, neutral.confidence, limit)
        /\ target <= 100 * limit
  <2>1. Holding.risk \in {"LOW", "MEDIUM", "HIGH"}
    BY <1>2 DEF Held
  <2> QED BY <2>1, <1>5, SizeType
<1>7. PICK trade \in {"BUY", "TRIM", "NONE"} :
        /\ trade = Trade(action, weight, target, limit)
        /\ trade = "BUY" => weight < limit
        /\ trade = "TRIM" => weight > limit
  BY <1>5, <1>6, TradeType
<1>8. personal' = [action |-> action, target |-> target, trade |-> trade]
  BY <1>3, <1>4, <1>5, <1>6, <1>7 DEF PersonalizedRecommendation
<1>9. personal' \in PersonalRecs
  BY <1>4, <1>6, <1>7, <1>8 DEF PersonalRecs
<1>10. PersonalNeverStronger'
  <2>1. Rank[action] <= Rank[neutral.action]
    BY <1>1, <1>3, <1>4, RankIsNat
  <2>2. neutral' = neutral
    BY DEF PersonalizedRecommendation
  <2> QED BY <1>8, <2>1, <2>2 DEF PersonalNeverStronger
<1>11. TradeWithinLimit'
  <2>1. portfolio' = portfolio /\ Holding' = Holding
    BY DEF PersonalizedRecommendation, Holding
  <2>2. Limit(Holding)' = limit /\ Holding'.weight = weight
    BY <1>5, <2>1 DEF Limit
  <2> QED BY <1>6, <1>7, <1>8, <2>1, <2>2 DEF TradeWithinLimit
<1> QED BY <1>9, <1>10, <1>11

\* Every node of the graph keeps the invariant.
LEMMA StepHolds == IInv /\ [Next]_vars => IInv'
<1> SUFFICES ASSUME IInv, [Next]_vars PROVE IInv'
  OBVIOUS
<1> USE DEF IInv
<1>1. CASE FetchMarketData
  <2>1. TypeOK'
    BY <1>1, PenalizeType DEF FetchMarketData, TypeOK
  <2>2. ChainInv'
    BY <1>1 DEF FetchMarketData, Run, ChainInv, BeforeNews, BeforeSocial, BeforeLlm
  <2> QED BY <1>1, <2>1, <2>2, DecisionKept DEF FetchMarketData, Undecided
<1>2. CASE ComputeSignals
  <2>1. TypeOK'
    BY <1>2, PenalizeType DEF ComputeSignals, TypeOK
  <2>2. ChainInv'
    BY <1>2 DEF ComputeSignals, Run, ChainInv, BeforeNews, BeforeSocial, BeforeLlm
  <2> QED BY <1>2, <2>1, <2>2, DecisionKept DEF ComputeSignals, Undecided
<1>3. CASE FetchFundamentals
  <2>1. TypeOK'
    BY <1>3, PenalizeType DEF FetchFundamentals, TypeOK
  <2>2. ChainInv'
    BY <1>3 DEF FetchFundamentals, Run, ChainInv, BeforeNews, BeforeSocial, BeforeLlm
  <2> QED BY <1>3, <2>1, <2>2, DecisionKept DEF FetchFundamentals, Undecided
<1>4. CASE FetchNews
  <2>1. TypeOK'
    BY <1>4 DEF FetchNews, TypeOK
  <2>2. ChainInv'
    BY <1>4 DEF FetchNews, Run, ChainInv, BeforeNews, BeforeSocial, BeforeLlm
  <2> QED BY <1>4, <2>1, <2>2, DecisionKept DEF FetchNews, Undecided
<1>5. CASE FetchSocial
  <2>1. TypeOK'
    BY <1>5 DEF FetchSocial, TypeOK
  <2>2. ChainInv'
    BY <1>5 DEF FetchSocial, Run, ChainInv, BeforeNews, BeforeSocial, BeforeLlm
  <2> QED BY <1>5, <2>1, <2>2, DecisionKept DEF FetchSocial, Undecided
<1>6. CASE SocialLlmAnalysis
  <2>1. PICK p \in Nat : Penalize(p)
    BY <1>6, InputsTyped DEF SocialLlmAnalysis
  <2>2. TypeOK'
    BY <1>6, <2>1, PenalizeType DEF SocialLlmAnalysis, evidence, TypeOK
  <2>3. ChainInv'
    BY <1>6 DEF SocialLlmAnalysis, evidence, Run, ChainInv, BeforeNews, BeforeSocial, BeforeLlm
  <2> QED BY <1>6, <2>2, <2>3, DecisionKept DEF SocialLlmAnalysis, Undecided
<1>7. CASE LlmAnalysis
  <2>1. TypeOK'
    BY <1>7 DEF LlmAnalysis, TypeOK
  <2>2. ChainInv'
    BY <1>7 DEF LlmAnalysis, Run, ChainInv, BeforeNews, BeforeSocial, BeforeLlm
  <2> QED BY <1>7, <2>1, <2>2, DecisionKept DEF LlmAnalysis, Undecided
<1>8. CASE NeutralRecommendation
  <2>1. personal = None /\ UNCHANGED <<personal, saved, portfolio>>
    BY <1>8 DEF NeutralRecommendation, Run, ChainInv
  <2>2. missing' \subseteq Missing
    BY <1>8 DEF NeutralRecommendation, MissingAtScoring, Missing
  <2>3. TypeOK'
    <3>1. neutral' \in NeutralRecs
      BY <1>8, ScoringStep
    <3>2. UNCHANGED <<evidence, penalties, portfolio, personal, saved>>
      BY <1>8 DEF NeutralRecommendation
    <3> QED BY <2>2, <3>1, <3>2 DEF evidence, TypeOK
  <2>4. ChainInv'
    BY <1>8, <2>1 DEF NeutralRecommendation, evidence, Run, ChainInv,
                      BeforeNews, BeforeSocial, BeforeLlm
  <2>5. PersonalNeverStronger' /\ ActionMatchesScore' /\ TradeWithinLimit'
    BY <2>1 DEF PersonalNeverStronger, ActionMatchesScore, TradeWithinLimit
  <2> QED BY <1>8, <2>3, <2>4, <2>5, ScoringStep
<1>9. CASE NeutralFails
  <2>1. TypeOK'
    BY <1>9, PenalizeType DEF NeutralFails, evidence, TypeOK
  <2>2. ChainInv'
    BY <1>9 DEF NeutralFails, evidence, Run, ChainInv, BeforeNews, BeforeSocial, BeforeLlm
  <2> QED BY <1>9, <2>1, <2>2, DecisionKept DEF NeutralFails, Undecided
<1>10. CASE LoadPortfolioContext
  <2>1. personal = None /\ UNCHANGED <<personal, saved>>
    BY <1>10 DEF LoadPortfolioContext, Run, ChainInv
  <2>2. neutral' \in NeutralRecs \cup {None} /\ NeutralMatches'
    BY <1>10, RescoredType DEF LoadPortfolioContext, TypeOK, NeutralMatches
  <2>3. TypeOK'
    BY <1>10, <2>2 DEF LoadPortfolioContext, evidence, TypeOK
  <2>4. ChainInv'
    BY <1>10, <2>1 DEF LoadPortfolioContext, evidence, Run, ChainInv,
                       BeforeNews, BeforeSocial, BeforeLlm
  <2>5. PersonalNeverStronger' /\ ActionMatchesScore' /\ TradeWithinLimit'
    BY <2>1 DEF PersonalNeverStronger, ActionMatchesScore, TradeWithinLimit
  <2> QED BY <2>2, <2>3, <2>4, <2>5
<1>11. CASE NoPortfolioContext
  <2>1. TypeOK'
    BY <1>11 DEF NoPortfolioContext, evidence, TypeOK
  <2>2. ChainInv'
    BY <1>11 DEF NoPortfolioContext, evidence, Run, ChainInv,
                 BeforeNews, BeforeSocial, BeforeLlm
  <2> QED BY <1>11, <2>1, <2>2, DecisionKept DEF NoPortfolioContext, Undecided
<1>12. CASE PersonalizedRecommendation
  <2>1. UNCHANGED <<neutral, portfolio, saved>>
    BY <1>12 DEF PersonalizedRecommendation
  <2>2. CASE neutral = None
    <3>1. UNCHANGED personal
      BY <1>12, <2>2 DEF PersonalizedRecommendation
    <3>2. TypeOK' /\ ChainInv'
      BY <1>12, <3>1 DEF PersonalizedRecommendation, evidence, Run, TypeOK, ChainInv,
                         BeforeNews, BeforeSocial, BeforeLlm
    <3> QED BY <2>1, <3>1, <3>2, DecisionKept DEF Undecided
  <2>3. CASE neutral # None
    <3>1. TypeOK' /\ ChainInv'
      BY <1>12, <2>3, DecisionStep DEF PersonalizedRecommendation, evidence, Run, TypeOK,
                                       ChainInv, BeforeNews, BeforeSocial, BeforeLlm
    <3>2. NeutralMatches' /\ ActionMatchesScore'
      BY <2>1 DEF NeutralMatches, ActionMatchesScore
    <3> QED BY <1>12, <2>3, <3>1, <3>2, DecisionStep
  <2> QED BY <2>2, <2>3
<1>13. CASE PersonalizedFails
  <2>1. TypeOK'
    BY <1>13, PenalizeType DEF PersonalizedFails, evidence, TypeOK
  <2>2. ChainInv'
    BY <1>13 DEF PersonalizedFails, evidence, Run, ChainInv,
                 BeforeNews, BeforeSocial, BeforeLlm
  <2> QED BY <1>13, <2>1, <2>2, DecisionKept DEF PersonalizedFails, Undecided
<1>14. CASE PersistResults
  <2>1. UNCHANGED <<neutral, portfolio, personal>> /\ saved'.neutral = neutral
    BY <1>14 DEF PersistResults
  <2>2. TypeOK'
    BY <1>14 DEF PersistResults, evidence, TypeOK
  <2>3. ChainInv'
    BY <1>14 DEF PersistResults, evidence, Run, ChainInv, BeforeNews, BeforeSocial, BeforeLlm
  <2>4. NeutralMatches' /\ ActionMatchesScore'
    BY <2>1 DEF NeutralMatches, ActionMatchesScore
  <2>5. PersonalNeverStronger' /\ TradeWithinLimit'
    BY <2>1 DEF PersonalNeverStronger, TradeWithinLimit, Holding
  <2> QED BY <2>2, <2>3, <2>4, <2>5
<1>15. CASE UNCHANGED vars
  <2>1. UNCHANGED <<evidence, node, penalties, missing>> /\ Undecided
    BY <1>15 DEF vars, Undecided
  <2>2. TypeOK'
    BY <2>1 DEF evidence, Undecided, TypeOK
  <2>3. ChainInv'
    BY <2>1 DEF evidence, Undecided, ChainInv
  <2> QED BY <2>1, <2>2, <2>3, DecisionKept
<1> QED BY <1>1, <1>2, <1>3, <1>4, <1>5, <1>6, <1>7, <1>8, <1>9, <1>10, <1>11, <1>12,
           <1>13, <1>14, <1>15 DEF Next

\* The invariant holds in every state, for every strategy and all inputs.
THEOREM Inductive == Spec => []IInv
BY InitHolds, StepHolds, PTL DEF Spec

\* Scores, confidences and sizes stay within their ranges.
THEOREM TypeCorrect == Spec => []TypeOK
<1>1. IInv => TypeOK
  BY DEF IInv
<1> QED BY <1>1, Inductive, PTL

\* Policy gates and position overrides never strengthen the neutral action,
\* whatever caps the strategy configures (policy.py, personalized_recommendation.py).
THEOREM PersonalNeverStrongerHolds == Spec => []PersonalNeverStronger
<1>1. IInv => PersonalNeverStronger
  BY DEF IInv
<1> QED BY <1>1, Inductive, PTL

\* The saved action is the one its saved score stands for, unless the critic
\* capped it (neutral_recommendation.py, load_portfolio_context.py).
THEOREM ActionMatchesScoreHolds == Spec => []ActionMatchesScore
<1>1. IInv => ActionMatchesScore
  BY DEF IInv
<1> QED BY <1>1, Inductive, PTL

\* A suggested trade respects the investor's own limit (portfolio/risk.py).
THEOREM TradeWithinLimitHolds == Spec => []TradeWithinLimit
<1>1. IInv => TradeWithinLimit
  BY DEF IInv
<1> QED BY <1>1, Inductive, PTL
-----------------------------------------------------------------------------
(* A buy rests on evidence *)

\* What the gates let through as a buy was not low on anything they look at.
LEMMA PolicyAdmits ==
  ASSUME EvidenceGated, NEW a \in Actions, NEW i, NEW held,
         WithoutPosition(ApplyPolicy(a, i), held) \in Buys
  PROVE  /\ ~(i.data_quality < Strategy.min_quality)
         /\ ~(i.fundamentals < Strategy.min_fundamentals)
         /\ ~(i.confidence < Strategy.min_confidence)
         /\ ~(i.weight > Strategy.max_weight)
<1> DEFINE L1 == i.data_quality < Strategy.min_quality
           L2 == i.fundamentals < Strategy.min_fundamentals
           L3 == i.confidence < Strategy.min_confidence
           L4 == i.data_quality < Strategy.min_quality_strong
           L7 == i.weight > Strategy.max_weight
           g1 == Replace(a, Buys, L1, "WATCHLIST")
           g2 == Cap(g1, Buys, L2, Strategy.low_fundamentals)
           g3 == Replace(g2, Buys, L3, "WATCHLIST")
           g4 == Replace(g3, {"STRONG_BUY"}, L4, "BUY_CANDIDATE")
           g5 == Cap(g4, {"STRONG_BUY"}, i.news_missing, Strategy.missing_news)
           g6 == Cap(g5, {"STRONG_BUY"}, i.portfolio_missing, Strategy.missing_portfolio)
           g7 == Replace(g6, Buys, L7, "HOLD")
<1>0. ApplyPolicy(a, i) = g7
  BY DEF ApplyPolicy
<1>1. g7 \in Buys
  <2> HIDE DEF g7
  <2>1. WithoutPosition(g7, held) \in Buys
    BY <1>0
  <2> QED BY <2>1 DEF WithoutPosition, Buys
<1> HIDE DEF L1, L2, L3, L4, L7
<1>2. g6 \in Buys /\ ~L7
  <2> HIDE DEF g6
  <2> QED BY <1>1 DEF Replace, Buys
<1>3. g5 \in Buys
  <2> HIDE DEF g5
  <2> QED BY <1>2 DEF Cap, Buys
<1>4. g4 \in Buys
  <2> HIDE DEF g4
  <2> QED BY <1>3 DEF Cap, Buys
<1>5. g3 \in Buys
  <2> HIDE DEF g3
  <2> QED BY <1>4 DEF Replace, Buys
<1>6. g2 \in Buys /\ ~L3
  <2> HIDE DEF g2
  <2> QED BY <1>5 DEF Replace, Buys
<1>7. g1 \in Buys /\ ~L2
  <2>1. g1 \in Actions
    BY BuysReplaced
  <2> HIDE DEF g1
  <2> QED BY <1>6, <2>1, CapsAreActions DEF Cap, Buys, EvidenceGated, Actions, Rank
<1>8. ~L1
  BY <1>7 DEF Replace, Buys
<1> QED BY <1>2, <1>6, <1>7, <1>8 DEF L1, L2, L3, L7

\* Scoring takes every penalty from the confidence, and reaches no more than 10
\* without prices.
LEMMA ConfidenceBound ==
  ASSUME TypeOK, EvidenceInv, news \in Scored, social \in Scored, llm \in Analyses,
         node = "neutral_recommendation",
         NEW k, k = Confidence(NeutralScore)
  PROVE  /\ quality = 0 => k <= 10
         /\ k > 0 => k <= 100 - penalties
<1>1. NeutralScore \in 0..100
  BY ScoringType
<1>2. llm.penalty \in Nat /\ penalties \in Nat
  BY AnalysesType DEF TypeOK
<1>3. PICK high \in {70, 100} : high = IF FundamentalsQuality < 30 THEN 70 ELSE 100
  OBVIOUS
<1>4. PICK c \in 20..high : c = Clip(NeutralScore + 10, 20, high)
  BY <1>1, <1>3 DEF Clip
<1>5. PICK d \in 0..100 : d = Clip(c - penalties, 0, 100)
  BY <1>2, <1>3, <1>4 DEF Clip
<1>6. k = Clip(d - llm.penalty, 0, 100) /\ k \in 0..100
  <2>1. k = Clip(d - llm.penalty, 0, 100)
    BY <1>3, <1>4, <1>5 DEF Confidence
  <2> QED BY <1>2, <1>5, <2>1 DEF Clip
<1>7. k > 0 => k <= 100 - penalties
  <2>1. d > 0 => d = c - penalties
    BY <1>2, <1>4, <1>5 DEF Clip
  <2>2. k > 0 => k <= d /\ d > 0
    BY <1>2, <1>5, <1>6 DEF Clip
  <2>3. c <= 100 /\ c \in Int
    BY <1>3, <1>4
  <2> QED BY <1>2, <1>5, <1>6, <2>1, <2>2, <2>3
<1>8. ASSUME quality = 0 PROVE k <= 10
  <2>1. SignalTenths = 25 /\ penalties >= 60
    BY <1>8 DEF EvidenceInv, SignalTenths
  <2>2. NewsTenths \in 0..150
    BY ScoredType DEF NewsTenths
  <2>3. SnapshotTenths \in 0..350
    BY InputsTyped DEF TypeOK, SnapshotTenths
  <2>4. PICK x \in 0..595 :
            x = Clip(SignalTenths + SnapshotTenths + NewsTenths + FitStub, 0, 1000)
    BY <2>1, <2>2, <2>3 DEF FitStub, Clip
  <2>5. NeutralScore <= 60
    BY <2>4 DEF NeutralScore, RoundTenths
  <2>6. c <= 70
    BY <1>1, <1>3, <1>4, <2>5 DEF Clip
  <2>7. d <= 10
    BY <1>2, <1>4, <1>5, <2>1, <2>6 DEF Clip
  <2> QED BY <1>2, <1>5, <1>6, <2>7 DEF Clip
<1> QED BY <1>7, <1>8

\* Nothing is gathered or decided at the start.
LEMMA EvidenceInit == Init => EvidenceInv
BY DEF Init, EvidenceInv

\* The nodes that gather evidence can take prices away only with the penalty.
LEMMA GatheringKeepsEvidence ==
  ASSUME IInv, EvidenceInv,
         \/ FetchMarketData \/ ComputeSignals \/ FetchFundamentals
         \/ FetchNews \/ FetchSocial \/ SocialLlmAnalysis \/ LlmAnalysis
  PROVE  EvidenceInv'
<1>1. neutral = None /\ neutral' = None /\ node \in BeforeLlm
  BY DEF EvidenceInv, FetchMarketData, ComputeSignals, FetchFundamentals, FetchNews,
         FetchSocial, SocialLlmAnalysis, LlmAnalysis, Run, BeforeLlm, BeforeSocial, BeforeNews
<1>2. penalties \in Nat
  BY DEF IInv, TypeOK
<1>3. PICK p \in Nat : penalties' = penalties + p
  <2>1. \A x \in SocialPenalties \cup {0} : x \in Nat
    BY InputsTyped
  <2>2. CASE SocialLlmAnalysis
    BY <1>2, <2>1, <2>2 DEF Penalize, SocialLlmAnalysis
  <2>3. CASE FetchMarketData \/ ComputeSignals \/ FetchFundamentals
    BY <1>2, <2>3 DEF Penalize, FetchMarketData, ComputeSignals, FetchFundamentals
  <2>4. CASE FetchNews \/ FetchSocial \/ LlmAnalysis
    BY <1>2, <2>4 DEF FetchNews, FetchSocial, LlmAnalysis
  <2> QED BY <2>2, <2>3, <2>4
<1>4. CASE FetchMarketData
  BY <1>1, <1>2, <1>4 DEF FetchMarketData, Run, Penalize, Qualities, EvidenceInv
<1>5. CASE ComputeSignals
  BY <1>1, <1>2, <1>5 DEF ComputeSignals, Run, Penalize, EvidenceInv
<1>6. CASE FetchFundamentals \/ FetchNews \/ FetchSocial \/ SocialLlmAnalysis \/ LlmAnalysis
  <2>1. quality' = quality /\ signals' = signals
        /\ node \notin {"fetch_market_data", "compute_signals"}
    BY <1>6 DEF FetchFundamentals, FetchNews, FetchSocial, SocialLlmAnalysis, LlmAnalysis,
                Run, evidence
  <2> QED BY <1>1, <1>2, <1>3, <2>1 DEF EvidenceInv
<1> QED BY <1>4, <1>5, <1>6

\* Scoring, the portfolio context and the decision keep what the confidence paid.
LEMMA DecidingKeepsEvidence ==
  ASSUME IInv, EvidenceInv,
         \/ NeutralRecommendation \/ NeutralFails
         \/ LoadPortfolioContext \/ NoPortfolioContext
         \/ PersonalizedRecommendation \/ PersonalizedFails \/ PersistResults
  PROVE  EvidenceInv'
<1>1. penalties \in Nat
  BY DEF IInv, TypeOK
<1>2. UNCHANGED <<quality, signals>> /\ node \notin BeforeLlm /\ node' \notin BeforeLlm
  BY DEF NeutralRecommendation, NeutralFails, LoadPortfolioContext, NoPortfolioContext,
         PersonalizedRecommendation, PersonalizedFails, PersistResults, Run, evidence,
         BeforeLlm, BeforeSocial, BeforeNews
<1>3. penalties' \in Nat /\ penalties' >= penalties
  <2>1. CASE NeutralFails \/ PersonalizedFails
    BY <1>1, <2>1 DEF NeutralFails, PersonalizedFails, Penalize
  <2>2. CASE ~(NeutralFails \/ PersonalizedFails)
    <3>1. penalties' = penalties
      BY <2>2 DEF NeutralRecommendation, LoadPortfolioContext, NoPortfolioContext,
                  PersonalizedRecommendation, PersistResults
    <3> QED BY <1>1, <3>1
  <2> QED BY <2>1, <2>2
<1>4. quality = 0 => signals = None /\ penalties >= 60
  BY <1>2 DEF EvidenceInv, BeforeLlm, BeforeSocial, BeforeNews
<1>5. /\ quality' = 0 => penalties' >= 40
      /\ quality' = 0 => signals' = None /\ penalties' >= 60
  BY <1>1, <1>2, <1>3, <1>4
<1>6. CASE NeutralRecommendation
  <2>1. news \in Scored /\ social \in Scored /\ llm \in Analyses
    BY <1>6 DEF NeutralRecommendation, Run, IInv, ChainInv, BeforeNews, BeforeSocial, BeforeLlm
  <2>2. node = "neutral_recommendation" /\ penalties' = penalties
    BY <1>6 DEF NeutralRecommendation, Run
  <2>3. neutral'.confidence = Confidence(NeutralScore)
    BY <1>6 DEF NeutralRecommendation
  <2>4. /\ quality = 0 => neutral'.confidence <= 10
        /\ neutral'.confidence > 0 => neutral'.confidence <= 100 - penalties
    BY <2>1, <2>2, <2>3, ConfidenceBound DEF IInv
  <2>5. neutral' # None => node' \notin BeforeLlm \cup {"neutral_recommendation"}
    BY <1>6 DEF NeutralRecommendation, Run, BeforeLlm, BeforeSocial, BeforeNews
  <2> QED BY <1>2, <1>5, <2>2, <2>4, <2>5, Zenon DEF EvidenceInv
<1>7. CASE NeutralFails
  <2>1. neutral = None /\ neutral' = None
    <3>1. personal = None /\ node = "neutral_recommendation"
      BY <1>7 DEF NeutralFails, Run, IInv, ChainInv
    <3> QED BY <1>7, <3>1 DEF NeutralFails, EvidenceInv
  <2> QED BY <1>5, <2>1 DEF EvidenceInv
<1>8. CASE LoadPortfolioContext
  <2>1. node = "load_portfolio_context" /\ penalties' = penalties
    BY <1>8 DEF LoadPortfolioContext, Run
  <2>2. CASE neutral = None
    <3>1. neutral' = None
      BY <1>8, <2>2 DEF LoadPortfolioContext
    <3> QED BY <1>5, <3>1 DEF EvidenceInv
  <2>3. CASE neutral # None
    <3>1. neutral'.confidence = neutral.confidence
      <4>1. neutral \in NeutralRecs
        BY <2>3 DEF IInv, TypeOK
      <4>2. neutral' = Rescored(neutral, portfolio')
        BY <1>8, <2>3 DEF LoadPortfolioContext
      <4>3. \A n \in NeutralRecs : \A s, a, f :
              [n EXCEPT !.score = s, !.action = a, !.fit = f].confidence = n.confidence
        BY DEF NeutralRecs
      <4> QED BY <4>1, <4>2, <4>3 DEF Rescored
    <3>2. /\ node' \notin BeforeLlm \cup {"neutral_recommendation"}
          /\ node \notin {"persist_results", "end"}
      BY <1>8, <2>1 DEF LoadPortfolioContext, Run, BeforeLlm, BeforeSocial, BeforeNews
    <3>3. /\ quality = 0 => neutral.confidence <= 10
          /\ neutral.confidence > 0 => neutral.confidence <= 100 - penalties
      BY <2>3, <3>2 DEF EvidenceInv
    <3> QED BY <1>2, <1>5, <2>1, <3>1, <3>2, <3>3, Zenon DEF EvidenceInv
  <2> QED BY <2>2, <2>3
<1>9. CASE NoPortfolioContext
  BY <1>2, <1>5, <1>9 DEF NoPortfolioContext, Run, EvidenceInv
<1>10. CASE PersonalizedRecommendation
  BY <1>2, <1>5, <1>10 DEF PersonalizedRecommendation, Run, EvidenceInv
<1>11. CASE PersonalizedFails
  <2>1. personal' = None
    BY <1>11 DEF PersonalizedFails, Run, IInv, ChainInv
  <2> QED BY <1>2, <1>5, <1>11, <2>1 DEF PersonalizedFails, Run, EvidenceInv
<1>12. CASE PersistResults
  BY <1>2, <1>5, <1>12 DEF PersistResults, Run, EvidenceInv
<1> QED BY <1>6, <1>7, <1>8, <1>9, <1>10, <1>11, <1>12

\* Every node keeps what a buy rests on: a personalized row is written once, and
\* what it was decided from does not change after it.
LEMMA EvidenceStep ==
  ASSUME EvidenceGated, IInv, EvidenceInv, BuyHasEvidence, [Next]_vars
  PROVE  EvidenceInv' /\ BuyHasEvidence'
<1>1. EvidenceInv'
  <2>1. CASE UNCHANGED vars
    BY <2>1 DEF vars, evidence, EvidenceInv
  <2>2. CASE Next
    BY <2>2, GatheringKeepsEvidence, DecidingKeepsEvidence DEF Next
  <2> QED BY <2>1, <2>2
<1>2. CASE PersonalizedRecommendation /\ neutral # None
  <2> DEFINE a == WithoutPosition(ApplyPolicy(neutral.action, GateInput), Holding.held)
  <2>1. UNCHANGED <<quality, snapshot, neutral, penalties, portfolio>>
    BY <1>2 DEF PersonalizedRecommendation, evidence
  <2>2. Holding' = Holding /\ FundamentalsQuality' = FundamentalsQuality
    BY <2>1 DEF Holding, FundamentalsQuality
  <2>3. personal'.action = a
    BY <1>2 DEF PersonalizedRecommendation
  <2> HIDE DEF a
  <2>4. ASSUME a \in Buys
        PROVE  /\ ~(QualityRead < Strategy.min_quality)
               /\ ~(FundamentalsQuality < Strategy.min_fundamentals)
               /\ ~(neutral.confidence < Strategy.min_confidence)
               /\ ~(Holding.weight > Strategy.max_weight)
    <3>1. neutral.action \in Actions
      BY <1>2 DEF IInv, TypeOK, NeutralRecs
    <3>2. \A dq, fu, co, nm, pm, we :
            LET i == [data_quality |-> dq, fundamentals |-> fu, confidence |-> co,
                      news_missing |-> nm, portfolio_missing |-> pm, weight |-> we]
            IN  i.data_quality = dq /\ i.fundamentals = fu /\ i.confidence = co
                /\ i.weight = we
      OBVIOUS
    <3>3. /\ GateInput.data_quality = QualityRead
          /\ GateInput.fundamentals = FundamentalsQuality
          /\ GateInput.confidence = neutral.confidence
          /\ GateInput.weight = Holding.weight
      BY <3>2, Zenon DEF GateInput
    <3>4. /\ ~(GateInput.data_quality < Strategy.min_quality)
          /\ ~(GateInput.fundamentals < Strategy.min_fundamentals)
          /\ ~(GateInput.confidence < Strategy.min_confidence)
          /\ ~(GateInput.weight > Strategy.max_weight)
      BY <2>4, <3>1, PolicyAdmits, Zenon DEF a
    <3> QED BY <3>3, <3>4
  <2>5. ASSUME a \in Buys
        PROVE  /\ quality >= Strategy.min_quality
               /\ FundamentalsQuality >= Strategy.min_fundamentals
               /\ neutral.confidence >= Strategy.min_confidence
               /\ neutral.confidence <= 100 - penalties
               /\ Holding.weight <= Strategy.max_weight
    <3>1. /\ Strategy.min_quality \in Nat /\ Strategy.min_fundamentals \in Nat
          /\ Strategy.min_confidence \in Nat /\ Strategy.max_weight \in Nat
      BY StrategyTyped
    <3>2. /\ neutral.confidence \in 0..100 /\ penalties \in Nat
          /\ quality \in Qualities \cup {0, 100}
      BY <1>2 DEF IInv, TypeOK, NeutralRecs
    <3>3. FundamentalsQuality \in Int
      BY InputsTyped DEF IInv, TypeOK, FundamentalsQuality
    <3>4. Holding.weight \in Int
      BY HoldingType DEF IInv, Held
    <3>5. neutral.confidence > 10
      BY <2>4, <2>5, <3>1, <3>2 DEF EvidenceGated
    <3>6. quality # 0 /\ quality = QualityRead
      BY <1>2, <3>2, <3>5 DEF EvidenceInv, QualityRead
    <3>7. neutral.confidence <= 100 - penalties
      BY <1>2, <3>5, <3>2 DEF EvidenceInv, PersonalizedRecommendation, Run
    <3> QED BY <2>4, <2>5, <3>1, <3>2, <3>3, <3>4, <3>6, <3>7 DEF Qualities
  <2>6. personal'.action \in Buys => a \in Buys
    BY <2>3, Zenon
  <2> QED BY <1>1, <2>1, <2>2, <2>5, <2>6, Zenon DEF BuyHasEvidence
<1>3. CASE personal' = None
  BY <1>1, <1>3, Zenon DEF BuyHasEvidence
<1>4. CASE ~(PersonalizedRecommendation /\ neutral # None) /\ personal' # None
  <2>1. personal' = personal
    BY <1>4, Zenon DEF Next, vars, FetchMarketData, ComputeSignals, FetchFundamentals,
         FetchNews, FetchSocial, SocialLlmAnalysis, LlmAnalysis, NeutralRecommendation,
         NeutralFails, LoadPortfolioContext, NoPortfolioContext,
         PersonalizedRecommendation, PersonalizedFails, PersistResults
  <2>2. personal # None /\ neutral # None /\ node \in {"persist_results", "end"}
    BY <1>4, <2>1 DEF IInv, ChainInv
  <2>3. PersistResults \/ UNCHANGED vars
    BY <2>2 DEF Next, Run, FetchMarketData, ComputeSignals, FetchFundamentals,
         FetchNews, FetchSocial, SocialLlmAnalysis, LlmAnalysis, NeutralRecommendation,
         NeutralFails, LoadPortfolioContext, NoPortfolioContext,
         PersonalizedRecommendation, PersonalizedFails
  <2>4. UNCHANGED <<quality, snapshot, neutral, penalties, portfolio, personal>>
    BY <2>3 DEF PersistResults, vars, evidence
  <2>5. Holding' = Holding /\ FundamentalsQuality' = FundamentalsQuality
    BY <2>4 DEF Holding, FundamentalsQuality
  <2> QED BY <1>1, <2>4, <2>5, Zenon DEF BuyHasEvidence
<1> QED BY <1>1, <1>2, <1>3, <1>4

\* A personalized buy rests on prices that were really fetched, on fundamentals,
\* on confidence after every penalty and on room in the portfolio, for every
\* strategy whose gates are as strict as EvidenceGated says; the seeded one asks
\* for a confidence of 65 and caps at WATCHLIST (personalized_recommendation.py).
THEOREM BuyHasEvidenceHolds ==
  ASSUME EvidenceGated
  PROVE  Spec => []BuyHasEvidence
<1>1. Init => EvidenceInv /\ BuyHasEvidence
  <2>1. Init => BuyHasEvidence
    BY DEF Init, BuyHasEvidence
  <2> QED BY <2>1, EvidenceInit
<1>2. IInv /\ EvidenceInv /\ BuyHasEvidence /\ [Next]_vars => (EvidenceInv /\ BuyHasEvidence)'
  BY EvidenceStep
<1> QED BY <1>1, <1>2, Inductive, PTL DEF Spec

-----------------------------------------------------------------------------
(* Portfolio *)

Places == {"idle", "change", "find", "delete", "list", "price", "write", "total", "weigh",
           "flush", "snapshot", "commit"}

\* positions by symbol
Sheets == UNION {[D -> Positions] : D \in SUBSET Symbols}

\* rows written, Null where deleted
Writes == UNION {[D -> Positions \cup {Null}] : D \in SUBSET Symbols}

\* values by symbol
Values == UNION {[D -> Nat \cup {Null}] : D \in SUBSET Symbols}

SnapshotRows == [at : Nat, equity : Nat, values : Values]

Requests == [at : Places, kind : Kinds, symbol : Nat, qty : Nat, view : Sheets, own : Writes,
             todo : SUBSET Symbols, equity : Nat, snap : SnapshotRows]

Shaped == /\ market \in [Symbols -> Prices \cup {Null}]
          /\ rows \in Sheets
          /\ latest \in SnapshotRows
          /\ used \subseteq Keys
          /\ req \in [Slots -> Requests]
          /\ DOMAIN history = {"lone", "weights", "values"}

-----------------------------------------------------------------------------
(* Rows, and what a request q has read and written *)

\* Seen of a request
SeenBy(q) == [s \in {t \in DOMAIN rows \cup DOMAIN q.own : t \in DOMAIN q.own => q.own[t] # Null} |->
               IF s \in DOMAIN q.own THEN q.own[s] ELSE rows[s]]

\* Price, value and weight come from a stored close.
Grounded(s, row) ==
  /\ row.value = Null <=> row.price = Null
  /\ row.value # 0
  /\ market[s] = Null => row.value = Null /\ row.weight = Null

\* A committed row has a weight only with a value.
RowsGood == \A s \in DOMAIN rows :
  /\ Grounded(s, rows[s]) /\ rows[s].id \in used
  /\ rows[s].value = Null => rows[s].weight = Null

\* Where a request is, of what kind, and what it holds there.
Placed(q) ==
  /\ q.at = "idle" => q = Idle
  /\ q.at = "change" => q.kind = "upsert"
  /\ q.at \in {"find", "delete"} => q.kind = "delete"
  /\ q.at \in {"change", "find", "delete"} => q.own = <<>> /\ q.view = <<>>
  /\ q.kind # "refresh" => q.symbol \in Symbols
  /\ q.kind = "upsert" => q.qty \in Quantities
  /\ q.kind = "upsert" /\ q.at # "change" => q.symbol \in DOMAIN q.own
  /\ q.todo \subseteq DOMAIN q.view
  /\ q.at \in {"total", "weigh", "snapshot", "commit"} => q.todo = {}

\* A row that was entered and not repriced yet.
Early(q, s) == q.at = "list" \/ (q.at \in {"price", "write"} /\ s \in q.todo)

\* What is written is of the row that is committed, but for what is entered.
OwnRow(q, s) ==
  /\ Grounded(s, q.own[s])
  /\ q.own[s].value = Null => q.own[s].weight = Null \/ Early(q, s)
  /\ s \in DOMAIN rows => /\ q.own[s].id = rows[s].id
                          /\ rows[s].value # Null => q.own[s].value # Null \/ Early(q, s)
  /\ IF q.kind = "upsert" /\ s = q.symbol THEN q.own[s].qty = q.qty
     ELSE s \in DOMAIN rows /\ q.own[s].qty = rows[s].qty
  /\ s \in DOMAIN q.view /\ q.view[s].id = q.own[s].id

OwnGood(q) == \A s \in DOMAIN q.own :
  IF q.own[s] = Null THEN q.kind = "delete" /\ s = q.symbol ELSE OwnRow(q, s)

\* A row that was seen with a value has one still, if it is the same row, but
\* for the one that has just got it.
ViewGood(q) ==
  /\ \A s \in DOMAIN q.view :
       /\ Grounded(s, q.view[s])
       /\ q.at = "flush" => (q.view[s].value = Null => q.view[s].weight = Null)
       /\ (q.view[s].value # Null /\ s \in DOMAIN SeenBy(q) /\ SeenBy(q)[s].id = q.view[s].id) =>
             SeenBy(q)[s].value # Null \/ (q.at = "write" /\ s = Min(q.todo))
  /\ q.at = "write" => q.todo # {} /\ q.view[Min(q.todo)].value # Null

Good(q) == Placed(q) /\ OwnGood(q) /\ ViewGood(q)

\* The keys of what it has read and written were given.
Keyed(q) == /\ \A s \in DOMAIN q.view : q.view[s].id \in used
            /\ \A s \in DOMAIN q.own : q.own[s] # Null => q.own[s].id \in used

\* A row is written by one request, and no other has seen one that is new.
Exclusive == \A r, o \in Slots : r # o =>
  /\ DOMAIN req[r].own \cap DOMAIN req[o].own = {}
  /\ \A s \in DOMAIN req[r].own \cap DOMAIN req[o].view :
       req[r].own[s] # Null /\ s \notin DOMAIN rows => req[o].view[s].id # req[r].own[s].id

EntryInv == /\ Shaped /\ RowsGood /\ Exclusive
            /\ \A r \in Slots : Good(req[r]) /\ Keyed(req[r])

-----------------------------------------------------------------------------
(* A request q that runs alone *)

Worth(row) == row.value # Null => row.value = row.qty * row.price

Fresh(q) == \A s \in DOMAIN q.view : s \in DOMAIN SeenBy(q) /\ q.view[s] = SeenBy(q)[s]

\* What it has read is what there is, but for what it is about to write.
Lone(q) ==
  /\ q.at \in {"list", "price", "total", "weigh", "snapshot", "commit"} => Fresh(q)
  /\ q.at \in {"price", "write", "flush"} => DOMAIN q.view = DOMAIN SeenBy(q)
  /\ q.at \in {"price", "write"} => \A s \in DOMAIN q.view \ q.todo : Worth(q.view[s])
  /\ q.at = "write" => \A s \in DOMAIN q.view :
       IF s = Min(q.todo)
       THEN /\ Worth(q.view[s])
            /\ q.view[s] = [SeenBy(q)[s] EXCEPT !.price = q.view[s].price, !.value = q.view[s].value]
       ELSE q.view[s] = SeenBy(q)[s]
  /\ (/\ q.at \in {"total", "weigh", "flush", "snapshot", "commit"}
      /\ q.kind # "delete" \/ history.values) =>
     \A s \in DOMAIN SeenBy(q) : Worth(SeenBy(q)[s])
  /\ q.at \in {"weigh", "flush", "snapshot", "commit"} => q.equity = Total(SeenBy(q)) + Cash
  /\ q.at = "flush" => \A s \in DOMAIN q.view :
       /\ q.view[s].weight = Weight(SeenBy(q)[s], q.equity)
       /\ q.view[s] = [SeenBy(q)[s] EXCEPT !.weight = q.view[s].weight]
       /\ s \notin q.todo => q.view[s] = SeenBy(q)[s]
  /\ q.at \in {"snapshot", "commit"} =>
       \A s \in DOMAIN SeenBy(q) : SeenBy(q)[s].weight = Weight(SeenBy(q)[s], q.equity)
  /\ q.at = "commit" =>
       /\ q.snap.at > latest.at /\ q.snap.equity = q.equity
       /\ q.snap.values = [s \in DOMAIN SeenBy(q) |-> SeenBy(q)[s].value]

Alone == \A r \in history.lone :
  /\ r \in Slots /\ Lone(req[r])
  /\ \A o \in Slots \ {r} : req[o].at = "idle"

\* What the last request left, if it met no other.
Agreed ==
  /\ history.weights => /\ latest.values = [s \in DOMAIN rows |-> rows[s].value]
                        /\ \A s \in DOMAIN rows : rows[s].weight = Weight(rows[s], latest.equity)
  /\ history.values => \A s \in DOMAIN rows : Worth(rows[s])

FiguresInv == EntryInv /\ Alone /\ Agreed

-----------------------------------------------------------------------------
(* Functions of positions *)

\* What a sheet is.
LEMMA SheetIs ==
  ASSUME NEW f \in Sheets
  PROVE  /\ DOMAIN f \subseteq Symbols /\ IsFiniteSet(DOMAIN f)
         /\ f = [s \in DOMAIN f |-> f[s]]
         /\ \A s \in DOMAIN f : f[s] \in Positions
<1>1. PICK D \in SUBSET Symbols : f \in [D -> Positions]
  BY DEF Sheets
<1>2. IsFiniteSet(D)
  BY ConstantsTyped, FS_Subset
<1> QED BY <1>1, <1>2

\* Positions by symbol are a sheet.
LEMMA SheetOf ==
  ASSUME NEW f, f = [s \in DOMAIN f |-> f[s]], DOMAIN f \subseteq Symbols,
         \A s \in DOMAIN f : f[s] \in Positions
  PROVE  f \in Sheets
<1>1. f \in [DOMAIN f -> Positions]
  OBVIOUS
<1> QED BY <1>1 DEF Sheets

\* What the rows written are.
LEMMA WriteIs ==
  ASSUME NEW f \in Writes
  PROVE  /\ DOMAIN f \subseteq Symbols
         /\ \A s \in DOMAIN f : f[s] # Null => f[s] \in Positions
BY DEF Writes

\* An entry more, or another one.
LEMMA PutIs ==
  ASSUME NEW f, NEW s, NEW v
  PROVE  /\ DOMAIN Put(f, s, v) = DOMAIN f \cup {s}
         /\ Put(f, s, v)[s] = v
         /\ \A x \in DOMAIN f : x # s => Put(f, s, v)[x] = f[x]
         /\ Put(f, s, v) = [x \in DOMAIN Put(f, s, v) |-> Put(f, s, v)[x]]
BY DEF Put

\* One entry.
LEMMA PutOne ==
  ASSUME NEW s, NEW v
  PROVE  /\ DOMAIN Put(<<>>, s, v) = {s} /\ Put(<<>>, s, v)[s] = v
         /\ Put(<<>>, s, v) = [x \in DOMAIN Put(<<>>, s, v) |-> Put(<<>>, s, v)[x]]
BY DEF Put

\* What is written stays rows by symbol with one row more.
LEMMA PutWrites ==
  ASSUME NEW f \in Writes, NEW s \in Symbols, NEW v \in Positions \cup {Null}
  PROVE  Put(f, s, v) \in Writes
<1> DEFINE g == Put(f, s, v)
<1>1. PICK D \in SUBSET Symbols : f \in [D -> Positions \cup {Null}]
  BY DEF Writes
<1>2. g \in [D \cup {s} -> Positions \cup {Null}] /\ D \cup {s} \in SUBSET Symbols
  BY <1>1 DEF Put
<1>3. \E E \in SUBSET Symbols : g \in [E -> Positions \cup {Null}]
  BY <1>2
<1> HIDE DEF g
<1>4. g \in Writes
  BY <1>3 DEF Writes
<1> QED BY <1>4 DEF g

\* Nothing is a sheet, and rows written, and values.
LEMMA NothingIs == <<>> \in Sheets /\ <<>> \in Writes /\ <<>> \in Values /\ DOMAIN <<>> = {}
<1>1. <<>> \in [{} -> Positions] /\ <<>> \in [{} -> Positions \cup {Null}]
      /\ <<>> \in [{} -> Nat \cup {Null}] /\ {} \in SUBSET Symbols
  OBVIOUS
<1> QED BY <1>1 DEF Sheets, Writes, Values

\* A position is a record of these fields, and never Null.
LEMMA PositionIs ==
  ASSUME NEW row \in Positions
  PROVE  /\ row # Null
         /\ row.id \in Keys /\ row.qty \in Quantities /\ row.price \in Prices \cup {Null}
         /\ row.value \in Nat \cup {Null}
         /\ row.weight \in {Null} \cup [of : Nat, equity : Nat]
         /\ row = [id |-> row.id, qty |-> row.qty, price |-> row.price, value |-> row.value,
                   weight |-> row.weight]
BY ConstantsTyped DEF Positions

\* What a statement sees is a sheet.
LEMMA SeenIs ==
  ASSUME rows \in Sheets, NEW q, q.own \in Writes
  PROVE  /\ SeenBy(q) \in Sheets
         /\ \A s : s \in DOMAIN SeenBy(q) <=> /\ s \in DOMAIN rows \cup DOMAIN q.own
                                              /\ s \in DOMAIN q.own => q.own[s] # Null
         /\ \A s \in DOMAIN SeenBy(q) : SeenBy(q)[s] = IF s \in DOMAIN q.own THEN q.own[s] ELSE rows[s]
<1>1. /\ DOMAIN rows \subseteq Symbols /\ DOMAIN q.own \subseteq Symbols
      /\ \A s \in DOMAIN rows : rows[s] \in Positions
      /\ \A s \in DOMAIN q.own : q.own[s] # Null => q.own[s] \in Positions
  BY SheetIs, WriteIs
<1>2. /\ \A s : s \in DOMAIN SeenBy(q) <=> /\ s \in DOMAIN rows \cup DOMAIN q.own
                                           /\ s \in DOMAIN q.own => q.own[s] # Null
      /\ \A s \in DOMAIN SeenBy(q) : SeenBy(q)[s] = IF s \in DOMAIN q.own THEN q.own[s] ELSE rows[s]
      /\ SeenBy(q) = [s \in DOMAIN SeenBy(q) |-> SeenBy(q)[s]]
  BY DEF SeenBy
<1>3. \A s \in DOMAIN SeenBy(q) : SeenBy(q)[s] \in Positions
  BY <1>1, <1>2
<1>4. DOMAIN SeenBy(q) \subseteq Symbols
  BY <1>1, <1>2
<1>5. SeenBy(q) \in Sheets
  <2> DEFINE f == SeenBy(q)
  <2>1. f = [s \in DOMAIN f |-> f[s]] /\ DOMAIN f \subseteq Symbols /\ \A s \in DOMAIN f : f[s] \in Positions
    BY <1>2, <1>3, <1>4
  <2> HIDE DEF f
  <2>2. f \in Sheets
    BY <2>1, SheetOf
  <2> QED BY <2>2 DEF f
<1> QED BY <1>2, <1>5

\* A list is what the session has, and what it sees where it has nothing.
LEMMA ListIs ==
  ASSUME Shaped, NEW r \in Slots
  PROVE  /\ Seen(r) = SeenBy(req[r])
         /\ Listed(r) \in Sheets
         /\ DOMAIN Listed(r) = DOMAIN SeenBy(req[r])
         /\ \A s \in DOMAIN Listed(r) : Listed(r)[s] = IF s \in DOMAIN req[r].view THEN req[r].view[s]
                                                       ELSE SeenBy(req[r])[s]
<1>1. rows \in Sheets /\ req[r].own \in Writes /\ req[r].view \in Sheets
  BY DEF Shaped, Requests
<1>2. Seen(r) = SeenBy(req[r])
  BY DEF Seen, SeenBy
<1>3. SeenBy(req[r]) \in Sheets
  BY <1>1, SeenIs
<1>4. /\ DOMAIN Listed(r) = DOMAIN SeenBy(req[r])
      /\ \A s \in DOMAIN Listed(r) : Listed(r)[s] = IF s \in DOMAIN req[r].view THEN req[r].view[s]
                                                    ELSE SeenBy(req[r])[s]
      /\ Listed(r) = [s \in DOMAIN Listed(r) |-> Listed(r)[s]]
  BY <1>2 DEF Listed
<1>5. /\ \A s \in DOMAIN SeenBy(req[r]) : SeenBy(req[r])[s] \in Positions
      /\ \A s \in DOMAIN req[r].view : req[r].view[s] \in Positions
      /\ DOMAIN SeenBy(req[r]) \subseteq Symbols
  BY <1>1, <1>3, SheetIs
<1>6. Listed(r) \in Sheets
  <2> DEFINE f == Listed(r)
  <2>1. f = [s \in DOMAIN f |-> f[s]] /\ DOMAIN f \subseteq Symbols /\ \A s \in DOMAIN f : f[s] \in Positions
    BY <1>4, <1>5
  <2> HIDE DEF f
  <2>2. f \in Sheets
    BY <2>1, SheetOf
  <2> QED BY <2>2 DEF f
<1> QED BY <1>2, <1>4, <1>6

-----------------------------------------------------------------------------
(* A step of a request that commits nothing *)

\* What r writes next is locked by no other, a key it gives is new, and what
\* it reads is committed or its own.
Joins(r, q) ==
  /\ \A s \in DOMAIN q.own : s \in DOMAIN req[r].own \/ Holder(s, r) = {}
  /\ \A s \in DOMAIN q.own : q.own[s] # Null =>
       \/ s \in DOMAIN rows \/ q.own[s].id \notin used
       \/ s \in DOMAIN req[r].own /\ req[r].own[s] # Null /\ req[r].own[s].id = q.own[s].id
  /\ \A s \in DOMAIN q.view :
       \/ s \in DOMAIN rows \cup DOMAIN q.own
       \/ s \in DOMAIN req[r].view /\ req[r].view[s].id = q.view[s].id

\* The request r goes on as q, and nothing is committed.
Turns(r, q) == /\ q \in Requests /\ Go(r, q)
               /\ UNCHANGED <<market, rows, latest>>
               /\ used \subseteq used' /\ used' \subseteq Keys
               /\ DOMAIN history' = DOMAIN history

\* Who goes on, and who stays.
LEMMA TurnIs ==
  ASSUME Shaped, NEW r \in Slots, NEW q, Turns(r, q)
  PROVE  req'[r] = q /\ (\A o \in Slots : o # r => req'[o] = req[o]) /\ Shaped'
<1>1. req \in [Slots -> Requests] /\ q \in Requests /\ req' = [req EXCEPT ![r] = q]
  BY DEF Shaped, Turns, Go
<1>2. req' \in [Slots -> Requests]
  BY <1>1
<1>3. req'[r] = q /\ \A o \in Slots : o # r => req'[o] = req[o]
  BY <1>1
<1> QED BY <1>2, <1>3 DEF Shaped, Turns

\* It keeps the invariant, if the request is in order where it goes.
LEMMA TurnKeeps ==
  ASSUME EntryInv, NEW r \in Slots, NEW q, Turns(r, q), Good(q), Joins(r, q),
         \A s \in DOMAIN q.view : q.view[s].id \in used',
         \A s \in DOMAIN q.own : q.own[s] # Null => q.own[s].id \in used'
  PROVE  EntryInv'
<1>1. /\ req'[r] = q /\ \A o \in Slots : o # r => req'[o] = req[o]
      /\ Shaped'
  BY TurnIs DEF EntryInv
<1>2. rows' = rows /\ market' = market /\ used \subseteq used'
  BY DEF Turns
<1>3. RowsGood'
  BY <1>2 DEF EntryInv, RowsGood, Grounded
<1>4. ASSUME NEW o \in Slots PROVE Good(req'[o])
  BY <1>1 DEF EntryInv
<1>5. ASSUME NEW o \in Slots PROVE Good(req[o])'
  <2>1. SeenBy(req[o])' = SeenBy(req'[o])
    BY <1>2, Zenon DEF SeenBy
  <2>2. \A s, row : Grounded(s, row)' <=> Grounded(s, row)
    BY <1>2 DEF Grounded
  <2>3. Placed(req[o])'
    BY <1>4 DEF Good, Placed
  <2>4. OwnGood(req[o])'
    BY <1>4, <1>2, <2>2 DEF Good, OwnGood, OwnRow, Early
  <2>5. ViewGood(req[o])'
    BY <1>4, <1>2, <2>1, <2>2 DEF Good, ViewGood
  <2> QED BY <2>3, <2>4, <2>5 DEF Good
<1>6. ASSUME NEW o \in Slots PROVE Keyed(req[o])'
  BY <1>1, <1>2 DEF EntryInv, Keyed
<1>7. Exclusive'
  <2> SUFFICES ASSUME NEW a \in Slots, NEW b \in Slots, a # b
               PROVE  /\ DOMAIN req'[a].own \cap DOMAIN req'[b].own = {}
                      /\ \A s \in DOMAIN req'[a].own \cap DOMAIN req'[b].view :
                           req'[a].own[s] # Null /\ s \notin DOMAIN rows =>
                             req'[b].view[s].id # req'[a].own[s].id
    BY <1>2 DEF Exclusive
  <2>0. ASSUME NEW o \in Slots, o # r
        PROVE  /\ DOMAIN q.own \cap DOMAIN req[o].own = {}
               /\ DOMAIN req[r].own \cap DOMAIN req[o].own = {}
    <3>1. \A s \in DOMAIN req[o].own : o \in Holder(s, r)
      BY <2>0 DEF Holder
    <3> QED BY <2>0, <3>1 DEF Joins, EntryInv, Exclusive
  <2>1. CASE a # r /\ b # r
    BY <2>1, <1>1 DEF EntryInv, Exclusive
  <2>2. CASE a = r
    <3>1. req'[a] = q /\ req'[b] = req[b]
      BY <1>1, <2>2
    <3>2. ASSUME NEW s \in DOMAIN q.own \cap DOMAIN req[b].view, q.own[s] # Null, s \notin DOMAIN rows
          PROVE  req[b].view[s].id # q.own[s].id
      <4>1. req[b].view[s].id \in used
        BY <3>2 DEF EntryInv, Keyed
      <4> QED BY <3>2, <4>1, <2>2 DEF Joins, EntryInv, Exclusive
    <3> QED BY <3>1, <3>2, <2>0, <2>2
  <2>3. CASE b = r
    <3>1. req'[a] = req[a] /\ req'[b] = q
      BY <1>1, <2>3
    <3>2. ASSUME NEW s \in DOMAIN req[a].own \cap DOMAIN q.view, req[a].own[s] # Null, s \notin DOMAIN rows
          PROVE  q.view[s].id # req[a].own[s].id
      <4>1. s \notin DOMAIN q.own
        BY <3>2, <2>0, <2>3
      <4>2. s \in DOMAIN req[r].view /\ req[r].view[s].id = q.view[s].id
        BY <4>1, <3>2 DEF Joins
      <4> QED BY <4>2, <3>2, <2>3 DEF EntryInv, Exclusive
    <3> QED BY <3>1, <3>2, <2>0, <2>3
  <2> QED BY <2>1, <2>2, <2>3
<1> QED BY <1>1, <1>3, <1>5, <1>6, <1>7 DEF EntryInv

\* A request that ends is in order.
LEMMA IdleGood ==
  /\ Idle \in Requests
  /\ Good(Idle) /\ Idle.at = "idle" /\ Idle.own = <<>> /\ Idle.view = <<>>
  /\ DOMAIN Idle.own = {} /\ DOMAIN Idle.view = {}
<1>1. NoSnapshot \in SnapshotRows
  BY NothingIs, ConstantsTyped DEF SnapshotRows, NoSnapshot
<1>2. Idle \in Requests
  BY <1>1, NothingIs DEF Idle, Requests, Places, Kinds
<1>3. Idle.at = "idle" /\ Idle.own = <<>> /\ Idle.view = <<>> /\ Idle.kind = "refresh" /\ Idle.todo = {}
  BY DEF Idle
<1> HIDE DEF Idle
<1> QED BY <1>2, <1>3, NothingIs DEF Good, Placed, OwnGood, ViewGood

\* A request may end at any time.
LEMMA EndKeeps ==
  ASSUME EntryInv, NEW r \in Slots, Go(r, Idle), UNCHANGED <<market, rows, latest>>,
         used \subseteq used', used' \subseteq Keys, DOMAIN history' = DOMAIN history
  PROVE  EntryInv'
<1>1. Turns(r, Idle) /\ Good(Idle) /\ Joins(r, Idle)
  BY IdleGood DEF Turns, Joins
<1> QED BY <1>1, IdleGood, TurnKeeps

-----------------------------------------------------------------------------
(* The statements keep the invariant of entries *)

\* What EntryInv says of a request.
LEMMA RequestIs ==
  ASSUME EntryInv, NEW r \in Slots
  PROVE  /\ Shaped /\ RowsGood /\ used \subseteq Keys
         /\ req[r] \in Requests /\ Placed(req[r]) /\ OwnGood(req[r]) /\ ViewGood(req[r]) /\ Keyed(req[r])
         /\ rows \in Sheets /\ req[r].view \in Sheets /\ req[r].own \in Writes
         /\ req[r].todo \subseteq Symbols /\ req[r].todo \subseteq Nat
BY ConstantsTyped DEF EntryInv, Good, Shaped, Requests

\* What is seen depends only on what is written.
LEMMA SeenSame ==
  ASSUME NEW p, NEW q, p.own = q.own
  PROVE  SeenBy(p) = SeenBy(q)
BY DEF SeenBy

\* Rows that are seen are in order.
LEMMA SeenGood ==
  ASSUME EntryInv, NEW r \in Slots, NEW s \in DOMAIN SeenBy(req[r])
  PROVE  /\ SeenBy(req[r])[s] \in Positions
         /\ Grounded(s, SeenBy(req[r])[s]) /\ SeenBy(req[r])[s].id \in used
         /\ s \in DOMAIN rows \cup DOMAIN req[r].own
         /\ s \in DOMAIN req[r].own =>
              /\ req[r].own[s] # Null /\ SeenBy(req[r])[s] = req[r].own[s]
              /\ OwnRow(req[r], s)
         /\ s \notin DOMAIN req[r].own => s \in DOMAIN rows /\ SeenBy(req[r])[s] = rows[s]
<1>1. rows \in Sheets /\ req[r].own \in Writes /\ RowsGood /\ OwnGood(req[r]) /\ Keyed(req[r])
  BY RequestIs
<1>2. SeenBy(req[r]) \in Sheets
  BY <1>1, SeenIs
<1>3. SeenBy(req[r])[s] \in Positions
  BY <1>2, SheetIs
<1>4. /\ s \in DOMAIN rows \cup DOMAIN req[r].own
      /\ s \in DOMAIN req[r].own => req[r].own[s] # Null
      /\ SeenBy(req[r])[s] = IF s \in DOMAIN req[r].own THEN req[r].own[s] ELSE rows[s]
  BY <1>1, SeenIs
<1>5. s \in DOMAIN req[r].own => OwnRow(req[r], s) /\ req[r].own[s].id \in used
  BY <1>1, <1>4 DEF OwnGood, Keyed
<1>6. OwnRow(req[r], s) => Grounded(s, req[r].own[s])
  BY DEF OwnRow
<1> QED BY <1>1, <1>3, <1>4, <1>5, <1>6 DEF RowsGood

\* What a list returns is in order.
LEMMA ListedGood ==
  ASSUME EntryInv, NEW r \in Slots
  PROVE  /\ Listed(r) \in Sheets /\ DOMAIN Listed(r) \subseteq Symbols
         /\ \A s \in DOMAIN Listed(r) :
              /\ Listed(r)[s] \in Positions
              /\ Grounded(s, Listed(r)[s]) /\ Listed(r)[s].id \in used
              /\ s \in DOMAIN rows \cup DOMAIN req[r].own
              /\ s \in DOMAIN SeenBy(req[r])
              /\ s \in DOMAIN req[r].view => Listed(r)[s] = req[r].view[s]
              /\ s \notin DOMAIN req[r].view => Listed(r)[s] = SeenBy(req[r])[s]
              /\ (Listed(r)[s].value # Null /\ SeenBy(req[r])[s].id = Listed(r)[s].id
                  /\ req[r].at # "write") => SeenBy(req[r])[s].value # Null
         /\ \A s \in DOMAIN req[r].own : req[r].own[s] # Null =>
              /\ s \in DOMAIN Listed(r) /\ s \in DOMAIN req[r].view
              /\ Listed(r)[s].id = req[r].own[s].id
<1>1. /\ Listed(r) \in Sheets /\ DOMAIN Listed(r) = DOMAIN SeenBy(req[r])
      /\ \A s \in DOMAIN Listed(r) : Listed(r)[s] = IF s \in DOMAIN req[r].view THEN req[r].view[s]
                                                    ELSE SeenBy(req[r])[s]
  BY RequestIs, ListIs
<1>2. DOMAIN Listed(r) \subseteq Symbols /\ \A s \in DOMAIN Listed(r) : Listed(r)[s] \in Positions
  BY <1>1, SheetIs
<1>3. ASSUME NEW s \in DOMAIN Listed(r)
      PROVE  /\ Grounded(s, Listed(r)[s]) /\ Listed(r)[s].id \in used
             /\ s \in DOMAIN rows \cup DOMAIN req[r].own
             /\ (Listed(r)[s].value # Null /\ SeenBy(req[r])[s].id = Listed(r)[s].id
                 /\ req[r].at # "write") => SeenBy(req[r])[s].value # Null
  <2>1. /\ Grounded(s, SeenBy(req[r])[s]) /\ SeenBy(req[r])[s].id \in used
        /\ s \in DOMAIN rows \cup DOMAIN req[r].own
    BY <1>1, <1>3, SeenGood
  <2>2. ViewGood(req[r]) /\ Keyed(req[r])
    BY RequestIs
  <2> QED BY <1>1, <1>3, <2>1, <2>2 DEF ViewGood, Keyed
<1>4. ASSUME NEW s \in DOMAIN req[r].own, req[r].own[s] # Null
      PROVE  /\ s \in DOMAIN Listed(r) /\ s \in DOMAIN req[r].view
             /\ Listed(r)[s].id = req[r].own[s].id
  <2>1. OwnGood(req[r]) /\ rows \in Sheets /\ req[r].own \in Writes
    BY RequestIs
  <2>2. s \in DOMAIN req[r].view /\ req[r].view[s].id = req[r].own[s].id
    BY <1>4, <2>1 DEF OwnGood, OwnRow
  <2>3. s \in DOMAIN SeenBy(req[r])
    BY <1>4, <2>1, SeenIs
  <2> QED BY <1>1, <2>2, <2>3
<1> QED BY <1>1, <1>2, <1>3, <1>4

\* What was written stays in order where nothing is written.
LEMMA OwnStays ==
  ASSUME NEW p, NEW q, OwnGood(p), q.own = p.own, q.kind = p.kind, q.symbol = p.symbol, q.qty = p.qty,
         \A s \in DOMAIN p.own : p.own[s] # Null =>
           /\ Early(p, s) => \/ Early(q, s) \/ p.own[s].value # Null
                             \/ /\ p.own[s].weight = Null
                                /\ s \in DOMAIN rows => rows[s].value = Null
           /\ s \in DOMAIN q.view /\ q.view[s].id = p.own[s].id
  PROVE  OwnGood(q)
BY DEF OwnGood, OwnRow

\* Begin keeps the invariant.
LEMMA BeginKeeps ==
  ASSUME EntryInv, NEW r \in Slots, NEW kind \in Kinds, NEW s, NEW n, Begin(r, kind, s, n),
         kind # "refresh" => s \in Symbols /\ n \in Quantities,
         kind = "refresh" => s = 0 /\ n = 0
  PROVE  EntryInv'
<1> DEFINE q == [Idle EXCEPT !.at = CASE kind = "upsert" -> "change" [] kind = "delete" -> "find"
                                      [] kind = "refresh" -> "list",
                             !.kind = kind, !.symbol = s, !.qty = n]
<1>1. s \in Nat /\ n \in Nat
  <2>1. CASE kind = "refresh"
    BY <2>1
  <2>2. CASE kind # "refresh"
    BY <2>2, ConstantsTyped
  <2> QED BY <2>1, <2>2
<1>2. /\ q \in Requests /\ q.kind = kind /\ q.symbol = s /\ q.qty = n /\ q.own = <<>> /\ q.view = <<>>
      /\ q.todo = {}
      /\ kind = "upsert" => q.at = "change"
      /\ kind = "delete" => q.at = "find"
      /\ kind = "refresh" => q.at = "list"
  <2>1. Idle \in Requests /\ Idle.own = <<>> /\ Idle.view = <<>> /\ Idle.todo = {}
    BY IdleGood DEF Idle
  <2>2. kind \in {"upsert", "delete", "refresh"}
    BY DEF Kinds
  <2>3. q.at \in Places
    BY <2>1, <2>2 DEF Requests, Places
  <2>4. q.own = <<>> /\ q.view = <<>> /\ q.todo = {} /\ q.kind = kind /\ q.symbol = s /\ q.qty = n
    BY <2>1 DEF Requests
  <2>5. /\ kind = "upsert" => q.at = "change"
        /\ kind = "delete" => q.at = "find"
        /\ kind = "refresh" => q.at = "list"
    BY <2>1, <2>2 DEF Requests
  <2>6. q \in Requests
    BY <1>1, <2>1, <2>2, <2>3 DEF Requests, Kinds
  <2> QED BY <2>4, <2>5, <2>6
<1>3. Turns(r, q)
  <2>1. Go(r, q) /\ UNCHANGED <<market, rows, latest, used>> /\ DOMAIN history' = DOMAIN history
    BY DEF Begin
  <2>2. used \subseteq Keys
    BY RequestIs
  <2> HIDE DEF q
  <2> QED BY <1>2, <2>1, <2>2 DEF Turns
<1> HIDE DEF q
<1>4. Good(q)
  BY <1>2, NothingIs DEF Good, Placed, OwnGood, ViewGood, Kinds
<1>5. DOMAIN q.own = {} /\ DOMAIN q.view = {}
  BY <1>2, NothingIs
<1>6. Joins(r, q)
  BY <1>5 DEF Joins
<1> QED BY <1>3, <1>4, <1>5, <1>6, TurnKeeps

\* What an upsert writes.
LEMMA UpsertIs ==
  ASSUME EntryInv, NEW r \in Slots, Upsert(r)
  PROVE  LET s == req[r].symbol IN \E row, q :
           /\ s \in Symbols /\ Holder(s, r) = {}
           /\ row \in Positions /\ row.qty = req[r].qty /\ row.price = Null /\ row.value = Null
           /\ row.weight = IF s \in DOMAIN rows THEN rows[s].weight ELSE Null
           /\ row.id \in used' /\ IF s \in DOMAIN rows THEN row.id = rows[s].id ELSE row.id \notin used
           /\ Turns(r, q)
           /\ q.at = "list" /\ q.kind = "upsert" /\ q.symbol = s /\ q.qty = req[r].qty /\ q.todo = req[r].todo
           /\ q.own = Put(<<>>, s, row) /\ q.view = Put(<<>>, s, row)
           /\ DOMAIN q.own = {s} /\ DOMAIN q.view = {s} /\ q.own[s] = row /\ q.view[s] = row
<1> DEFINE s == req[r].symbol
<1>1. req[r].at = "change" /\ req[r].kind = "upsert" /\ s \in Symbols /\ req[r].qty \in Quantities
      /\ req[r] \in Requests /\ req[r].own = <<>> /\ req[r].view = <<>> /\ req[r].own \in Writes
      /\ req[r].view \in Sheets /\ used \subseteq Keys
  BY RequestIs DEF Upsert, Placed
<1>2. PICK id \in Keys :
        /\ IF s \in DOMAIN rows THEN id = rows[s].id ELSE id \notin used
        /\ used' = used \cup {id}
        /\ Go(r, [req[r] EXCEPT !.at = "list",
             !.own = Put(req[r].own, s, [id |-> id, qty |-> req[r].qty, price |-> Null, value |-> Null,
                           weight |-> IF s \in DOMAIN rows THEN rows[s].weight ELSE Null]),
             !.view = Put(req[r].view, s, [id |-> id, qty |-> req[r].qty, price |-> Null, value |-> Null,
                           weight |-> IF s \in DOMAIN rows THEN rows[s].weight ELSE Null])])
  BY Zenon, <1>1 DEF Upsert
<1> DEFINE row == [id |-> id, qty |-> req[r].qty, price |-> Null, value |-> Null,
                   weight |-> IF s \in DOMAIN rows THEN rows[s].weight ELSE Null]
           q == [req[r] EXCEPT !.at = "list", !.own = Put(req[r].own, s, row), !.view = Put(req[r].view, s, row)]
<1>3. /\ row.qty = req[r].qty /\ row.price = Null /\ row.value = Null /\ row.id = id
      /\ row.weight = IF s \in DOMAIN rows THEN rows[s].weight ELSE Null
  OBVIOUS
<1>4. row \in Positions
  <2>1. rows \in Sheets
    BY RequestIs
  <2>2. (IF s \in DOMAIN rows THEN rows[s].weight ELSE Null) \in {Null} \cup [of : Nat, equity : Nat]
    BY <2>1, SheetIs, PositionIs
  <2> QED BY <1>1, <2>2 DEF Positions
<1>5. Go(r, q)
  BY <1>2
<1> HIDE DEF row
<1>6. /\ Put(req[r].own, s, row) \in Writes /\ Put(req[r].view, s, row) \in Sheets
      /\ DOMAIN Put(<<>>, s, row) = {s} /\ Put(<<>>, s, row)[s] = row
  <2>1. Put(req[r].own, s, row) \in Writes
    BY <1>1, <1>4, PutWrites
  <2>2. /\ DOMAIN Put(<<>>, s, row) = {s} /\ Put(<<>>, s, row)[s] = row
        /\ Put(<<>>, s, row) = [x \in DOMAIN Put(<<>>, s, row) |-> Put(<<>>, s, row)[x]]
    <3> HIDE DEF s
    <3> QED BY PutOne
  <2>3. Put(<<>>, s, row) \in Sheets
    <3> DEFINE f == Put(<<>>, s, row)
    <3>1. f = [x \in DOMAIN f |-> f[x]] /\ DOMAIN f \subseteq Symbols /\ \A x \in DOMAIN f : f[x] \in Positions
      BY <1>1, <1>4, <2>2
    <3> HIDE DEF f
    <3>2. f \in Sheets
      BY <3>1, SheetOf
    <3> QED BY <3>2 DEF f
  <2> QED BY <1>1, <2>1, <2>2, <2>3
<1>7. /\ q \in Requests /\ q.at = "list" /\ q.kind = "upsert" /\ q.symbol = s /\ q.qty = req[r].qty
      /\ q.todo = req[r].todo
      /\ q.own = Put(<<>>, s, row) /\ q.view = Put(<<>>, s, row)
  BY <1>1, <1>6 DEF Requests, Places
<1>8. Holder(s, r) = {} /\ UNCHANGED <<market, rows, latest, history>>
  BY DEF Upsert
<1> HIDE DEF q
<1>9. Turns(r, q)
  BY <1>1, <1>2, <1>5, <1>7, <1>8 DEF Turns
<1> HIDE DEF s
<1> QED BY <1>1, <1>2, <1>3, <1>4, <1>6, <1>7, <1>8, <1>9 DEF s

\* Upsert keeps the invariant.
LEMMA UpsertKeeps ==
  ASSUME EntryInv, NEW r \in Slots, Upsert(r)
  PROVE  EntryInv'
<1> DEFINE s == req[r].symbol
<1>1. PICK row, q :
        /\ s \in Symbols /\ Holder(s, r) = {}
        /\ row \in Positions /\ row.qty = req[r].qty /\ row.price = Null /\ row.value = Null
        /\ row.weight = IF s \in DOMAIN rows THEN rows[s].weight ELSE Null
        /\ row.id \in used' /\ IF s \in DOMAIN rows THEN row.id = rows[s].id ELSE row.id \notin used
        /\ Turns(r, q)
        /\ q.at = "list" /\ q.kind = "upsert" /\ q.symbol = s /\ q.qty = req[r].qty /\ q.todo = req[r].todo
        /\ q.own = Put(<<>>, s, row) /\ q.view = Put(<<>>, s, row)
        /\ DOMAIN q.own = {s} /\ DOMAIN q.view = {s} /\ q.own[s] = row /\ q.view[s] = row
  BY UpsertIs
<1> HIDE DEF s
<1>2. /\ req[r].at = "change" /\ req[r].kind = "upsert" /\ req[r].qty \in Quantities
      /\ req[r].todo = {} /\ RowsGood
  BY RequestIs, NothingIs DEF Upsert, Placed
<1>3. row # Null
  BY <1>1, PositionIs
<1>4. Grounded(s, row)
  BY <1>1, <1>2, ConstantsTyped DEF Grounded, RowsGood
<1>5. OwnRow(q, s)
  BY <1>1, <1>4 DEF OwnRow, Early
<1>6. OwnGood(q) /\ Placed(q) /\ ViewGood(q)
  <2>1. OwnGood(q)
    BY <1>1, <1>3, <1>5 DEF OwnGood
  <2>2. Placed(q)
    BY <1>1, <1>2 DEF Placed
  <2>3. ViewGood(q)
    BY <1>1, <1>4 DEF ViewGood
  <2> QED BY <2>1, <2>2, <2>3
<1>7. Joins(r, q)
  BY <1>1 DEF Joins
<1> QED BY <1>1, <1>6, <1>7, TurnKeeps DEF Good

\* The request it is does not change on the way.
Moved(q, p) == q.kind = p.kind /\ q.symbol = p.symbol /\ q.qty = p.qty

\* A deletion finds its row, or ends.
LEMMA FindIs ==
  ASSUME EntryInv, NEW r \in Slots, Find(r)
  PROVE  \/ Go(r, Idle)
         \/ \E q : /\ Turns(r, q) /\ Moved(q, req[r]) /\ q.at = "delete" /\ q.todo = req[r].todo
                   /\ q.own = <<>> /\ q.view = <<>> /\ q.kind = "delete" /\ q.symbol \in Symbols
<1> DEFINE q == [req[r] EXCEPT !.at = "delete"]
<1>1. req[r] \in Requests /\ Placed(req[r]) /\ used \subseteq Keys
  BY RequestIs
<1>2. /\ q \in Requests /\ Moved(q, req[r]) /\ q.at = "delete" /\ q.todo = req[r].todo
      /\ q.own = req[r].own /\ q.view = req[r].view
  BY <1>1 DEF Requests, Places, Moved
<1>3. req[r].own = <<>> /\ req[r].view = <<>> /\ req[r].kind = "delete" /\ req[r].symbol \in Symbols
  BY <1>1 DEF Find, Placed
<1>4. Go(r, Idle) \/ Go(r, q)
  BY DEF Find
<1>5. UNCHANGED <<market, rows, latest, used, history>>
  BY DEF Find
<1> HIDE DEF q
<1>6. CASE Go(r, q)
  <2>1. Turns(r, q)
    BY <1>1, <1>2, <1>5, <1>6 DEF Turns
  <2> QED BY <1>2, <1>3, <2>1 DEF Moved
<1> QED BY <1>4, <1>6

\* Find keeps the invariant.
LEMMA FindKeeps ==
  ASSUME EntryInv, NEW r \in Slots, Find(r)
  PROVE  EntryInv'
<1>1. UNCHANGED <<market, rows, latest, used, history>> /\ used \subseteq Keys
  BY RequestIs DEF Find
<1>2. CASE Go(r, Idle)
  BY <1>1, <1>2, EndKeeps
<1>3. CASE \E q : /\ Turns(r, q) /\ Moved(q, req[r]) /\ q.at = "delete" /\ q.todo = req[r].todo
                  /\ q.own = <<>> /\ q.view = <<>> /\ q.kind = "delete" /\ q.symbol \in Symbols
  <2>1. PICK q : /\ Turns(r, q) /\ Moved(q, req[r]) /\ q.at = "delete" /\ q.todo = req[r].todo
                 /\ q.own = <<>> /\ q.view = <<>> /\ q.kind = "delete" /\ q.symbol \in Symbols
    BY <1>3
  <2>2. DOMAIN q.own = {} /\ DOMAIN q.view = {}
    BY <2>1, NothingIs
  <2>3. q.todo = {}
    BY <2>1, RequestIs, NothingIs DEF Find, Placed
  <2>4. Good(q)
    BY <2>1, <2>2, <2>3 DEF Good, Placed, OwnGood, ViewGood
  <2>5. Joins(r, q)
    BY <2>2 DEF Joins
  <2> QED BY <2>1, <2>2, <2>4, <2>5, TurnKeeps
<1> QED BY <1>2, <1>3, FindIs

\* What a deletion writes.
LEMMA DeleteIs ==
  ASSUME EntryInv, NEW r \in Slots, Delete(r)
  PROVE  \E q : /\ Turns(r, q) /\ Moved(q, req[r]) /\ q.at = "total" /\ q.view = <<>> /\ q.todo = {}
                /\ q.kind = "delete" /\ q.symbol \in Symbols /\ Holder(q.symbol, r) = {}
                /\ \A s \in DOMAIN q.own : s = q.symbol /\ q.own[s] = Null
                /\ req[r].own = <<>> /\ DOMAIN q.view = {}
<1> DEFINE s == req[r].symbol
           own == IF s \in DOMAIN rows THEN Put(req[r].own, s, Null) ELSE req[r].own
           q == [req[r] EXCEPT !.at = "total", !.own = own]
<1>1. req[r] \in Requests /\ Placed(req[r]) /\ used \subseteq Keys /\ req[r].own \in Writes
  BY RequestIs
<1>2. /\ req[r].own = <<>> /\ req[r].view = <<>> /\ req[r].kind = "delete" /\ s \in Symbols
      /\ req[r].todo = {}
  BY <1>1, NothingIs DEF Delete, Placed
<1>3. own \in Writes
  BY <1>1, <1>2, PutWrites
<1>4. \A x \in DOMAIN own : x = s /\ own[x] = Null
  <2>1. DOMAIN req[r].own = {}
    BY <1>2, NothingIs
  <2>2. DOMAIN Put(req[r].own, s, Null) = {s} /\ Put(req[r].own, s, Null)[s] = Null
    BY <2>1 DEF Put
  <2> HIDE DEF s
  <2> QED BY <2>1, <2>2
<1>5. Go(r, q)
  BY Zenon DEF Delete
<1>6. Holder(s, r) = {} /\ UNCHANGED <<market, rows, latest, used, history>>
  BY DEF Delete
<1> HIDE DEF own
<1>7. /\ q \in Requests /\ Moved(q, req[r]) /\ q.at = "total" /\ q.todo = req[r].todo
      /\ q.own = own /\ q.view = req[r].view /\ q.kind = req[r].kind /\ q.symbol = s
  BY <1>1, <1>3 DEF Requests, Places, Moved
<1> HIDE DEF q
<1>8. Turns(r, q)
  BY <1>1, <1>5, <1>6, <1>7 DEF Turns
<1> QED BY <1>2, <1>4, <1>6, <1>7, <1>8, NothingIs

\* Delete keeps the invariant.
LEMMA DeleteKeeps ==
  ASSUME EntryInv, NEW r \in Slots, Delete(r)
  PROVE  EntryInv'
<1>1. PICK q : /\ Turns(r, q) /\ Moved(q, req[r]) /\ q.at = "total" /\ q.view = <<>> /\ q.todo = {}
               /\ q.kind = "delete" /\ q.symbol \in Symbols /\ Holder(q.symbol, r) = {}
               /\ \A s \in DOMAIN q.own : s = q.symbol /\ q.own[s] = Null
               /\ req[r].own = <<>> /\ DOMAIN q.view = {}
  BY DeleteIs
<1>2. Good(q)
  BY <1>1 DEF Good, Placed, OwnGood, ViewGood
<1>3. Joins(r, q)
  BY <1>1 DEF Joins
<1> QED BY <1>1, <1>2, <1>3, TurnKeeps

\* The list that repricing works on.
LEMMA RelistIs ==
  ASSUME EntryInv, NEW r \in Slots, List(r)
  PROVE  \E q : /\ Turns(r, q) /\ Moved(q, req[r]) /\ req[r].at = "list" /\ q.at = "price"
                /\ q.own = req[r].own /\ q.view = Listed(r) /\ q.todo = DOMAIN Listed(r)
<1> DEFINE q == [req[r] EXCEPT !.at = "price", !.view = Listed(r), !.todo = DOMAIN Listed(r)]
<1>1. req[r] \in Requests /\ used \subseteq Keys
  BY RequestIs
<1>2. Listed(r) \in Sheets /\ DOMAIN Listed(r) \subseteq Symbols
  BY ListedGood
<1>3. /\ q \in Requests /\ Moved(q, req[r]) /\ q.at = "price" /\ q.own = req[r].own
      /\ q.view = Listed(r) /\ q.todo = DOMAIN Listed(r)
  BY <1>1, <1>2 DEF Requests, Places, Moved
<1>4. Go(r, q) /\ req[r].at = "list" /\ UNCHANGED <<market, rows, latest, used, history>>
  BY DEF List
<1> HIDE DEF q
<1>5. Turns(r, q)
  BY <1>1, <1>3, <1>4 DEF Turns
<1> QED BY <1>3, <1>4, <1>5

\* List keeps the invariant.
LEMMA ListKeeps ==
  ASSUME EntryInv, NEW r \in Slots, List(r)
  PROVE  EntryInv'
<1>1. PICK q : /\ Turns(r, q) /\ Moved(q, req[r]) /\ req[r].at = "list" /\ q.at = "price"
               /\ q.own = req[r].own /\ q.view = Listed(r) /\ q.todo = DOMAIN Listed(r)
  BY RelistIs
<1>2. Placed(req[r]) /\ OwnGood(req[r]) /\ Keyed(req[r])
  BY RequestIs
<1>3. SeenBy(q) = SeenBy(req[r])
  BY <1>1, SeenSame
<1>4. OwnGood(q)
  <2>1. \A s \in DOMAIN req[r].own : req[r].own[s] # Null =>
           /\ Early(q, s) /\ s \in DOMAIN q.view /\ q.view[s].id = req[r].own[s].id
    BY <1>1, ListedGood DEF Early
  <2> QED BY <1>1, <1>2, <2>1, OwnStays DEF Moved
<1>5. Placed(q)
  BY <1>1, <1>2 DEF Placed, Moved
<1>6. ViewGood(q)
  BY <1>1, <1>3, ListedGood DEF ViewGood
<1>7. Joins(r, q)
  BY <1>1, ListedGood DEF Joins
<1>8. /\ \A s \in DOMAIN q.view : q.view[s].id \in used'
      /\ \A s \in DOMAIN q.own : q.own[s] # Null => q.own[s].id \in used'
  BY <1>1, <1>2, ListedGood DEF Keyed, Turns
<1> QED BY <1>1, <1>4, <1>5, <1>6, <1>7, <1>8, TurnKeeps DEF Good

\* q is r with s repriced, or passed over where no close is stored.
Repricing(r, s, q) ==
  /\ Turns(r, q) /\ Moved(q, req[r]) /\ q.own = req[r].own
  /\ req[r].at = "price" /\ s \in req[r].todo /\ s \in DOMAIN req[r].view /\ s \in Symbols
  /\ DOMAIN q.view = DOMAIN req[r].view
  /\ \A x \in DOMAIN q.view : x # s => q.view[x] = req[r].view[x]
  /\ IF market[s] = Null
     THEN q.at = "price" /\ q.todo = req[r].todo \ {s} /\ q.view = req[r].view
     ELSE /\ q.at = "write" /\ q.todo = req[r].todo
          /\ q.view[s] = [req[r].view[s] EXCEPT !.price = market[s],
                                                !.value = req[r].view[s].qty * market[s]]
          /\ q.view[s] \in Positions
          /\ q.view[s].id = req[r].view[s].id /\ q.view[s].weight = req[r].view[s].weight
          /\ q.view[s].qty = req[r].view[s].qty
          /\ q.view[s].price = market[s] /\ q.view[s].price # Null
          /\ q.view[s].value = req[r].view[s].qty * market[s]
          /\ q.view[s].value \in Nat \ {0} /\ q.view[s].value # Null

\* The position that is repriced next, and what repricing it assigns.
LEMMA RepriceIs ==
  ASSUME EntryInv, NEW r \in Slots, Reprice(r)
  PROVE  \E q : Repricing(r, Min(req[r].todo), q)
<1> DEFINE s == Min(req[r].todo)
           p == [req[r] EXCEPT !.todo = req[r].todo \ {s}]
           row == [req[r].view[s] EXCEPT !.price = market[s], !.value = req[r].view[s].qty * market[s]]
           q == [req[r] EXCEPT !.at = "write", !.view = [req[r].view EXCEPT ![s] = row]]
<1>1. /\ req[r] \in Requests /\ used \subseteq Keys /\ req[r].view \in Sheets /\ Placed(req[r])
      /\ req[r].todo \subseteq Symbols /\ req[r].todo \subseteq Nat /\ Shaped
  BY RequestIs
<1>2. req[r].at = "price" /\ req[r].todo # {} /\ UNCHANGED <<market, rows, latest, used, history>>
  BY DEF Reprice
<1>3. s \in req[r].todo /\ s \in DOMAIN req[r].view /\ s \in Symbols
  <2> HIDE DEF p, row, q
  <2> QED BY <1>1, <1>2, MinIsLeast DEF Placed
<1>4. req[r].view[s] \in Positions /\ market[s] \in Prices \cup {Null}
  BY <1>1, <1>3, SheetIs DEF Shaped
<1>5. IF market[s] = Null THEN Go(r, p) ELSE Go(r, q)
  <2>1. CASE market[s] = Null
    BY <2>1 DEF Reprice
  <2>2. CASE market[s] # Null
    <3>1. Go(r, [req[r] EXCEPT !.at = "write", !.view[s].price = market[s],
                     !.view[s].value = req[r].view[s].qty * market[s]])
      BY <2>2 DEF Reprice
    <3>2. q = [req[r] EXCEPT !.at = "write", !.view[s].price = market[s],
                     !.view[s].value = req[r].view[s].qty * market[s]]
      BY <1>1, <1>3, <1>4 DEF Requests
    <3> QED BY <3>1, <3>2, <2>2
  <2> QED BY <2>1, <2>2
<1>6. CASE market[s] = Null
  <2>1. /\ p \in Requests /\ Moved(p, req[r]) /\ p.own = req[r].own /\ p.view = req[r].view
        /\ p.at = "price" /\ p.todo = req[r].todo \ {s}
    BY <1>1, <1>2 DEF Requests, Moved
  <2>2. Go(r, p)
    BY <1>5, <1>6
  <2> HIDE DEF p
  <2>3. Turns(r, p)
    BY <1>1, <1>2, <2>1, <2>2 DEF Turns
  <2> HIDE DEF s
  <2>4. /\ DOMAIN p.view = DOMAIN req[r].view
        /\ \A x \in DOMAIN p.view : x # s => p.view[x] = req[r].view[x]
    BY <2>1
  <2>5. Repricing(r, s, p)
    BY <1>2, <1>3, <1>6, <2>1, <2>3, <2>4 DEF Repricing
  <2> QED BY <2>5 DEF s
<1>7. CASE market[s] # Null
  <2>1. req[r].view[s].qty * market[s] \in Nat \ {0}
    <3>1. PICK a, b : a = req[r].view[s].qty /\ b = market[s]
      OBVIOUS
    <3>2. a \in Nat \ {0} /\ b \in Nat \ {0}
      BY <1>4, <1>7, <3>1, PositionIs, ConstantsTyped
    <3> HIDE DEF s, p, row, q
    <3>3. a * b \in Nat \ {0}
      BY <3>2
    <3> QED BY <3>1, <3>3
  <2>2. /\ row.price = market[s] /\ row.value = req[r].view[s].qty * market[s]
        /\ row.id = req[r].view[s].id /\ row.weight = req[r].view[s].weight
        /\ row.qty = req[r].view[s].qty
    BY <1>4 DEF Positions
  <2>3. row \in Positions
    <3>1. req[r].view[s].qty * market[s] \in Nat \cup {Null} /\ market[s] \in Prices \cup {Null}
      BY <2>1, <1>4
    <3> DEFINE v == req[r].view[s].qty * market[s]
               m == market[s]
               b == req[r].view[s]
    <3>2. b \in Positions /\ v \in Nat \cup {Null} /\ m \in Prices \cup {Null}
      BY <1>4, <3>1
    <3> HIDE DEF v, m, b
    <3>3. [b EXCEPT !.price = m, !.value = v] \in Positions
      BY <3>2 DEF Positions
    <3> QED BY <3>3 DEF v, m, b
  <2>4. Go(r, q)
    BY <1>5, <1>7
  <2>5. Null \notin Nat
    BY ConstantsTyped
  <2> DEFINE view == [req[r].view EXCEPT ![s] = row]
  <2> HIDE DEF row
  <2>6. /\ DOMAIN view = DOMAIN req[r].view /\ view[s] = row
        /\ \A x \in DOMAIN view : x # s => view[x] = req[r].view[x]
        /\ view = [x \in DOMAIN view |-> view[x]]
    <3> HIDE DEF s
    <3> QED BY <1>3
  <2>7. view \in Sheets
    <3> HIDE DEF s
    <3>1. DOMAIN view \subseteq Symbols /\ \A x \in DOMAIN view : view[x] \in Positions
      BY <1>1, <2>3, <2>6, SheetIs
    <3> HIDE DEF view
    <3> QED BY <2>6, <3>1, SheetOf
  <2> HIDE DEF view
  <2>8. /\ q \in Requests /\ Moved(q, req[r]) /\ q.own = req[r].own /\ q.view = view
        /\ q.at = "write" /\ q.todo = req[r].todo
    BY <1>1, <2>7 DEF Requests, Places, Moved, view
  <2> HIDE DEF q
  <2>9. Turns(r, q)
    BY <1>1, <1>2, <2>4, <2>8 DEF Turns
  <2>10. row = [req[r].view[s] EXCEPT !.price = market[s], !.value = req[r].view[s].qty * market[s]]
    BY DEF row
  <2> HIDE DEF s
  <2>11. /\ DOMAIN q.view = DOMAIN req[r].view
         /\ \A x \in DOMAIN q.view : x # s => q.view[x] = req[r].view[x]
         /\ q.view[s] = row
    BY <2>6, <2>8
  <2>12. row.price # Null /\ row.value # Null
    BY <1>7, <2>1, <2>2, <2>5
  <2>13. Repricing(r, s, q)
    BY <1>2, <1>3, <1>7, <2>1, <2>2, <2>3, <2>8, <2>9, <2>10, <2>11, <2>12 DEF Repricing
  <2> QED BY <2>13 DEF s
<1> QED BY <1>6, <1>7

\* Reprice keeps the invariant.
LEMMA RepriceKeeps ==
  ASSUME EntryInv, NEW r \in Slots, Reprice(r)
  PROVE  EntryInv'
<1> DEFINE s == Min(req[r].todo)
<1>1. PICK q : Repricing(r, s, q)
  BY RepriceIs
<1>2. s = Min(q.todo) \/ market[s] = Null
  BY <1>1 DEF Repricing
<1> HIDE DEF s
<1> USE <1>1 DEF Repricing
<1>3. Placed(req[r]) /\ OwnGood(req[r]) /\ ViewGood(req[r]) /\ Keyed(req[r]) /\ RowsGood
  BY RequestIs
<1>4. SeenBy(q) = SeenBy(req[r])
  BY <1>1, SeenSame
<1>5. \A x \in DOMAIN q.view : q.view[x].id = req[r].view[x].id
  BY <1>1
<1>6. OwnGood(q)
  <2>1. ASSUME NEW x \in DOMAIN req[r].own, req[r].own[x] # Null
        PROVE  /\ Early(req[r], x) => \/ Early(q, x)
                                      \/ /\ req[r].own[x].weight = Null
                                         /\ x \in DOMAIN rows => rows[x].value = Null
               /\ x \in DOMAIN q.view /\ q.view[x].id = req[r].own[x].id
    <3>1. OwnRow(req[r], x)
      BY <2>1, <1>3 DEF OwnGood
    <3>2. x \in DOMAIN q.view /\ q.view[x].id = req[r].own[x].id
      BY <3>1, <1>1, <1>5 DEF OwnRow
    <3>3. CASE x = s /\ market[s] = Null
      BY <3>1, <3>2, <3>3, <1>3 DEF OwnRow, Grounded, RowsGood
    <3>4. CASE ~ (x = s /\ market[s] = Null)
      BY <3>2, <3>4, <1>1 DEF Early
    <3> QED BY <3>3, <3>4
  <2> QED BY <1>1, <1>3, <2>1, OwnStays DEF Moved
<1>7. Placed(q)
  BY <1>1, <1>3 DEF Placed, Moved
<1>8. ViewGood(q)
  <2>1. ASSUME NEW x \in DOMAIN q.view
        PROVE  /\ Grounded(x, q.view[x])
               /\ (q.view[x].value # Null /\ x \in DOMAIN SeenBy(q) /\ SeenBy(q)[x].id = q.view[x].id) =>
                     SeenBy(q)[x].value # Null \/ (q.at = "write" /\ x = Min(q.todo))
    <3>1. CASE x = s /\ market[s] # Null
      BY <3>1, <1>1, <1>2 DEF Grounded
    <3>2. CASE ~ (x = s /\ market[s] # Null)
      <4>1. q.view[x] = req[r].view[x]
        BY <3>2, <1>1, <2>1
      <4> QED BY <4>1, <2>1, <1>1, <1>3, <1>4 DEF ViewGood
    <3> QED BY <3>1, <3>2
  <2>2. q.at = "write" => q.todo # {} /\ q.view[Min(q.todo)].value # Null
    BY <1>1, <1>2
  <2>3. q.at # "flush"
    BY <1>1
  <2> QED BY <2>1, <2>2, <2>3 DEF ViewGood
<1>9. Joins(r, q)
  BY <1>1, <1>5 DEF Joins
<1>10. /\ \A x \in DOMAIN q.view : q.view[x].id \in used'
       /\ \A x \in DOMAIN q.own : q.own[x] # Null => q.own[x].id \in used'
  BY <1>1, <1>3, <1>5 DEF Keyed, Turns
<1> QED BY <1>1, <1>6, <1>7, <1>8, <1>9, <1>10, TurnKeeps DEF Good

\* The row of s that r sees is the one it has read.
Match(r, s) == s \in DOMAIN SeenBy(req[r]) /\ SeenBy(req[r])[s].id = req[r].view[s].id

\* p is r with s done.
Passed(r, s, p) ==
  /\ p \in Requests /\ Moved(p, req[r]) /\ p.own = req[r].own /\ p.view = req[r].view
  /\ s \in req[r].todo /\ p.todo = req[r].todo \ {s}
  /\ p.equity = req[r].equity /\ p.snap = req[r].snap
  /\ \/ req[r].at = "write" /\ s = Min(req[r].todo) /\ p.at = "price"
     \/ req[r].at = "flush" /\ p.at = "flush"

\* row may be written over the one of s that r sees.
Follows(r, s, row) ==
  /\ row \in Positions
  /\ Grounded(s, row)
  /\ row.id = SeenBy(req[r])[s].id /\ row.qty = SeenBy(req[r])[s].qty
  /\ SeenBy(req[r])[s].value # Null => row.value # Null
  /\ row.value = Null => row.weight = Null
  /\ req[r].at = "write" => row.value # Null

\* q is p with row written.
Rewritten(p, s, row, q) ==
  /\ q \in Requests /\ Moved(q, p) /\ q.view = p.view /\ q.todo = p.todo /\ q.at = p.at
  /\ q.equity = p.equity /\ q.snap = p.snap
  /\ q.own = Put(p.own, s, row)
  /\ DOMAIN q.own = DOMAIN p.own \cup {s} /\ q.own[s] = row
  /\ \A x \in DOMAIN p.own : x # s => q.own[x] = p.own[x]

\* An UPDATE writes the row, or finds it gone: then the request ends or goes on.
LEMMA UpdateIs ==
  ASSUME EntryInv, NEW r \in Slots, NEW s \in Symbols, NEW p, Passed(r, s, p), NEW row,
         Match(r, s) => row \in Positions,
         Update(r, s, p, row), UNCHANGED <<market, rows, latest, used, history>>
  PROVE  /\ Holder(s, r) = {}
         /\ \/ Go(r, Idle)
            \/ ~ Match(r, s) /\ Turns(r, p)
            \/ Match(r, s) /\ \E q : Turns(r, q) /\ Rewritten(p, s, row, q)
<1>1. Seen(r) = SeenBy(req[r]) /\ used \subseteq Keys /\ req[r].own \in Writes
  BY RequestIs, ListIs
<1>2. Holder(s, r) = {}
  BY DEF Update
<1>3. CASE ~ Match(r, s)
  <2>1. Go(r, Idle) \/ Go(r, p)
    BY <1>1, <1>3 DEF Update, Match
  <2>2. Go(r, p) => Turns(r, p)
    BY <1>1 DEF Turns, Passed
  <2> QED BY <1>2, <1>3, <2>1, <2>2
<1>4. CASE Match(r, s)
  <2> DEFINE q == [p EXCEPT !.own = Put(p.own, s, row)]
  <2>1. Go(r, q)
    BY <1>1, <1>4 DEF Update, Match
  <2>2. Put(p.own, s, row) \in Writes
    BY <1>1, <1>4, PutWrites DEF Passed
  <2>3. /\ q \in Requests /\ Moved(q, p) /\ q.view = p.view /\ q.todo = p.todo /\ q.at = p.at
        /\ q.equity = p.equity /\ q.snap = p.snap /\ q.own = Put(p.own, s, row)
    BY <2>2 DEF Passed, Requests, Moved
  <2> HIDE DEF q
  <2>4. Turns(r, q)
    BY <1>1, <2>1, <2>3 DEF Turns
  <2>5. /\ DOMAIN q.own = DOMAIN p.own \cup {s} /\ q.own[s] = row
        /\ \A x \in DOMAIN p.own : x # s => q.own[x] = p.own[x]
    <3>1. PICK f, g : f = p.own /\ g = Put(f, s, row)
      OBVIOUS
    <3>2. /\ DOMAIN g = DOMAIN f \cup {s} /\ g[s] = row
          /\ \A x \in DOMAIN f : x # s => g[x] = f[x]
      BY <3>1 DEF Put
    <3>3. q.own = g
      BY <2>3, <3>1
    <3> QED BY <3>1, <3>2, <3>3
  <2>6. Rewritten(p, s, row, q)
    BY <2>3, <2>5 DEF Rewritten
  <2> QED BY <1>2, <1>4, <2>4, <2>6
<1> QED BY <1>3, <1>4

\* What is seen of a row that is written, and of the others.
LEMMA SeenPut ==
  ASSUME rows \in Sheets, NEW p, NEW s, NEW row, NEW q, p.own \in Writes, q.own \in Writes,
         s \in DOMAIN SeenBy(p), row # Null,
         DOMAIN q.own = DOMAIN p.own \cup {s}, q.own[s] = row,
         \A x \in DOMAIN p.own : x # s => q.own[x] = p.own[x]
  PROVE  /\ DOMAIN SeenBy(q) = DOMAIN SeenBy(p)
         /\ SeenBy(q)[s] = row
         /\ \A x \in DOMAIN SeenBy(p) : x # s => SeenBy(q)[x] = SeenBy(p)[x]
<1>1. /\ \A x : x \in DOMAIN SeenBy(p) <=> /\ x \in DOMAIN rows \cup DOMAIN p.own
                                           /\ x \in DOMAIN p.own => p.own[x] # Null
      /\ \A x \in DOMAIN SeenBy(p) : SeenBy(p)[x] = IF x \in DOMAIN p.own THEN p.own[x] ELSE rows[x]
  BY SeenIs
<1>2. /\ \A x : x \in DOMAIN SeenBy(q) <=> /\ x \in DOMAIN rows \cup DOMAIN q.own
                                           /\ x \in DOMAIN q.own => q.own[x] # Null
      /\ \A x \in DOMAIN SeenBy(q) : SeenBy(q)[x] = IF x \in DOMAIN q.own THEN q.own[x] ELSE rows[x]
  BY SeenIs
<1>3. \A x : x \in DOMAIN SeenBy(q) <=> x \in DOMAIN SeenBy(p)
  BY <1>1, <1>2
<1> QED BY <1>1, <1>2, <1>3

\* It keeps the invariant, if the row may be written.
LEMMA UpdateKeeps ==
  ASSUME EntryInv, NEW r \in Slots, NEW s \in Symbols, NEW p, Passed(r, s, p), NEW row,
         Match(r, s) => Follows(r, s, row),
         Update(r, s, p, row), UNCHANGED <<market, rows, latest, used, history>>
  PROVE  EntryInv'
<1>1. /\ used \subseteq Keys /\ Placed(req[r]) /\ OwnGood(req[r]) /\ ViewGood(req[r]) /\ Keyed(req[r])
      /\ req[r].own \in Writes /\ rows \in Sheets /\ RowsGood
  BY RequestIs
<1>2. /\ Holder(s, r) = {}
      /\ \/ Go(r, Idle)
         \/ ~ Match(r, s) /\ Turns(r, p)
         \/ Match(r, s) /\ \E q : Turns(r, q) /\ Rewritten(p, s, row, q)
  BY UpdateIs DEF Follows
<1>3. \A x \in req[r].todo : x \in DOMAIN req[r].view
  BY <1>1 DEF Placed
<1>4. CASE Go(r, Idle)
  BY <1>1, <1>4, EndKeeps
<1>5. CASE ~ Match(r, s) /\ Turns(r, p)
  <2>1. SeenBy(p) = SeenBy(req[r])
    BY SeenSame DEF Passed
  <2>2. s \in DOMAIN req[r].own => req[r].own[s] = Null
    <3>1. s \in DOMAIN req[r].own /\ req[r].own[s] # Null => Match(r, s)
      BY <1>1, SeenIs DEF OwnGood, OwnRow, Match
    <3> QED BY <1>5, <3>1
  <2>3. OwnGood(p)
    <3>1. ASSUME NEW x \in DOMAIN req[r].own, req[r].own[x] # Null
          PROVE  /\ Early(req[r], x) => Early(p, x)
                 /\ x \in DOMAIN p.view /\ p.view[x].id = req[r].own[x].id
      BY <3>1, <1>1, <2>2 DEF Early, Passed, OwnGood, OwnRow
    <3> QED BY <1>1, <3>1, OwnStays DEF Passed, Moved
  <2>4. Placed(p)
    BY <1>1 DEF Placed, Passed, Moved
  <2>5. ViewGood(p)
    BY <1>1, <1>5, <2>1 DEF ViewGood, Passed, Match
  <2>6. Joins(r, p)
    BY DEF Joins, Passed
  <2>7. /\ \A x \in DOMAIN p.view : p.view[x].id \in used'
        /\ \A x \in DOMAIN p.own : p.own[x] # Null => p.own[x].id \in used'
    BY <1>1 DEF Keyed, Passed
  <2> QED BY <1>5, <2>3, <2>4, <2>5, <2>6, <2>7, TurnKeeps DEF Good
<1>6. CASE Match(r, s) /\ \E q : Turns(r, q) /\ Rewritten(p, s, row, q)
  <2>1. PICK q : Turns(r, q) /\ Rewritten(p, s, row, q)
    BY <1>6
  <2>2. /\ Follows(r, s, row) /\ row # Null /\ s \in DOMAIN SeenBy(req[r])
        /\ SeenBy(req[r])[s].id = req[r].view[s].id
        /\ q.own \in Writes
    BY <1>6, <2>1, PositionIs DEF Follows, Match, Rewritten, Requests
  <2>3. /\ DOMAIN q.own = DOMAIN req[r].own \cup {s} /\ q.own[s] = row
        /\ \A x \in DOMAIN req[r].own : x # s => q.own[x] = req[r].own[x]
    BY <2>1 DEF Rewritten, Passed
  <2>4. /\ DOMAIN SeenBy(q) = DOMAIN SeenBy(req[r])
        /\ SeenBy(q)[s] = row
        /\ \A x \in DOMAIN SeenBy(req[r]) : x # s => SeenBy(q)[x] = SeenBy(req[r])[x]
    BY <1>1, <2>2, <2>3, SeenPut
  <2>5. /\ Moved(q, req[r]) /\ q.view = req[r].view /\ q.todo = req[r].todo \ {s}
        /\ s \in req[r].todo
        /\ \/ req[r].at = "write" /\ s = Min(req[r].todo) /\ q.at = "price"
           \/ req[r].at = "flush" /\ q.at = "flush"
    BY <2>1 DEF Rewritten, Passed, Moved
  <2>6. /\ s \in DOMAIN rows \cup DOMAIN req[r].own
        /\ s \in DOMAIN req[r].own => req[r].own[s] # Null /\ SeenBy(req[r])[s] = req[r].own[s]
        /\ s \in DOMAIN req[r].own => OwnRow(req[r], s)
        /\ s \notin DOMAIN req[r].own => s \in DOMAIN rows /\ SeenBy(req[r])[s] = rows[s]
    BY <2>2, SeenGood
  <2>7. OwnRow(q, s)
    <3>1. CASE s \in DOMAIN req[r].own
      BY <3>1, <2>2, <2>3, <2>5, <2>6, <1>3 DEF OwnRow, Follows, Early, Moved
    <3>2. CASE s \notin DOMAIN req[r].own
      <4>1. ~ (q.kind = "upsert" /\ s = q.symbol)
        BY <3>2, <2>5, <1>1 DEF Placed, Moved
      <4> QED BY <3>2, <4>1, <2>2, <2>3, <2>5, <2>6, <1>3 DEF OwnRow, Follows, Early
    <3> QED BY <3>1, <3>2
  <2>8. OwnGood(q)
    <3>1. ASSUME NEW x \in DOMAIN req[r].own, x # s
          PROVE  IF q.own[x] = Null THEN q.kind = "delete" /\ x = q.symbol ELSE OwnRow(q, x)
      BY <3>1, <1>1, <2>3, <2>5 DEF OwnGood, OwnRow, Early, Moved
    <3> QED BY <2>2, <2>3, <2>7, <3>1 DEF OwnGood
  <2>9. Placed(q)
    BY <1>1, <2>3, <2>5 DEF Placed, Moved
  <2>10. ViewGood(q)
    <3>1. ASSUME NEW x \in DOMAIN q.view,
                 q.view[x].value # Null, x \in DOMAIN SeenBy(q), SeenBy(q)[x].id = q.view[x].id
          PROVE  SeenBy(q)[x].value # Null
      <4>1. CASE x # s
        BY <3>1, <4>1, <1>1, <2>4, <2>5 DEF ViewGood
      <4>2. CASE x = s
        BY <3>1, <4>2, <1>1, <2>2, <2>4, <2>5 DEF ViewGood, Follows
      <4> QED BY <4>1, <4>2
    <3>2. \A x \in DOMAIN q.view :
             /\ Grounded(x, q.view[x])
             /\ q.at = "flush" => (q.view[x].value = Null => q.view[x].weight = Null)
      BY <1>1, <2>5 DEF ViewGood
    <3> QED BY <3>1, <3>2, <2>5 DEF ViewGood
  <2>11. Joins(r, q)
    BY <1>2, <2>2, <2>3, <2>5, <2>6 DEF Joins, Follows
  <2>12. /\ \A x \in DOMAIN q.view : q.view[x].id \in used'
         /\ \A x \in DOMAIN q.own : q.own[x] # Null => q.own[x].id \in used'
    <3>1. \A x \in DOMAIN q.view : q.view[x].id \in used'
      BY <1>1, <2>1, <2>5 DEF Keyed, Turns
    <3>2. row.id \in used
      BY <1>1, <1>3, <2>2, <2>5 DEF Follows, Keyed
    <3> QED BY <3>1, <3>2, <1>1, <2>3 DEF Keyed
  <2> QED BY <2>1, <2>8, <2>9, <2>10, <2>11, <2>12, TurnKeeps DEF Good
<1> QED BY <1>2, <1>4, <1>5, <1>6

\* What a repriced position is written with.
LEMMA WriteUpdates ==
  ASSUME EntryInv, NEW r \in Slots, Write(r)
  PROVE  \E s, p, row :
           /\ s \in Symbols /\ s = Min(req[r].todo) /\ req[r].at = "write"
           /\ Passed(r, s, p) /\ Update(r, s, p, row) /\ UNCHANGED <<market, rows, latest, used, history>>
           /\ Match(r, s) => Follows(r, s, row)
           /\ row = [SeenBy(req[r])[s] EXCEPT !.price = req[r].view[s].price, !.value = req[r].view[s].value]
<1> DEFINE s == Min(req[r].todo)
           p == [req[r] EXCEPT !.at = "price", !.todo = req[r].todo \ {s}]
           row == [SeenBy(req[r])[s] EXCEPT !.price = req[r].view[s].price, !.value = req[r].view[s].value]
<1>1. /\ req[r] \in Requests /\ req[r].view \in Sheets /\ Placed(req[r]) /\ ViewGood(req[r])
      /\ req[r].todo \subseteq Symbols /\ req[r].todo \subseteq Nat
  BY RequestIs
<1>2. req[r].at = "write" /\ UNCHANGED <<market, rows, latest, used, history>> /\ req[r].todo # {}
      /\ req[r].view[s].value # Null
  BY <1>1 DEF Write, ViewGood
<1>3. s \in req[r].todo /\ s \in DOMAIN req[r].view /\ s \in Symbols
  <2> HIDE DEF p, row
  <2> QED BY <1>1, <1>2, MinIsLeast DEF Placed
<1>4. Update(r, s, p, row)
  <2>1. Seen(r) = SeenBy(req[r])
    BY RequestIs, ListIs
  <2>2. Update(r, s, [req[r] EXCEPT !.at = "price", !.todo = @ \ {s}],
              [Seen(r)[s] EXCEPT !.price = req[r].view[s].price, !.value = req[r].view[s].value])
    BY Zenon DEF Write
  <2> QED BY <2>1, <2>2
<1> HIDE DEF s
<1>5. Passed(r, s, p)
  BY <1>1, <1>2, <1>3 DEF Passed, Requests, Places, Moved, s
<1>6. ASSUME Match(r, s) PROVE Follows(r, s, row)
  <2> DEFINE a == SeenBy(req[r])[s]
             b == req[r].view[s]
  <2>1. a \in Positions /\ Grounded(s, a)
    BY <1>6, SeenGood DEF Match
  <2>2. b \in Positions /\ Grounded(s, b) /\ b.value # Null
    BY <1>1, <1>2, <1>3, SheetIs DEF ViewGood
  <2>3. row = [a EXCEPT !.price = b.price, !.value = b.value]
    OBVIOUS
  <2> HIDE DEF a, b, row
  <2>4. /\ row \in Positions /\ row.id = a.id /\ row.qty = a.qty /\ row.price = b.price /\ row.value = b.value
        /\ row.weight = a.weight
    BY <2>1, <2>2, <2>3 DEF Positions
  <2>5. Grounded(s, row)
    BY <2>1, <2>2, <2>4 DEF Grounded
  <2> QED BY <2>2, <2>4, <2>5 DEF Follows, a
<1> HIDE DEF p
<1>7. row = [SeenBy(req[r])[s] EXCEPT !.price = req[r].view[s].price, !.value = req[r].view[s].value]
  OBVIOUS
<1>8. s = Min(req[r].todo)
  BY DEF s
<1> HIDE DEF row
<1> QED BY <1>2, <1>3, <1>4, <1>5, <1>6, <1>7, <1>8

\* Write keeps the invariant.
LEMMA WriteKeeps ==
  ASSUME EntryInv, NEW r \in Slots, Write(r)
  PROVE  EntryInv'
BY WriteUpdates, UpdateKeeps

\* The row that the flush writes next is one that is left.
LEMMA FirstIs ==
  ASSUME EntryInv, NEW r \in Slots, req[r].todo # {}
  PROVE  FirstByKey(r) \in req[r].todo
<1> DEFINE ids == {req[r].view[s].id : s \in req[r].todo}
<1>1. \A s \in req[r].todo : req[r].view[s].id \in Nat
  <2>1. req[r].view \in Sheets /\ req[r].todo \subseteq DOMAIN req[r].view
    BY RequestIs DEF Placed
  <2>2. \A s \in DOMAIN req[r].view : req[r].view[s] \in Positions
    BY <2>1, SheetIs
  <2>3. \A s \in DOMAIN req[r].view : req[r].view[s].id \in Nat
    BY <2>2, PositionIs DEF Keys
  <2> QED BY <2>1, <2>3
<1>2. ids \in SUBSET Nat /\ ids # {}
  BY <1>1
<1>3. Min(ids) \in ids /\ \A y \in ids : Min(ids) <= y
  <2> HIDE DEF ids
  <2> QED BY <1>2, MinIsLeast
<1>4. PICK s \in req[r].todo : req[r].view[s].id = Min(ids)
  <2>1. PICK m : m = Min(ids)
    OBVIOUS
  <2>2. m \in ids
    BY <1>3, <2>1
  <2> QED BY <2>1, <2>2
<1>5. \A o \in req[r].todo : req[r].view[s].id <= req[r].view[o].id
  <2>1. PICK m : m = Min(ids)
    OBVIOUS
  <2>2. \A y \in ids : m <= y
    BY <1>3, <2>1
  <2> QED BY <1>4, <2>1, <2>2
<1> QED BY <1>5 DEF FirstByKey

\* What the flush writes.
LEMMA FlushUpdates ==
  ASSUME EntryInv, NEW r \in Slots, Flush(r)
  PROVE  \E s, p, row :
           /\ s \in Symbols /\ s \in req[r].todo /\ req[r].at = "flush"
           /\ Passed(r, s, p) /\ Update(r, s, p, row) /\ UNCHANGED <<market, rows, latest, used, history>>
           /\ Match(r, s) => Follows(r, s, row)
           /\ row = [SeenBy(req[r])[s] EXCEPT !.weight = req[r].view[s].weight]
<1> DEFINE s == FirstByKey(r)
           p == [req[r] EXCEPT !.todo = req[r].todo \ {s}]
           row == [SeenBy(req[r])[s] EXCEPT !.weight = req[r].view[s].weight]
<1>1. /\ req[r] \in Requests /\ req[r].view \in Sheets /\ Placed(req[r]) /\ ViewGood(req[r])
      /\ req[r].todo \subseteq Symbols
  BY RequestIs
<1>2. req[r].at = "flush" /\ UNCHANGED <<market, rows, latest, used, history>> /\ req[r].todo # {}
  BY DEF Flush
<1>3. s \in req[r].todo /\ s \in DOMAIN req[r].view /\ s \in Symbols
  BY <1>1, <1>2, FirstIs DEF Placed
<1>4. Update(r, s, p, row)
  <2>1. Seen(r) = SeenBy(req[r])
    BY RequestIs, ListIs
  <2>2. Update(r, s, [req[r] EXCEPT !.todo = @ \ {s}], [Seen(r)[s] EXCEPT !.weight = req[r].view[s].weight])
    BY Zenon DEF Flush
  <2> QED BY <2>1, <2>2
<1> HIDE DEF s
<1>5. Passed(r, s, p)
  BY <1>1, <1>2, <1>3 DEF Passed, Requests, Moved
<1>6. ASSUME Match(r, s) PROVE Follows(r, s, row)
  <2> DEFINE a == SeenBy(req[r])[s]
             b == req[r].view[s]
  <2>1. a \in Positions /\ Grounded(s, a) /\ a.id = b.id
    BY <1>6, SeenGood DEF Match
  <2>2. b \in Positions /\ Grounded(s, b) /\ (b.value = Null => b.weight = Null)
    BY <1>1, <1>2, <1>3, SheetIs DEF ViewGood
  <2>3. row = [a EXCEPT !.weight = b.weight]
    OBVIOUS
  <2>4. b.value # Null => a.value # Null
    BY <1>1, <1>2, <1>3, <1>6 DEF ViewGood, Match
  <2> HIDE DEF a, b, row
  <2>5. /\ row \in Positions /\ row.id = a.id /\ row.qty = a.qty /\ row.price = a.price /\ row.value = a.value
        /\ row.weight = b.weight
    BY <2>1, <2>2, <2>3 DEF Positions
  <2>6. Grounded(s, row)
    BY <2>1, <2>2, <2>5 DEF Grounded
  <2> QED BY <1>2, <2>2, <2>4, <2>5, <2>6 DEF Follows, a
<1> HIDE DEF p
<1>7. row = [SeenBy(req[r])[s] EXCEPT !.weight = req[r].view[s].weight]
  OBVIOUS
<1> HIDE DEF row
<1> QED BY <1>2, <1>3, <1>4, <1>5, <1>6, <1>7

\* Flush keeps the invariant.
LEMMA FlushKeeps ==
  ASSUME EntryInv, NEW r \in Slots, Flush(r)
  PROVE  EntryInv'
BY FlushUpdates, UpdateKeeps

\* q holds what r has read, or reads now, with other weights at most.
Lists(r, q) ==
  \/ q.view = req[r].view /\ q.at # "flush"
  \/ /\ DOMAIN q.view = DOMAIN Listed(r)
     /\ \A s \in DOMAIN q.view :
          /\ q.view[s].id = Listed(r)[s].id /\ q.view[s].value = Listed(r)[s].value
          /\ Grounded(s, q.view[s])
          /\ q.at = "flush" => (q.view[s].value = Null => q.view[s].weight = Null)

\* A statement after the repricing that writes nothing keeps the invariant.
LEMMA ReadKeeps ==
  ASSUME EntryInv, NEW r \in Slots, NEW q, Turns(r, q), Moved(q, req[r]), q.own = req[r].own,
         req[r].at \in {"price", "total", "weigh", "flush", "snapshot"},
         req[r].at = "price" => req[r].todo = {},
         q.at \in {"total", "weigh", "flush", "snapshot", "commit"},
         Lists(r, q), IF q.at = "flush" THEN q.todo \subseteq DOMAIN q.view ELSE q.todo = {}
  PROVE  EntryInv'
<1>1. /\ Placed(req[r]) /\ OwnGood(req[r]) /\ ViewGood(req[r]) /\ Keyed(req[r])
      /\ req[r].own \in Writes /\ rows \in Sheets
  BY RequestIs
<1>2. SeenBy(q) = SeenBy(req[r])
  BY SeenSame
<1>3. Placed(q)
  BY <1>1 DEF Placed, Moved
<1>4. OwnGood(q)
  <2>1. ASSUME NEW x \in DOMAIN req[r].own, req[r].own[x] # Null
        PROVE  ~ Early(req[r], x) /\ x \in DOMAIN q.view /\ q.view[x].id = req[r].own[x].id
    <3>1. x \in DOMAIN req[r].view /\ req[r].view[x].id = req[r].own[x].id
      BY <2>1, <1>1 DEF OwnGood, OwnRow
    <3>2. x \in DOMAIN Listed(r) /\ Listed(r)[x].id = req[r].own[x].id
      BY <2>1, ListedGood
    <3> QED BY <3>1, <3>2 DEF Lists, Early
  <2> QED BY <1>1, <2>1, OwnStays DEF Moved
<1>5. ViewGood(q)
  <2>1. CASE q.view = req[r].view /\ q.at # "flush"
    BY <1>1, <1>2, <2>1 DEF ViewGood
  <2>2. CASE ~ (q.view = req[r].view /\ q.at # "flush")
    BY <1>2, <2>2, ListedGood DEF ViewGood, Lists
  <2> QED BY <2>1, <2>2
<1>6. Joins(r, q)
  <2>1. ASSUME NEW s \in DOMAIN q.view
        PROVE  \/ s \in DOMAIN rows \cup DOMAIN q.own
               \/ s \in DOMAIN req[r].view /\ req[r].view[s].id = q.view[s].id
    BY <2>1, ListedGood DEF Lists
  <2> QED BY <2>1 DEF Joins
<1>7. /\ \A x \in DOMAIN q.view : q.view[x].id \in used'
      /\ \A x \in DOMAIN q.own : q.own[x] # Null => q.own[x].id \in used'
  <2>1. \A x \in DOMAIN q.view : q.view[x].id \in used
    BY <1>1, ListedGood DEF Lists, Keyed
  <2> QED BY <2>1, <1>1 DEF Keyed, Turns
<1> QED BY <1>3, <1>4, <1>5, <1>6, <1>7, TurnKeeps DEF Good

\* The end of the repricing, and of the flush.
LEMMA DoneIs ==
  ASSUME EntryInv, NEW r \in Slots, Repriced(r) \/ Flushed(r)
  PROVE  \E q : /\ Turns(r, q) /\ Moved(q, req[r]) /\ q.own = req[r].own /\ q.view = req[r].view
                /\ req[r].todo = {} /\ q.todo = {} /\ q.equity = req[r].equity
                /\ \/ req[r].at = "price" /\ q.at = "total"
                   \/ req[r].at = "flush" /\ q.at = "snapshot"
<1> DEFINE at == IF req[r].at = "price" THEN "total" ELSE "snapshot"
           q == [req[r] EXCEPT !.at = at]
<1>1. req[r] \in Requests /\ used \subseteq Keys
  BY RequestIs
<1>2. UNCHANGED <<market, rows, latest, used, history>> /\ Go(r, q) /\ req[r].todo = {}
      /\ req[r].at \in {"price", "flush"}
  BY DEF Repriced, Flushed
<1>3. /\ q \in Requests /\ Moved(q, req[r]) /\ q.own = req[r].own /\ q.view = req[r].view
      /\ q.todo = req[r].todo /\ q.equity = req[r].equity /\ q.at = at
  BY <1>1 DEF Requests, Places, Moved
<1> HIDE DEF q
<1>4. Turns(r, q)
  BY <1>1, <1>2, <1>3 DEF Turns
<1> QED BY <1>2, <1>3, <1>4

\* Repriced and Flushed keep the invariant.
LEMMA DoneKeeps ==
  ASSUME EntryInv, NEW r \in Slots, Repriced(r) \/ Flushed(r)
  PROVE  EntryInv'
<1>1. PICK q : /\ Turns(r, q) /\ Moved(q, req[r]) /\ q.own = req[r].own /\ q.view = req[r].view
               /\ req[r].todo = {} /\ q.todo = {}
               /\ \/ req[r].at = "price" /\ q.at = "total"
                  \/ req[r].at = "flush" /\ q.at = "snapshot"
  BY DoneIs
<1>2. Lists(r, q)
  BY <1>1 DEF Lists
<1> QED BY <1>1, <1>2, ReadKeeps

\* The values of a sheet, and their sum.
ValuesOf(view) == [s \in DOMAIN view |-> ValueOf(view[s])]

\* A total is a sum of naturals.
LEMMA TotalIs ==
  ASSUME NEW view \in Sheets
  PROVE  /\ IsFiniteSet(DOMAIN view)
         /\ Total(view) = SumOver(ValuesOf(view), DOMAIN view)
         /\ Total(view) \in Nat
         /\ \A s \in DOMAIN view : ValuesOf(view)[s] = ValueOf(view[s]) /\ ValuesOf(view)[s] \in Nat
         /\ \A s \in DOMAIN view : view[s].value # Null => view[s].value <= Total(view)
<1>1. IsFiniteSet(DOMAIN view) /\ \A s \in DOMAIN view : view[s] \in Positions
  BY SheetIs
<1>2. Total(view) = SumOver(ValuesOf(view), DOMAIN view)
  BY DEF Total, SumFunction, SumOver, ValuesOf
<1>3. \A s \in DOMAIN view : ValuesOf(view)[s] = ValueOf(view[s])
  BY DEF ValuesOf
<1>4. \A s \in DOMAIN view : ValuesOf(view)[s] \in Nat
  BY <1>1, <1>3, PositionIs DEF ValueOf
<1>5. Total(view) \in Nat
  <2>1. /\ SumOver(ValuesOf(view), DOMAIN view) \in Int
        /\ SumOver(ValuesOf(view), DOMAIN view) >= 0
    BY <1>1, <1>4, SumTyped
  <2> QED BY <1>2, <2>1
<1>6. ASSUME NEW s \in DOMAIN view, view[s].value # Null PROVE view[s].value <= Total(view)
  <2>1. ValuesOf(view)[s] <= SumOver(ValuesOf(view), DOMAIN view)
    BY <1>1, <1>4, SumAtLeast
  <2> QED BY <1>2, <1>3, <1>6, <2>1 DEF ValueOf
<1> QED BY <1>1, <1>2, <1>3, <1>4, <1>5, <1>6

\* What a request does with the total of what it lists.
LEMMA TotalledIs ==
  ASSUME EntryInv, NEW r \in Slots, Totalled(r)
  PROVE  \E q : /\ Turns(r, q) /\ Moved(q, req[r]) /\ q.own = req[r].own /\ q.view = Listed(r)
                /\ req[r].at = "total" /\ q.todo = req[r].todo /\ q.equity = Total(Listed(r)) + Cash
                /\ q.at = IF q.equity > 0 THEN "weigh" ELSE "snapshot"
<1> DEFINE view == Listed(r)
           equity == Total(view) + Cash
           at == IF equity > 0 THEN "weigh" ELSE "snapshot"
           q == [req[r] EXCEPT !.at = at, !.view = view, !.equity = equity]
<1>1. req[r] \in Requests /\ used \subseteq Keys
  BY RequestIs
<1>2. UNCHANGED <<market, rows, latest, used, history>> /\ Go(r, q) /\ req[r].at = "total"
  BY DEF Totalled
<1>3. view \in Sheets
  BY ListedGood
<1>4. equity \in Nat
  <2>1. Total(view) \in Nat
    <3> HIDE DEF view
    <3> QED BY <1>3, TotalIs
  <2> QED BY <2>1, ConstantsTyped
<1>5. at \in Places /\ at = IF equity > 0 THEN "weigh" ELSE "snapshot"
  BY DEF Places
<1> HIDE DEF view, equity, at
<1>6. /\ q \in Requests /\ Moved(q, req[r]) /\ q.own = req[r].own /\ q.view = view
      /\ q.todo = req[r].todo /\ q.equity = equity /\ q.at = at
  BY <1>1, <1>3, <1>4, <1>5 DEF Requests, Moved
<1> HIDE DEF q
<1>7. Turns(r, q)
  BY <1>1, <1>2, <1>6 DEF Turns
<1>8. q.equity = Total(Listed(r)) + Cash /\ q.view = Listed(r)
  BY <1>6 DEF equity, view
<1>9. q.at = IF q.equity > 0 THEN "weigh" ELSE "snapshot"
  BY <1>5, <1>6
<1> QED BY <1>2, <1>6, <1>7, <1>8, <1>9

\* Totalled keeps the invariant.
LEMMA TotalledKeeps ==
  ASSUME EntryInv, NEW r \in Slots, Totalled(r)
  PROVE  EntryInv'
<1>1. PICK q : /\ Turns(r, q) /\ Moved(q, req[r]) /\ q.own = req[r].own /\ q.view = Listed(r)
               /\ req[r].at = "total" /\ q.todo = req[r].todo /\ q.equity = Total(Listed(r)) + Cash
               /\ q.at = IF q.equity > 0 THEN "weigh" ELSE "snapshot"
  BY TotalledIs
<1>2. q.at \in {"weigh", "snapshot"} /\ q.todo = {}
  BY <1>1, RequestIs DEF Placed
<1>3. Lists(r, q)
  BY <1>1, <1>2, ListedGood DEF Lists
<1> QED BY <1>1, <1>2, <1>3, ReadKeeps

\* Of a position there is a weight where there is a value.
LEMMA WeightIs ==
  ASSUME NEW row \in Positions, NEW equity \in Nat
  PROVE  /\ Weight(row, equity) \in {Null} \cup [of : Nat, equity : Nat]
         /\ row.value = Null => Weight(row, equity) = Null
BY PositionIs DEF Weight

\* q holds the list of r with its weights, to be written.
Weighed(r, q) ==
  /\ req[r].at = "weigh" /\ q.at = "flush" /\ q.todo = DOMAIN Listed(r)
  /\ q.equity = req[r].equity
  /\ DOMAIN q.view = DOMAIN Listed(r)
  /\ \A s \in DOMAIN q.view :
       /\ q.view[s] = [Listed(r)[s] EXCEPT !.weight = Weight(Listed(r)[s], req[r].equity)]
       /\ q.view[s].weight = Weight(Listed(r)[s], req[r].equity)
       /\ q.view[s].id = Listed(r)[s].id /\ q.view[s].value = Listed(r)[s].value
       /\ q.view[s].price = Listed(r)[s].price

\* What a request weighs.
LEMMA WeighIs ==
  ASSUME EntryInv, NEW r \in Slots, Weigh(r)
  PROVE  \E q : Turns(r, q) /\ Moved(q, req[r]) /\ q.own = req[r].own /\ Weighed(r, q)
<1> DEFINE list == Listed(r)
           e == req[r].equity
           view == [s \in DOMAIN list |-> [list[s] EXCEPT !.weight = Weight(list[s], e)]]
           q == [req[r] EXCEPT !.at = "flush", !.todo = DOMAIN list, !.view = view]
<1>1. req[r] \in Requests /\ used \subseteq Keys /\ e \in Nat
  BY RequestIs DEF Requests
<1>2. UNCHANGED <<market, rows, latest, used, history>> /\ Go(r, q) /\ req[r].at = "weigh"
  BY DEF Weigh
<1>3. list \in Sheets /\ DOMAIN list \subseteq Symbols /\ \A s \in DOMAIN list : list[s] \in Positions
  BY ListedGood
<1>4. /\ DOMAIN view = DOMAIN list
      /\ \A s \in DOMAIN view : view[s] = [list[s] EXCEPT !.weight = Weight(list[s], e)]
      /\ view = [s \in DOMAIN view |-> view[s]]
  OBVIOUS
<1> HIDE DEF view
<1>5. ASSUME NEW s \in DOMAIN view
      PROVE  /\ view[s] \in Positions /\ view[s].weight = Weight(list[s], e)
             /\ view[s].id = list[s].id /\ view[s].value = list[s].value /\ view[s].price = list[s].price
  <2> HIDE DEF list, e
  <2>1. PICK b, w : b = list[s] /\ w = Weight(list[s], e)
    OBVIOUS
  <2>2. b \in Positions /\ w \in {Null} \cup [of : Nat, equity : Nat]
    BY <1>1, <1>3, <1>4, <1>5, <2>1, WeightIs
  <2>3. view[s] = [b EXCEPT !.weight = w]
    BY <1>4, <1>5, <2>1
  <2>4. /\ view[s] \in Positions /\ view[s].weight = w
        /\ view[s].id = b.id /\ view[s].value = b.value /\ view[s].price = b.price
    BY <2>2, <2>3 DEF Positions
  <2> QED BY <2>1, <2>4
<1>6. view \in Sheets
  BY <1>3, <1>4, <1>5, SheetOf
<1> HIDE DEF list
<1>7. /\ q \in Requests /\ Moved(q, req[r]) /\ q.own = req[r].own /\ q.view = view
      /\ q.todo = DOMAIN list /\ q.equity = e /\ q.at = "flush"
  BY <1>1, <1>3, <1>6 DEF Requests, Places, Moved
<1> HIDE DEF q
<1>8. Go(r, q)
  BY <1>2
<1>9. Turns(r, q)
  BY <1>1, <1>2, <1>7, <1>8 DEF Turns
<1>10. \A s \in DOMAIN q.view :
         /\ q.view[s] = [list[s] EXCEPT !.weight = Weight(list[s], e)]
         /\ q.view[s].weight = Weight(list[s], e)
         /\ q.view[s].id = list[s].id /\ q.view[s].value = list[s].value
         /\ q.view[s].price = list[s].price
  BY <1>4, <1>5, <1>7
<1>11. Weighed(r, q)
  BY <1>2, <1>4, <1>7, <1>10 DEF list, Weighed
<1> QED BY <1>7, <1>9, <1>11

\* Weigh keeps the invariant.
LEMMA WeighKeeps ==
  ASSUME EntryInv, NEW r \in Slots, Weigh(r)
  PROVE  EntryInv'
<1>1. PICK q : Turns(r, q) /\ Moved(q, req[r]) /\ q.own = req[r].own /\ Weighed(r, q)
  BY WeighIs
<1> USE DEF Weighed
<1>2. req[r].equity \in Nat
  BY RequestIs DEF Requests
<1>3. \A s \in DOMAIN q.view : q.view[s].value = Null => q.view[s].weight = Null
  <2> SUFFICES ASSUME NEW s \in DOMAIN q.view
               PROVE  q.view[s].value = Null => q.view[s].weight = Null
    OBVIOUS
  <2>1. PICK b, e : b = Listed(r)[s] /\ e = req[r].equity
    OBVIOUS
  <2>2. b \in Positions /\ e \in Nat
    BY <1>1, <1>2, <2>1, ListedGood
  <2>3. b.value = Null => Weight(b, e) = Null
    BY <2>2, WeightIs
  <2> QED BY <1>1, <2>1, <2>3
<1>4. ASSUME NEW s \in DOMAIN q.view PROVE Grounded(s, q.view[s])
  <2>1. Grounded(s, Listed(r)[s])
    BY <1>1, ListedGood
  <2> QED BY <1>1, <1>3, <2>1 DEF Grounded
<1>5. Lists(r, q)
  BY <1>1, <1>3, <1>4 DEF Lists
<1> QED BY <1>1, <1>5, ReadKeeps

\* The time of a snapshot is later than that of any.
LEMMA NowIs ==
  ASSUME Shaped
  PROVE  Now \in Nat /\ Now > latest.at
<1> DEFINE S == {latest.at} \cup {req[o].snap.at : o \in Slots}
<1>1. S \in SUBSET Nat /\ S # {} /\ latest.at \in S /\ latest.at \in Nat
  BY DEF Shaped, Requests, SnapshotRows
<1>2. IsFiniteSet(S)
  <2> DEFINE T == {req[o].snap.at : o \in Slots}
             f == [o \in Slots |-> req[o].snap.at]
  <2>1. f \in Surjection(Slots, T)
    BY DEF Surjection
  <2>2. IsFiniteSet(T)
    <3> HIDE DEF f, T
    <3> QED BY <2>1, ConstantsTyped, FS_Surjection
  <2> QED BY <2>2, FS_Singleton, FS_Union
<1>3. Now = 1 + Max(S)
  BY DEF Now
<1> HIDE DEF S
<1>4. Max(S) \in Nat /\ latest.at <= Max(S)
  BY <1>1, <1>2, MaxIsGreatest
<1> QED BY <1>1, <1>3, <1>4

\* The snapshot that a request takes.
LEMMA SnapshotIs ==
  ASSUME EntryInv, NEW r \in Slots, Snapshot(r)
  PROVE  \E q : /\ Turns(r, q) /\ Moved(q, req[r]) /\ q.own = req[r].own /\ q.view = Listed(r)
                /\ req[r].at = "snapshot" /\ q.at = "commit" /\ q.todo = req[r].todo
                /\ q.equity = req[r].equity
                /\ q.snap = [at |-> Now, equity |-> Total(Listed(r)) + Cash,
                             values |-> [s \in DOMAIN Listed(r) |-> Listed(r)[s].value]]
                /\ q.snap.at > latest.at /\ q.snap.equity = Total(Listed(r)) + Cash
                /\ q.snap.values = [s \in DOMAIN Listed(r) |-> Listed(r)[s].value]
<1> DEFINE view == Listed(r)
           equity == Total(view) + Cash
           values == [s \in DOMAIN view |-> view[s].value]
           n == Now
           snap == [at |-> n, equity |-> equity, values |-> values]
           q == [req[r] EXCEPT !.at = "commit", !.view = view, !.snap = snap]
<1>1. req[r] \in Requests /\ used \subseteq Keys /\ n \in Nat /\ n > latest.at
  BY RequestIs, NowIs
<1>2. UNCHANGED <<market, rows, latest, used, history>> /\ Go(r, q) /\ req[r].at = "snapshot"
  BY DEF Snapshot
<1>3. view \in Sheets /\ DOMAIN view \subseteq Symbols /\ \A s \in DOMAIN view : view[s] \in Positions
  BY ListedGood
<1>4. equity \in Nat
  <2>1. Total(view) \in Nat
    <3> HIDE DEF view
    <3> QED BY <1>3, TotalIs
  <2> QED BY <2>1, ConstantsTyped
<1>5. values \in Values
  <2> HIDE DEF view
  <2>1. \A s \in DOMAIN view : view[s].value \in Nat \cup {Null}
    BY <1>3, PositionIs
  <2>2. values \in [DOMAIN view -> Nat \cup {Null}]
    BY <2>1
  <2> HIDE DEF values
  <2> QED BY <1>3, <2>2 DEF Values
<1> HIDE DEF n, equity, values
<1>6. snap \in SnapshotRows /\ snap.at = n /\ snap.equity = equity /\ snap.values = values
  BY <1>1, <1>4, <1>5 DEF SnapshotRows
<1>7. snap = [at |-> n, equity |-> equity, values |-> values]
  OBVIOUS
<1> HIDE DEF snap, view
<1>8. /\ q \in Requests /\ Moved(q, req[r]) /\ q.own = req[r].own /\ q.view = view
      /\ q.todo = req[r].todo /\ q.equity = req[r].equity /\ q.at = "commit" /\ q.snap = snap
  BY <1>1, <1>3, <1>6 DEF Requests, Places, Moved
<1> HIDE DEF q
<1>9. Turns(r, q)
  BY <1>1, <1>2, <1>8 DEF Turns
<1>10. /\ q.snap.at > latest.at /\ q.snap.equity = Total(Listed(r)) + Cash
       /\ q.snap.values = [s \in DOMAIN Listed(r) |-> Listed(r)[s].value]
       /\ q.snap = [at |-> Now, equity |-> Total(Listed(r)) + Cash,
                    values |-> [s \in DOMAIN Listed(r) |-> Listed(r)[s].value]]
  BY <1>1, <1>6, <1>7, <1>8 DEF n, equity, values, view
<1>11. q.view = Listed(r)
  BY <1>8 DEF view
<1> QED BY <1>2, <1>8, <1>9, <1>10, <1>11

\* Snapshot keeps the invariant.
LEMMA SnapshotKeeps ==
  ASSUME EntryInv, NEW r \in Slots, Snapshot(r)
  PROVE  EntryInv'
<1>1. PICK q : /\ Turns(r, q) /\ Moved(q, req[r]) /\ q.own = req[r].own /\ q.view = Listed(r)
               /\ req[r].at = "snapshot" /\ q.at = "commit" /\ q.todo = req[r].todo
  BY SnapshotIs
<1>2. q.todo = {}
  BY <1>1, RequestIs DEF Placed
<1>3. Lists(r, q)
  BY <1>1, <1>2, ListedGood DEF Lists
<1> QED BY <1>1, <1>2, <1>3, ReadKeeps

\* Deadlock keeps the invariant.
LEMMA DeadlockKeeps ==
  ASSUME EntryInv, NEW r \in Slots, Deadlock(r)
  PROVE  EntryInv'
<1>1. Go(r, Idle) /\ UNCHANGED <<market, rows, latest, used, history>> /\ used \subseteq Keys
  BY RequestIs DEF Deadlock, Fail
<1> QED BY <1>1, EndKeeps

\* StorePrice keeps the invariant: a price that is stored stays.
LEMMA StorePriceKeeps ==
  ASSUME EntryInv, NEW s \in Symbols, NEW p \in Prices, StorePrice(s, p)
  PROVE  EntryInv'
<1>1. UNCHANGED <<rows, latest, used, req, history>> /\ market' = [market EXCEPT ![s] = p]
  BY DEF StorePrice
<1>2. p # Null /\ market \in [Symbols -> Prices \cup {Null}]
  BY ConstantsTyped DEF EntryInv, Shaped
<1>3. \A x : market'[x] = Null => market[x] = Null \/ x \notin Symbols
  BY <1>1, <1>2
<1>4. \A x \in Symbols : \A row : Grounded(x, row) => Grounded(x, row)'
  BY <1>3 DEF Grounded
<1>5. Shaped'
  BY <1>1, <1>2 DEF EntryInv, Shaped
<1>6. RowsGood'
  <2>1. DOMAIN rows \subseteq Symbols /\ RowsGood
    BY SheetIs DEF EntryInv, Shaped
  <2> QED BY <1>1, <1>4, <2>1 DEF RowsGood
<1>7. ASSUME NEW o \in Slots PROVE Good(req[o])' /\ Keyed(req[o])'
  <2>1. /\ Placed(req[o]) /\ OwnGood(req[o]) /\ ViewGood(req[o]) /\ Keyed(req[o])
        /\ req[o].view \in Sheets /\ req[o].own \in Writes
    BY RequestIs
  <2>2. DOMAIN req[o].view \subseteq Symbols /\ DOMAIN req[o].own \subseteq Symbols
    BY <2>1, SheetIs, WriteIs
  <2>3. SeenBy(req[o])' = SeenBy(req[o])
    BY <1>1, Zenon DEF SeenBy
  <2>4. Placed(req[o])' /\ Keyed(req[o])'
    BY <1>1, <2>1 DEF Placed, Keyed
  <2>5. OwnGood(req[o])'
    BY <1>1, <1>4, <2>1, <2>2 DEF OwnGood, OwnRow, Early
  <2>6. ViewGood(req[o])'
    BY <1>1, <1>4, <2>1, <2>2, <2>3 DEF ViewGood
  <2> QED BY <2>4, <2>5, <2>6 DEF Good
<1>8. Exclusive'
  BY <1>1 DEF EntryInv, Exclusive
<1> QED BY <1>5, <1>6, <1>7, <1>8 DEF EntryInv

\* What is committed, row by row.
LEMMA CommitIs ==
  ASSUME EntryInv, NEW r \in Slots, Commit(r)
  PROVE  /\ req'[r] = Idle /\ (\A o \in Slots : o # r => req'[o] = req[o])
         /\ Shaped' /\ UNCHANGED <<market, used>>
         /\ rows' = SeenBy(req[r])
         /\ \A s : s \in DOMAIN rows' <=> /\ s \in DOMAIN rows \cup DOMAIN req[r].own
                                          /\ s \in DOMAIN req[r].own => req[r].own[s] # Null
         /\ \A s \in DOMAIN rows' : rows'[s] = IF s \in DOMAIN req[r].own THEN req[r].own[s] ELSE rows[s]
         /\ \A s \in DOMAIN req[r].own : req[r].own[s] # Null =>
              /\ OwnRow(req[r], s) /\ req[r].own[s].id \in used
              /\ req[r].own[s].value = Null => req[r].own[s].weight = Null
              /\ s \in DOMAIN rows /\ rows[s].value # Null => req[r].own[s].value # Null
<1>1. /\ req[r] \in Requests /\ Shaped /\ OwnGood(req[r]) /\ Keyed(req[r])
      /\ rows \in Sheets /\ req[r].own \in Writes /\ req[r].snap \in SnapshotRows
  BY RequestIs DEF Requests
<1>2. req[r].at = "commit" /\ UNCHANGED <<market, used>> /\ Go(r, Idle) /\ rows' = Seen(r)
      /\ latest' \in {latest, req[r].snap}
  BY DEF Commit
<1>3. rows' = SeenBy(req[r])
  BY <1>1, <1>2, ListIs
<1>4. /\ SeenBy(req[r]) \in Sheets
      /\ \A s : s \in DOMAIN rows' <=> /\ s \in DOMAIN rows \cup DOMAIN req[r].own
                                       /\ s \in DOMAIN req[r].own => req[r].own[s] # Null
      /\ \A s \in DOMAIN rows' : rows'[s] = IF s \in DOMAIN req[r].own THEN req[r].own[s] ELSE rows[s]
  BY <1>1, <1>3, SeenIs
<1>5. req \in [Slots -> Requests] /\ req' = [req EXCEPT ![r] = Idle] /\ Idle \in Requests
  BY <1>1, <1>2, IdleGood DEF Go, Shaped
<1>6. req' \in [Slots -> Requests] /\ req'[r] = Idle /\ \A o \in Slots : o # r => req'[o] = req[o]
  BY <1>5
<1>7. DOMAIN history' = DOMAIN history
  BY DEF Commit
<1>8. Shaped'
  BY <1>1, <1>2, <1>3, <1>4, <1>6, <1>7 DEF Shaped
<1>9. ASSUME NEW s \in DOMAIN req[r].own, req[r].own[s] # Null
      PROVE  /\ OwnRow(req[r], s) /\ req[r].own[s].id \in used
             /\ req[r].own[s].value = Null => req[r].own[s].weight = Null
             /\ s \in DOMAIN rows /\ rows[s].value # Null => req[r].own[s].value # Null
  <2>1. OwnRow(req[r], s) /\ req[r].own[s].id \in used
    BY <1>1, <1>9 DEF OwnGood, Keyed
  <2>2. ~ Early(req[r], s)
    BY <1>2 DEF Early
  <2> QED BY <2>1, <2>2 DEF OwnRow
<1> QED BY <1>2, <1>3, <1>4, <1>6, <1>8, <1>9

\* Commit keeps the invariant.
LEMMA CommitKeeps ==
  ASSUME EntryInv, NEW r \in Slots, Commit(r)
  PROVE  EntryInv'
<1>1. /\ req'[r] = Idle /\ (\A o \in Slots : o # r => req'[o] = req[o])
      /\ Shaped' /\ UNCHANGED <<market, used>>
      /\ rows' = SeenBy(req[r])
      /\ \A s : s \in DOMAIN rows' <=> /\ s \in DOMAIN rows \cup DOMAIN req[r].own
                                       /\ s \in DOMAIN req[r].own => req[r].own[s] # Null
      /\ \A s \in DOMAIN rows' : rows'[s] = IF s \in DOMAIN req[r].own THEN req[r].own[s] ELSE rows[s]
      /\ \A s \in DOMAIN req[r].own : req[r].own[s] # Null =>
           /\ OwnRow(req[r], s) /\ req[r].own[s].id \in used
           /\ req[r].own[s].value = Null => req[r].own[s].weight = Null
           /\ s \in DOMAIN rows /\ rows[s].value # Null => req[r].own[s].value # Null
  BY CommitIs
<1>2. RowsGood /\ Exclusive
  BY DEF EntryInv
<1>3. \A s, row : Grounded(s, row)' <=> Grounded(s, row)
  BY <1>1 DEF Grounded
<1>4. RowsGood'
  BY <1>1, <1>2, <1>3 DEF RowsGood, OwnRow
<1>5. ASSUME NEW o \in Slots, o = r PROVE Good(req[o])' /\ Keyed(req[o])'
  <2>1. req'[o] = Idle
    BY <1>1, <1>5
  <2>2. Placed(Idle) /\ DOMAIN Idle.own = {} /\ DOMAIN Idle.view = {} /\ Idle.at = "idle"
    BY IdleGood DEF Good
  <2>3. Placed(req[o])'
    BY <2>1, <2>2 DEF Placed
  <2>4. OwnGood(req[o])' /\ ViewGood(req[o])' /\ Keyed(req[o])'
    BY <2>1, <2>2 DEF OwnGood, ViewGood, Keyed
  <2> QED BY <2>3, <2>4 DEF Good
<1>6. ASSUME NEW o \in Slots, o # r PROVE Good(req[o])' /\ Keyed(req[o])'
  <2>1. /\ Placed(req[o]) /\ OwnGood(req[o]) /\ ViewGood(req[o]) /\ Keyed(req[o])
        /\ rows \in Sheets /\ req[o].own \in Writes /\ req'[o] = req[o]
    BY <1>1, <1>6, RequestIs
  <2>2. DOMAIN req[o].own \cap DOMAIN req[r].own = {}
    BY <1>2, <1>6 DEF Exclusive
  <2>3. \A s \in DOMAIN req[o].own : /\ s \in DOMAIN rows' <=> s \in DOMAIN rows
                                     /\ s \in DOMAIN rows => rows'[s] = rows[s]
    BY <1>1, <2>2
  <2>4. Placed(req[o])' /\ Keyed(req[o])'
    BY <1>1, <2>1 DEF Placed, Keyed
  <2>5. OwnGood(req[o])'
    BY <1>3, <2>1, <2>3 DEF OwnGood, OwnRow, Early
  <2>6. /\ \A s : s \in DOMAIN SeenBy(req[o])' <=> /\ s \in DOMAIN rows' \cup DOMAIN req[o].own
                                                   /\ s \in DOMAIN req[o].own => req[o].own[s] # Null
        /\ \A s \in DOMAIN SeenBy(req[o])' :
             SeenBy(req[o])'[s] = IF s \in DOMAIN req[o].own THEN req[o].own[s] ELSE rows'[s]
    BY <2>1 DEF SeenBy
  <2>7. /\ \A s : s \in DOMAIN SeenBy(req[o]) <=> /\ s \in DOMAIN rows \cup DOMAIN req[o].own
                                                  /\ s \in DOMAIN req[o].own => req[o].own[s] # Null
        /\ \A s \in DOMAIN SeenBy(req[o]) :
             SeenBy(req[o])[s] = IF s \in DOMAIN req[o].own THEN req[o].own[s] ELSE rows[s]
    BY DEF SeenBy
  <2>8. ASSUME NEW s \in DOMAIN req[o].view, req[o].view[s].value # Null,
               s \in DOMAIN SeenBy(req[o])', SeenBy(req[o])'[s].id = req[o].view[s].id
        PROVE  SeenBy(req[o])'[s].value # Null \/ (req[o].at = "write" /\ s = Min(req[o].todo))
    <3>1. CASE s \in DOMAIN req[o].own \/ s \notin DOMAIN req[r].own
      <4>1. s \in DOMAIN SeenBy(req[o]) /\ SeenBy(req[o])'[s] = SeenBy(req[o])[s]
        BY <3>1, <2>6, <2>7, <2>8, <1>1, <2>3
      <4> QED BY <4>1, <2>1, <2>8 DEF ViewGood
    <3>2. CASE s \notin DOMAIN req[o].own /\ s \in DOMAIN req[r].own
      <4>1. SeenBy(req[o])'[s] = req[r].own[s] /\ req[r].own[s] # Null
        BY <3>2, <2>6, <2>8, <1>1
      <4>2. s \in DOMAIN rows
        BY <3>2, <4>1, <2>8, <1>2, <1>6 DEF Exclusive
      <4>3. req[r].own[s].id = rows[s].id
        BY <1>1, <3>2, <4>1, <4>2 DEF OwnRow
      <4>4. s \in DOMAIN SeenBy(req[o]) /\ SeenBy(req[o])[s] = rows[s]
        BY <2>7, <3>2, <4>2
      <4>5. rows[s].value # Null \/ (req[o].at = "write" /\ s = Min(req[o].todo))
        BY <2>1, <2>8, <4>1, <4>3, <4>4 DEF ViewGood
      <4> QED BY <4>1, <4>2, <4>5, <1>1, <3>2
    <3> QED BY <3>1, <3>2
  <2>9. ViewGood(req[o])'
    BY <1>3, <2>1, <2>8 DEF ViewGood
  <2> QED BY <2>4, <2>5, <2>9 DEF Good
<1>7. Exclusive'
  <2> SUFFICES ASSUME NEW a \in Slots, NEW b \in Slots, a # b
               PROVE  /\ DOMAIN req'[a].own \cap DOMAIN req'[b].own = {}
                      /\ \A s \in DOMAIN req'[a].own \cap DOMAIN req'[b].view :
                           req'[a].own[s] # Null /\ s \notin DOMAIN rows' =>
                             req'[b].view[s].id # req'[a].own[s].id
    BY DEF Exclusive
  <2>1. CASE a = r \/ b = r
    <3>1. DOMAIN Idle.own = {} /\ DOMAIN Idle.view = {}
      BY IdleGood
    <3> QED BY <1>1, <2>1, <3>1
  <2>2. CASE a # r /\ b # r
    <3>1. \A s \in DOMAIN req[a].own : s \in DOMAIN rows => s \in DOMAIN rows'
      BY <1>1, <1>2, <2>2 DEF Exclusive
    <3> QED BY <1>1, <1>2, <2>2, <3>1 DEF Exclusive
  <2> QED BY <2>1, <2>2
<1> QED BY <1>1, <1>4, <1>5, <1>6, <1>7 DEF EntryInv

\* The positions entered beforehand are in order.
LEMMA InitEntryInv ==
  ASSUME InitPortfolio
  PROVE  /\ EntryInv
         /\ latest.equity = Cash /\ latest.values = [s \in Entered |-> Null]
         /\ DOMAIN rows = Entered
         /\ \A s \in Entered : rows[s].value = Null /\ rows[s].weight = Null /\ rows[s].price = Null
         /\ history.lone = {}
<1>1. /\ market = [s \in Symbols |-> Null] /\ req = [r \in Slots |-> Idle]
      /\ latest = [NoSnapshot EXCEPT !.values = [s \in Entered |-> Null]]
      /\ used = 1..Cardinality(Entered) /\ history = [lone |-> {}, weights |-> TRUE, values |-> TRUE]
  BY DEF InitPortfolio
<1>2. PICK id \in [Entered -> 1..Cardinality(Entered)], n \in Quantities :
        rows = [s \in Entered |-> [id |-> id[s], qty |-> n, price |-> Null, value |-> Null, weight |-> Null]]
  BY DEF InitPortfolio
<1>3. Cardinality(Entered) \in Nat /\ Entered \subseteq Symbols
  BY ConstantsTyped, FS_Subset, FS_CardinalityType
<1>4. 1..Cardinality(Entered) \subseteq Keys
  BY <1>3, ConstantsTyped DEF Keys
<1>5. /\ DOMAIN rows = Entered
      /\ \A s \in DOMAIN rows : /\ rows[s] \in Positions /\ rows[s].value = Null /\ rows[s].weight = Null
                                /\ rows[s].price = Null /\ rows[s].id \in used
  <2>1. DOMAIN rows = Entered
    BY <1>2
  <2>2. ASSUME NEW s \in Entered
        PROVE  /\ rows[s] \in Positions /\ rows[s].value = Null /\ rows[s].weight = Null
               /\ rows[s].price = Null /\ rows[s].id \in used
    <3>1. rows[s] = [id |-> id[s], qty |-> n, price |-> Null, value |-> Null, weight |-> Null]
      BY <1>2
    <3>2. id[s] \in Keys /\ id[s] \in used
      BY <1>1, <1>4
    <3> QED BY <3>1, <3>2 DEF Positions
  <2> QED BY <2>1, <2>2
<1>6. rows \in Sheets
  <2>1. rows = [s \in DOMAIN rows |-> rows[s]]
    BY <1>2
  <2> QED BY <1>3, <1>5, <2>1, SheetOf
<1>7. latest \in SnapshotRows /\ latest.equity = Cash /\ latest.values = [s \in Entered |-> Null]
  <2>1. [s \in Entered |-> Null] \in Values
    BY <1>3 DEF Values
  <2> QED BY <1>1, <2>1, ConstantsTyped DEF SnapshotRows, NoSnapshot
<1>8. Shaped
  BY <1>1, <1>4, <1>6, <1>7, IdleGood DEF Shaped
<1>9. RowsGood
  BY <1>5, ConstantsTyped DEF RowsGood, Grounded
<1>10. Exclusive
  BY <1>1, IdleGood DEF Exclusive
<1>11. \A r \in Slots : Good(req[r]) /\ Keyed(req[r])
  BY <1>1, IdleGood DEF Keyed
<1> QED BY <1>1, <1>5, <1>7, <1>8, <1>9, <1>10, <1>11 DEF EntryInv

\* Every step keeps the invariant.
LEMMA StepEntryInv ==
  ASSUME EntryInv, [NextPortfolio]_portfolioVars
  PROVE  EntryInv'
<1>1. ASSUME NEW s \in Symbols, NEW p \in Prices, StorePrice(s, p) PROVE EntryInv'
  BY <1>1, StorePriceKeeps
<1>2. ASSUME NEW r \in Slots, NEW kind \in {"upsert", "delete"}, NEW s \in Symbols, NEW n \in Quantities,
             Begin(r, kind, s, n)
      PROVE  EntryInv'
  BY <1>2, BeginKeeps DEF Kinds
<1>3. ASSUME NEW r \in Slots, Begin(r, "refresh", 0, 0) PROVE EntryInv'
  BY <1>3, BeginKeeps DEF Kinds
<1>4. ASSUME NEW r \in Slots, Step(r) PROVE EntryInv'
  <2>1. CASE Upsert(r) \/ Find(r) \/ Delete(r) \/ List(r) \/ Reprice(r)
    BY <2>1, UpsertKeeps, FindKeeps, DeleteKeeps, ListKeeps, RepriceKeeps
  <2>2. CASE Write(r) \/ Repriced(r) \/ Totalled(r) \/ Weigh(r) \/ Flush(r)
    BY <2>2, WriteKeeps, DoneKeeps, TotalledKeeps, WeighKeeps, FlushKeeps
  <2>3. CASE Flushed(r) \/ Snapshot(r) \/ Commit(r) \/ Deadlock(r)
    BY <2>3, DoneKeeps, SnapshotKeeps, CommitKeeps, DeadlockKeeps
  <2> QED BY <1>4, <2>1, <2>2, <2>3 DEF Step
<1>5. CASE UNCHANGED portfolioVars
  <2>1. UNCHANGED <<market, rows, latest, used, req, history>>
    BY <1>5 DEF portfolioVars
  <2>2. \A s, row : Grounded(s, row)' <=> Grounded(s, row)
    BY <2>1 DEF Grounded
  <2>3. Shaped' /\ RowsGood' /\ Exclusive'
    BY <2>1, <2>2 DEF EntryInv, Shaped, RowsGood, Exclusive
  <2>4. ASSUME NEW o \in Slots PROVE Good(req[o])' /\ Keyed(req[o])'
    <3>1. Placed(req[o]) /\ OwnGood(req[o]) /\ ViewGood(req[o]) /\ Keyed(req[o])
      BY RequestIs
    <3>2. SeenBy(req[o])' = SeenBy(req[o])
      BY <2>1, Zenon DEF SeenBy
    <3>3. Placed(req[o])' /\ Keyed(req[o])'
      BY <2>1, <3>1 DEF Placed, Keyed
    <3>4. OwnGood(req[o])'
      BY <2>1, <2>2, <3>1 DEF OwnGood, OwnRow, Early
    <3>5. ViewGood(req[o])'
      BY <2>1, <2>2, <3>1, <3>2 DEF ViewGood
    <3> QED BY <3>3, <3>4, <3>5 DEF Good
  <2> QED BY <2>3, <2>4 DEF EntryInv
<1> QED BY <1>1, <1>2, <1>3, <1>4, <1>5 DEF NextPortfolio

\* Rows, and what requests have read and written of them, stay in order.
THEOREM EntriesInOrder == PortfolioSpec => []EntryInv
<1>1. InitPortfolio => EntryInv
  BY InitEntryInv
<1>2. EntryInv /\ [NextPortfolio]_portfolioVars => EntryInv'
  BY StepEntryInv
<1> QED BY <1>1, <1>2, PTL DEF PortfolioSpec

\* Who commits changes the quantity that it was asked to change, and no other.
LEMMA CommitEnters ==
  ASSUME EntryInv, NEW r \in Slots, Commit(r), NEW s \in Symbols, Quantity(s)' # Quantity(s)
  PROVE  /\ req[r].symbol = s /\ req[r].at = "commit" /\ req'[r].at = "idle"
         /\ Quantity(s)' = IF req[r].kind = "upsert" THEN req[r].qty ELSE 0
<1>1. /\ req'[r] = Idle
      /\ \A x : x \in DOMAIN rows' <=> /\ x \in DOMAIN rows \cup DOMAIN req[r].own
                                       /\ x \in DOMAIN req[r].own => req[r].own[x] # Null
      /\ \A x \in DOMAIN rows' : rows'[x] = IF x \in DOMAIN req[r].own THEN req[r].own[x] ELSE rows[x]
      /\ \A x \in DOMAIN req[r].own : req[r].own[x] # Null => OwnRow(req[r], x)
  BY CommitIs
<1>2. OwnGood(req[r]) /\ req[r].at = "commit" /\ req'[r].at = "idle"
  BY <1>1, RequestIs, IdleGood DEF Commit
<1>3. s \in DOMAIN req[r].own
  BY <1>1 DEF Quantity
<1>4. CASE req[r].own[s] = Null
  BY <1>1, <1>2, <1>3, <1>4 DEF Quantity, OwnGood
<1>5. CASE req[r].own[s] # Null
  BY <1>1, <1>2, <1>3, <1>5 DEF Quantity, OwnRow
<1> QED BY <1>2, <1>4, <1>5

\* OnlyAsEntered: however many requests are under way, refreshing prices and
\* weights changes no quantity, and no position that another request deletes
\* comes back.
THEOREM OnlyAsEnteredHolds == PortfolioSpec => OnlyAsEntered
<1> DEFINE Change == \A s \in Symbols : Quantity(s)' # Quantity(s) =>
             \E r \in Slots : /\ req[r].symbol = s /\ req[r].at = "commit" /\ req'[r].at = "idle"
                              /\ Quantity(s)' = IF req[r].kind = "upsert" THEN req[r].qty ELSE 0
<1>1. ASSUME EntryInv, [NextPortfolio]_portfolioVars PROVE [Change]_portfolioVars
  <2>1. ASSUME NEW r \in Slots, Commit(r) PROVE Change
    BY <1>1, <2>1, CommitEnters
  <2>2. CASE rows' = rows
    BY <2>2 DEF Quantity
  <2>3. ASSUME NEW r \in Slots, Step(r) PROVE rows' = rows \/ Commit(r)
    <3>1. CASE Upsert(r) \/ Find(r) \/ Delete(r) \/ List(r) \/ Reprice(r)
      BY <3>1 DEF Upsert, Find, Delete, List, Reprice
    <3>2. CASE Write(r) \/ Repriced(r) \/ Totalled(r) \/ Weigh(r) \/ Flush(r)
      BY <3>2 DEF Write, Repriced, Totalled, Weigh, Flush
    <3>3. CASE Flushed(r) \/ Snapshot(r) \/ Commit(r) \/ Deadlock(r)
      BY <3>3 DEF Flushed, Snapshot, Deadlock, Fail
    <3> QED BY <2>3, <3>1, <3>2, <3>3 DEF Step
  <2>4. (\E r \in Slots : Commit(r)) \/ rows' = rows
    BY <1>1, <2>3 DEF NextPortfolio, StorePrice, Begin, portfolioVars
  <2> QED BY <2>1, <2>2, <2>4
<1> QED BY <1>1, EntriesInOrder, PTL DEF PortfolioSpec, OnlyAsEntered

-----------------------------------------------------------------------------
(* A request that meets no other *)

\* The request r becomes q, and is alone as before.
LEMMA LoneSame ==
  ASSUME NEW r \in Slots, NEW q, req'[r] = q, Lone(q), UNCHANGED <<rows, latest, history>>
  PROVE  Lone(req[r])'
<1>1. req'[r] = q /\ UNCHANGED <<rows, latest, history>>
  OBVIOUS
<1>2. SeenBy(req[r])' = SeenBy(q)
  BY <1>1, Zenon DEF SeenBy
<1>3. Total(SeenBy(req[r]))' = Total(SeenBy(q))
  BY <1>2, Zenon DEF Total, ValueOf
<1>4. Fresh(req[r])' <=> Fresh(q)
  BY <1>1, <1>2 DEF Fresh
<1>5. CASE q.at \in {"list", "price"}
  BY <1>1, <1>2, <1>4, <1>5 DEF Lone, Worth
<1>6. CASE q.at = "write"
  BY <1>1, <1>2, <1>6 DEF Lone, Worth
<1>7. CASE q.at = "total"
  BY <1>1, <1>2, <1>4, <1>7 DEF Lone, Worth
<1>8. CASE q.at = "weigh"
  BY <1>1, <1>2, <1>3, <1>4, <1>8 DEF Lone, Worth
<1>9. CASE q.at = "flush"
  BY <1>1, <1>2, <1>3, <1>9 DEF Lone, Worth, Weight
<1>10. CASE q.at = "snapshot"
  BY <1>1, <1>2, <1>3, <1>4, <1>10 DEF Lone, Worth, Weight
<1>11. CASE q.at = "commit"
  BY <1>1, <1>2, <1>3, <1>4, <1>11 DEF Lone, Worth, Weight
<1> QED BY <1>1, <1>5, <1>6, <1>7, <1>8, <1>9, <1>10, <1>11 DEF Lone

\* A request that is alone stays so when it turns to such a record.
LEMMA LoneTurn ==
  ASSUME Shaped, NEW r \in Slots, NEW q, Turns(r, q), Lone(q), history' = history
  PROVE  Lone(req[r])'
BY TurnIs, LoneSame DEF Turns

\* A list is what there is, where nothing else was read.
LEMMA FreshList ==
  ASSUME EntryInv, NEW r \in Slots, Fresh(req[r])
  PROVE  /\ Listed(r) = SeenBy(req[r])
         /\ DOMAIN Listed(r) = DOMAIN SeenBy(req[r])
         /\ \A s \in DOMAIN Listed(r) : Listed(r)[s] = SeenBy(req[r])[s]
<1>1. /\ Listed(r) \in Sheets /\ DOMAIN Listed(r) = DOMAIN SeenBy(req[r])
      /\ \A s \in DOMAIN Listed(r) : Listed(r)[s] = IF s \in DOMAIN req[r].view THEN req[r].view[s]
                                                    ELSE SeenBy(req[r])[s]
  BY RequestIs, ListIs
<1>2. \A s \in DOMAIN Listed(r) : Listed(r)[s] = SeenBy(req[r])[s]
  BY <1>1 DEF Fresh
<1>3. SeenBy(req[r]) \in Sheets
  BY RequestIs, SeenIs
<1>4. Listed(r) = SeenBy(req[r])
  <2> DEFINE f == Listed(r)
             g == SeenBy(req[r])
  <2>1. f = [s \in DOMAIN f |-> f[s]] /\ g = [s \in DOMAIN g |-> g[s]]
    <3>1. f \in Sheets /\ g \in Sheets
      BY <1>1, <1>3
    <3> HIDE DEF f, g
    <3> QED BY <3>1, SheetIs
  <2>2. DOMAIN f = DOMAIN g /\ \A s \in DOMAIN f : f[s] = g[s]
    BY <1>1, <1>2
  <2> HIDE DEF f, g
  <2>3. f = g
    BY <2>1, <2>2
  <2> QED BY <2>3 DEF f, g
<1> QED BY <1>1, <1>2, <1>4

\* Upsert, Find and Delete of a request that is alone.
LEMMA LoneUpsert ==
  ASSUME EntryInv, NEW r \in Slots, Upsert(r)
  PROVE  Lone(req[r])'
<1> DEFINE s == req[r].symbol
<1>1. PICK row, q :
        /\ s \in Symbols /\ Holder(s, r) = {}
        /\ row \in Positions /\ row.qty = req[r].qty /\ row.price = Null /\ row.value = Null
        /\ row.weight = IF s \in DOMAIN rows THEN rows[s].weight ELSE Null
        /\ row.id \in used' /\ IF s \in DOMAIN rows THEN row.id = rows[s].id ELSE row.id \notin used
        /\ Turns(r, q)
        /\ q.at = "list" /\ q.kind = "upsert" /\ q.symbol = s /\ q.qty = req[r].qty /\ q.todo = req[r].todo
        /\ q.own = Put(<<>>, s, row) /\ q.view = Put(<<>>, s, row)
        /\ DOMAIN q.own = {s} /\ DOMAIN q.view = {s} /\ q.own[s] = row /\ q.view[s] = row
  BY UpsertIs
<1> HIDE DEF s
<1>2. row # Null /\ rows \in Sheets /\ q.own \in Writes /\ Shaped
  BY <1>1, PositionIs, RequestIs DEF Turns, Requests
<1>3. Fresh(q)
  BY <1>1, <1>2, SeenIs DEF Fresh
<1>4. Lone(q)
  BY <1>1, <1>3 DEF Lone
<1>5. history' = history
  BY DEF Upsert
<1> QED BY <1>1, <1>2, <1>4, <1>5, LoneTurn

\* A request that ended is alone.
LEMMA LoneIdle ==
  ASSUME Shaped, NEW r \in Slots, Go(r, Idle)
  PROVE  Lone(req[r])'
<1>1. req'[r].at = "idle"
  BY IdleGood DEF Go, Shaped
<1> QED BY <1>1 DEF Lone

\* Looking for the position keeps it alone,
LEMMA LoneFind ==
  ASSUME EntryInv, NEW r \in Slots, Find(r)
  PROVE  Lone(req[r])'
<1>1. CASE Go(r, Idle)
  BY <1>1, LoneIdle, RequestIs
<1>2. ASSUME NEW q, Turns(r, q), q.at = "delete" PROVE Lone(req[r])'
  <2>1. Lone(q)
    BY <1>2 DEF Lone
  <2>2. history' = history
    BY DEF Find
  <2> QED BY <1>2, <2>1, <2>2, LoneTurn, RequestIs
<1> QED BY <1>1, <1>2, FindIs

\* and so does deleting it.
LEMMA LoneDelete ==
  ASSUME EntryInv, Agreed, NEW r \in Slots, Delete(r)
  PROVE  Lone(req[r])'
<1>1. PICK q : /\ Turns(r, q) /\ Moved(q, req[r]) /\ q.at = "total" /\ q.view = <<>> /\ q.todo = {}
               /\ q.kind = "delete" /\ q.symbol \in Symbols /\ Holder(q.symbol, r) = {}
               /\ \A s \in DOMAIN q.own : s = q.symbol /\ q.own[s] = Null
               /\ req[r].own = <<>> /\ DOMAIN q.view = {}
  BY DeleteIs
<1>2. rows \in Sheets /\ q.own \in Writes /\ Shaped
  BY <1>1, RequestIs DEF Turns, Requests
<1>3. \A s \in DOMAIN SeenBy(q) : s \in DOMAIN rows /\ SeenBy(q)[s] = rows[s]
  BY <1>1, <1>2, SeenIs
<1>4. Fresh(q)
  BY <1>1 DEF Fresh
<1>5. history.values => \A s \in DOMAIN SeenBy(q) : Worth(SeenBy(q)[s])
  BY <1>3 DEF Agreed
<1>6. Lone(q)
  BY <1>1, <1>4, <1>5 DEF Lone
<1>7. history' = history
  BY DEF Delete
<1> QED BY <1>1, <1>2, <1>6, <1>7, LoneTurn

\* List: it reads what there is.
LEMMA LoneList ==
  ASSUME EntryInv, NEW r \in Slots, Lone(req[r]), List(r)
  PROVE  Lone(req[r])'
<1>1. PICK q : /\ Turns(r, q) /\ Moved(q, req[r]) /\ req[r].at = "list" /\ q.at = "price"
               /\ q.own = req[r].own /\ q.view = Listed(r) /\ q.todo = DOMAIN Listed(r)
  BY RelistIs
<1>2. Fresh(req[r])
  BY <1>1 DEF Lone
<1>3. SeenBy(q) = SeenBy(req[r])
  BY <1>1, SeenSame
<1>4. /\ DOMAIN q.view = DOMAIN SeenBy(q)
      /\ \A s \in DOMAIN q.view : q.view[s] = SeenBy(q)[s]
  BY <1>1, <1>2, <1>3, FreshList
<1>5. Lone(q)
  BY <1>1, <1>4 DEF Lone, Fresh
<1>6. history' = history
  BY DEF List
<1> QED BY <1>1, <1>5, <1>6, LoneTurn, RequestIs

\* Reprice: what it is about to write is worth its quantity.
LEMMA LoneReprice ==
  ASSUME EntryInv, NEW r \in Slots, Lone(req[r]), Reprice(r)
  PROVE  Lone(req[r])'
<1> DEFINE s == Min(req[r].todo)
<1>1. PICK q : Repricing(r, s, q)
  BY RepriceIs
<1>2. q.at = "write" => s = Min(q.todo)
  BY <1>1 DEF Repricing
<1> HIDE DEF s
<1> USE <1>1 DEF Repricing
<1>3. SeenBy(q) = SeenBy(req[r])
  BY SeenSame
<1>4. /\ Fresh(req[r]) /\ DOMAIN req[r].view = DOMAIN SeenBy(req[r])
      /\ \A x \in DOMAIN req[r].view \ req[r].todo : Worth(req[r].view[x])
      /\ ViewGood(req[r])
  BY RequestIs DEF Lone
<1>5. ASSUME market[s] = Null PROVE Lone(q)
  <2>1. q.at = "price" /\ q.view = req[r].view /\ q.todo = req[r].todo \ {s}
    BY <1>5
  <2>2. Worth(req[r].view[s])
    BY <1>4, <1>5 DEF ViewGood, Grounded, Worth
  <2> QED BY <1>3, <1>4, <2>1, <2>2 DEF Lone, Fresh
<1>6. ASSUME market[s] # Null PROVE Lone(q)
  <2>1. /\ q.at = "write" /\ q.todo = req[r].todo
        /\ q.view[s] = [req[r].view[s] EXCEPT !.price = q.view[s].price, !.value = q.view[s].value]
        /\ Worth(q.view[s])
    BY <1>6 DEF Worth
  <2>2. q.view[s] = [SeenBy(q)[s] EXCEPT !.price = q.view[s].price, !.value = q.view[s].value]
    BY <1>3, <1>4, <2>1 DEF Fresh
  <2>3. \A x \in DOMAIN q.view : x # s => q.view[x] = SeenBy(q)[x]
    BY <1>3, <1>4 DEF Fresh
  <2>4. \A x \in DOMAIN q.view \ q.todo : Worth(q.view[x])
    BY <1>4, <2>1
  <2>5. DOMAIN q.view = DOMAIN SeenBy(q)
    BY <1>3, <1>4
  <2> QED BY <1>2, <2>1, <2>2, <2>3, <2>4, <2>5 DEF Lone
<1>7. Lone(q)
  BY <1>5, <1>6
<1>8. history' = history /\ Turns(r, q)
  BY DEF Reprice
<1> QED BY <1>7, <1>8, LoneTurn, RequestIs

\* What an UPDATE of a request that is alone leaves: it finds its row.
LEMMA LoneUpdateIs ==
  ASSUME EntryInv, NEW r \in Slots, NEW s \in Symbols, NEW p, Passed(r, s, p), NEW row,
         Match(r, s), Follows(r, s, row),
         Update(r, s, p, row), UNCHANGED <<market, rows, latest, used, history>>
  PROVE  \/ Go(r, Idle)
         \/ \E q : /\ Turns(r, q) /\ Moved(q, req[r]) /\ q.view = req[r].view
                   /\ q.todo = req[r].todo \ {s} /\ q.at = p.at
                   /\ q.equity = req[r].equity /\ q.snap = req[r].snap
                   /\ DOMAIN SeenBy(q) = DOMAIN SeenBy(req[r])
                   /\ SeenBy(q)[s] = row
                   /\ \A x \in DOMAIN SeenBy(req[r]) : x # s => SeenBy(q)[x] = SeenBy(req[r])[x]
<1>1. rows \in Sheets /\ req[r].own \in Writes
  BY RequestIs
<1>2. Go(r, Idle) \/ \E q : Turns(r, q) /\ Rewritten(p, s, row, q)
  BY UpdateIs DEF Follows
<1>3. ASSUME NEW q, Turns(r, q), Rewritten(p, s, row, q)
      PROVE  /\ DOMAIN SeenBy(q) = DOMAIN SeenBy(req[r])
             /\ SeenBy(q)[s] = row
             /\ \A x \in DOMAIN SeenBy(req[r]) : x # s => SeenBy(q)[x] = SeenBy(req[r])[x]
  <2>1. row # Null /\ q.own \in Writes /\ s \in DOMAIN SeenBy(req[r])
    BY <1>3, PositionIs DEF Follows, Rewritten, Requests, Match
  <2>2. /\ DOMAIN q.own = DOMAIN req[r].own \cup {s} /\ q.own[s] = row
        /\ \A x \in DOMAIN req[r].own : x # s => q.own[x] = req[r].own[x]
    BY <1>3 DEF Rewritten, Passed
  <2> QED BY <1>1, <2>1, <2>2, SeenPut
<1>4. ASSUME NEW q, Turns(r, q), Rewritten(p, s, row, q)
      PROVE  /\ Moved(q, req[r]) /\ q.view = req[r].view
             /\ q.todo = req[r].todo \ {s} /\ q.at = p.at
             /\ q.equity = req[r].equity /\ q.snap = req[r].snap
  BY <1>4 DEF Rewritten, Passed, Moved
<1> QED BY <1>2, <1>3, <1>4

\* Write: what was assigned is there.
LEMMA LoneWrite ==
  ASSUME EntryInv, NEW r \in Slots, Lone(req[r]), Write(r)
  PROVE  Lone(req[r])'
<1>1. PICK s, p, row :
        /\ s \in Symbols /\ s = Min(req[r].todo) /\ req[r].at = "write"
        /\ Passed(r, s, p) /\ Update(r, s, p, row) /\ UNCHANGED <<market, rows, latest, used, history>>
        /\ Match(r, s) => Follows(r, s, row)
        /\ row = [SeenBy(req[r])[s] EXCEPT !.price = req[r].view[s].price, !.value = req[r].view[s].value]
  BY WriteUpdates
<1>2. /\ DOMAIN req[r].view = DOMAIN SeenBy(req[r]) /\ s \in DOMAIN req[r].view
      /\ \A x \in DOMAIN req[r].view \ req[r].todo : Worth(req[r].view[x])
      /\ Worth(req[r].view[s])
      /\ req[r].view[s] = row
      /\ \A x \in DOMAIN req[r].view : x # s => req[r].view[x] = SeenBy(req[r])[x]
      /\ p.at = "price"
  BY <1>1, RequestIs DEF Lone, Placed, Passed
<1>3. Match(r, s)
  <2>1. SeenBy(req[r])[s] \in Positions
    BY <1>2, SeenGood
  <2>2. row.id = SeenBy(req[r])[s].id
    BY <1>1, <2>1 DEF Positions
  <2> QED BY <1>2, <2>2 DEF Match
<1>4. ASSUME NEW q, Turns(r, q), Moved(q, req[r]), q.view = req[r].view,
             q.todo = req[r].todo \ {s}, q.at = p.at,
             DOMAIN SeenBy(q) = DOMAIN SeenBy(req[r]),
             SeenBy(q)[s] = row,
             \A x \in DOMAIN SeenBy(req[r]) : x # s => SeenBy(q)[x] = SeenBy(req[r])[x]
      PROVE  Lone(req[r])'
  <2>1. Fresh(q)
    BY <1>2, <1>4 DEF Fresh
  <2>2. \A x \in DOMAIN q.view \ q.todo : Worth(q.view[x])
    BY <1>2, <1>4
  <2>3. Lone(q)
    BY <1>2, <1>4, <2>1, <2>2 DEF Lone
  <2> QED BY <1>1, <1>4, <2>3, LoneTurn, RequestIs
<1>5. CASE Go(r, Idle)
  BY <1>5, LoneIdle, RequestIs
<1> QED BY <1>1, <1>3, <1>4, <1>5, LoneUpdateIs

\* The same values, the same total.
LEMMA TotalSame ==
  ASSUME NEW f \in Sheets, NEW g \in Sheets, DOMAIN f = DOMAIN g, \A s \in DOMAIN f : f[s].value = g[s].value
  PROVE  Total(f) = Total(g)
<1>1. IsFiniteSet(DOMAIN f) /\ \A s \in DOMAIN f : ValuesOf(f)[s] = ValuesOf(g)[s]
  BY TotalIs DEF ValueOf
<1>2. SumOver(ValuesOf(f), DOMAIN f) = SumOver(ValuesOf(g), DOMAIN f)
  BY <1>1, SumSame
<1> QED BY <1>2, TotalIs

\* Flush: the weights get there, and nothing else changes.
LEMMA LoneFlush ==
  ASSUME EntryInv, NEW r \in Slots, Lone(req[r]), Flush(r)
  PROVE  Lone(req[r])'
<1>1. PICK s, p, row :
        /\ s \in Symbols /\ s \in req[r].todo /\ req[r].at = "flush"
        /\ Passed(r, s, p) /\ Update(r, s, p, row) /\ UNCHANGED <<market, rows, latest, used, history>>
        /\ Match(r, s) => Follows(r, s, row)
        /\ row = [SeenBy(req[r])[s] EXCEPT !.weight = req[r].view[s].weight]
  BY FlushUpdates
<1>2. /\ DOMAIN req[r].view = DOMAIN SeenBy(req[r]) /\ s \in DOMAIN req[r].view
      /\ req[r].kind # "delete" \/ history.values => \A x \in DOMAIN SeenBy(req[r]) : Worth(SeenBy(req[r])[x])
      /\ req[r].equity = Total(SeenBy(req[r])) + Cash
      /\ \A x \in DOMAIN req[r].view :
           /\ req[r].view[x].weight = Weight(SeenBy(req[r])[x], req[r].equity)
           /\ req[r].view[x] = [SeenBy(req[r])[x] EXCEPT !.weight = req[r].view[x].weight]
           /\ x \notin req[r].todo => req[r].view[x] = SeenBy(req[r])[x]
      /\ p.at = "flush"
  BY <1>1, RequestIs DEF Lone, Placed, Passed
<1>3. /\ req[r].view[s] = row
      /\ row.id = SeenBy(req[r])[s].id /\ row.value = SeenBy(req[r])[s].value
      /\ row.qty = SeenBy(req[r])[s].qty /\ row.price = SeenBy(req[r])[s].price
      /\ row = [row EXCEPT !.weight = row.weight]
  <2>1. SeenBy(req[r])[s] \in Positions
    BY <1>2, SeenGood
  <2> QED BY <1>1, <1>2, <2>1 DEF Positions
<1>4. Match(r, s)
  BY <1>2, <1>3 DEF Match
<1>5. ASSUME NEW q, Turns(r, q), Moved(q, req[r]), q.view = req[r].view,
             q.todo = req[r].todo \ {s}, q.at = p.at, q.equity = req[r].equity,
             DOMAIN SeenBy(q) = DOMAIN SeenBy(req[r]),
             SeenBy(q)[s] = row,
             \A x \in DOMAIN SeenBy(req[r]) : x # s => SeenBy(q)[x] = SeenBy(req[r])[x]
      PROVE  Lone(req[r])'
  <2>1. q.equity = Total(SeenBy(q)) + Cash
    <3>1. SeenBy(q) \in Sheets /\ SeenBy(req[r]) \in Sheets
      BY <1>5, RequestIs, SeenIs DEF Turns, Requests
    <3>2. \A x \in DOMAIN SeenBy(q) : SeenBy(q)[x].value = SeenBy(req[r])[x].value
      BY <1>3, <1>5
    <3> DEFINE f == SeenBy(q)
               g == SeenBy(req[r])
    <3>3. f \in Sheets /\ g \in Sheets /\ DOMAIN f = DOMAIN g /\ \A x \in DOMAIN f : f[x].value = g[x].value
      BY <1>5, <3>1, <3>2
    <3>4. q.equity = Total(g) + Cash
      BY <1>2, <1>5
    <3> HIDE DEF f, g
    <3>5. Total(f) = Total(g)
      BY <3>3, TotalSame
    <3>6. q.equity = Total(f) + Cash
      BY <3>4, <3>5
    <3> QED BY <3>6 DEF f
  <2>2. \A x \in DOMAIN SeenBy(q) : Worth(SeenBy(q)[x]) <=> Worth(SeenBy(req[r])[x])
    BY <1>3, <1>5 DEF Worth
  <2>3. req[r].kind # "delete" \/ history.values => \A x \in DOMAIN SeenBy(q) : Worth(SeenBy(q)[x])
    BY <1>2, <1>5, <2>2
  <2>4. ASSUME NEW x \in DOMAIN q.view
        PROVE  /\ q.view[x].weight = Weight(SeenBy(q)[x], q.equity)
               /\ q.view[x] = [SeenBy(q)[x] EXCEPT !.weight = q.view[x].weight]
               /\ x \notin q.todo => q.view[x] = SeenBy(q)[x]
    <3>1. CASE x # s
      BY <1>2, <1>5, <2>4, <3>1
    <3>2. CASE x = s
      <4>1. PICK a, e : a = SeenBy(req[r])[s] /\ e = req[r].equity
        OBVIOUS
      <4>2. row.weight = Weight(a, e) /\ row.value = a.value
        BY <1>2, <1>3, <4>1
      <4>3. row.weight = Weight(row, e)
        BY <4>2 DEF Weight
      <4>4. q.view[x] = row /\ SeenBy(q)[x] = row /\ q.equity = e
        BY <1>3, <1>5, <3>2, <4>1
      <4> QED BY <1>3, <4>3, <4>4
    <3> QED BY <3>1, <3>2
  <2>5. DOMAIN q.view = DOMAIN SeenBy(q) /\ q.kind = req[r].kind /\ q.at = "flush"
    BY <1>2, <1>5 DEF Moved
  <2>6. Lone(q)
    BY <2>1, <2>3, <2>4, <2>5 DEF Lone
  <2> QED BY <1>1, <1>5, <2>6, LoneTurn, RequestIs
<1>6. CASE Go(r, Idle)
  BY <1>6, LoneIdle, RequestIs
<1> QED BY <1>1, <1>4, <1>5, <1>6, LoneUpdateIs

\* Repriced, Flushed: what was worked on is what there is.
LEMMA LoneDone ==
  ASSUME EntryInv, NEW r \in Slots, Lone(req[r]), Repriced(r) \/ Flushed(r)
  PROVE  Lone(req[r])'
<1>1. PICK q : /\ Turns(r, q) /\ Moved(q, req[r]) /\ q.own = req[r].own /\ q.view = req[r].view
               /\ req[r].todo = {} /\ q.todo = {} /\ q.equity = req[r].equity
               /\ \/ req[r].at = "price" /\ q.at = "total"
                  \/ req[r].at = "flush" /\ q.at = "snapshot"
  BY DoneIs
<1>2. SeenBy(q) = SeenBy(req[r]) /\ q.kind = req[r].kind
  BY <1>1, SeenSame DEF Moved
<1>3. ASSUME req[r].at = "price" PROVE Lone(q)
  <2>1. Fresh(q) /\ DOMAIN q.view = DOMAIN SeenBy(q)
    BY <1>1, <1>2, <1>3 DEF Lone, Fresh
  <2>2. \A s \in DOMAIN q.view : Worth(q.view[s])
    BY <1>1, <1>3 DEF Lone
  <2>3. \A s \in DOMAIN SeenBy(q) : Worth(SeenBy(q)[s])
    BY <2>1, <2>2 DEF Fresh
  <2> QED BY <1>1, <1>3, <2>1, <2>3 DEF Lone
<1>4. ASSUME req[r].at = "flush" PROVE Lone(q)
  <2>1. /\ DOMAIN q.view = DOMAIN SeenBy(q) /\ q.equity = Total(SeenBy(q)) + Cash
        /\ \A s \in DOMAIN q.view : /\ q.view[s] = SeenBy(q)[s]
                                    /\ q.view[s].weight = Weight(SeenBy(q)[s], q.equity)
        /\ q.kind # "delete" \/ history.values => \A s \in DOMAIN SeenBy(q) : Worth(SeenBy(q)[s])
    BY <1>1, <1>2, <1>4 DEF Lone
  <2>2. Fresh(q) /\ \A s \in DOMAIN SeenBy(q) : SeenBy(q)[s].weight = Weight(SeenBy(q)[s], q.equity)
    BY <2>1 DEF Fresh
  <2> QED BY <1>1, <1>4, <2>1, <2>2 DEF Lone
<1>5. Lone(q) /\ history' = history
  BY <1>1, <1>3, <1>4 DEF Repriced, Flushed
<1> QED BY <1>1, <1>5, LoneTurn, RequestIs

\* Totalled: the total is of what there is.  Nothing to weigh has no weight.
LEMMA LoneTotalled ==
  ASSUME EntryInv, NEW r \in Slots, Lone(req[r]), Totalled(r)
  PROVE  Lone(req[r])'
<1>1. PICK q : /\ Turns(r, q) /\ Moved(q, req[r]) /\ q.own = req[r].own /\ q.view = Listed(r)
               /\ req[r].at = "total" /\ q.todo = req[r].todo /\ q.equity = Total(Listed(r)) + Cash
               /\ q.at = IF q.equity > 0 THEN "weigh" ELSE "snapshot"
  BY TotalledIs
<1>2. SeenBy(q) = SeenBy(req[r]) /\ q.kind = req[r].kind
  BY <1>1, SeenSame DEF Moved
<1>3. /\ Fresh(req[r])
      /\ req[r].kind # "delete" \/ history.values => \A s \in DOMAIN SeenBy(req[r]) : Worth(SeenBy(req[r])[s])
  BY <1>1 DEF Lone
<1>4. /\ Listed(r) = SeenBy(req[r])
      /\ DOMAIN q.view = DOMAIN SeenBy(q)
      /\ \A s \in DOMAIN q.view : q.view[s] = SeenBy(q)[s]
  BY <1>1, <1>2, <1>3, FreshList
<1>5. Fresh(q) /\ q.equity = Total(SeenBy(q)) + Cash
  BY <1>1, <1>2, <1>4 DEF Fresh
<1>6. ASSUME q.at = "snapshot", NEW s \in DOMAIN SeenBy(q)
      PROVE  SeenBy(q)[s].weight = Weight(SeenBy(q)[s], q.equity)
  <2> DEFINE f == SeenBy(q)
  <2>1. f \in Sheets /\ q.equity = Total(f) + Cash /\ ~ (q.equity > 0)
    BY <1>1, <1>2, <1>5, <1>6, RequestIs, SeenIs
  <2>2. /\ f[s] \in Positions /\ Grounded(s, f[s])
        /\ s \in DOMAIN req[r].own => OwnRow(req[r], s) /\ f[s] = req[r].own[s]
        /\ s \notin DOMAIN req[r].own => s \in DOMAIN rows /\ f[s] = rows[s]
    BY <1>2, <1>6, SeenGood
  <2>3. s \in DOMAIN f
    BY <1>6
  <2> HIDE DEF f
  <2>4. Total(f) \in Nat /\ (f[s].value # Null => f[s].value <= Total(f))
    BY <2>1, <2>3, TotalIs
  <2>5. f[s].value = Null
    <3>1. f[s].value \in Nat \cup {Null} /\ f[s].value # 0
      BY <2>2, PositionIs DEF Grounded
    <3> QED BY <2>1, <2>4, <3>1, ConstantsTyped
  <2>6. ~ Early(req[r], s) /\ RowsGood
    BY <1>1, RequestIs DEF Early
  <2>7. f[s].weight = Null
    BY <2>2, <2>5, <2>6 DEF OwnRow, RowsGood
  <2>8. f[s].weight = Weight(f[s], q.equity)
    BY <2>5, <2>7 DEF Weight
  <2> QED BY <2>8 DEF f
<1>7. Lone(q)
  <2>1. q.at \in {"weigh", "snapshot"}
    BY <1>1
  <2>2. q.kind # "delete" \/ history.values => \A s \in DOMAIN SeenBy(q) : Worth(SeenBy(q)[s])
    BY <1>2, <1>3
  <2>3. q.at = "snapshot" => \A s \in DOMAIN SeenBy(q) : SeenBy(q)[s].weight = Weight(SeenBy(q)[s], q.equity)
    BY <1>6
  <2> QED BY <1>5, <2>1, <2>2, <2>3 DEF Lone
<1>8. history' = history
  BY DEF Totalled
<1> QED BY <1>1, <1>7, <1>8, LoneTurn, RequestIs

\* Weigh: the weights are of what there is.
LEMMA LoneWeigh ==
  ASSUME EntryInv, NEW r \in Slots, Lone(req[r]), Weigh(r)
  PROVE  Lone(req[r])'
<1>1. PICK q : Turns(r, q) /\ Moved(q, req[r]) /\ q.own = req[r].own /\ Weighed(r, q)
  BY WeighIs
<1>2. SeenBy(q) = SeenBy(req[r]) /\ q.kind = req[r].kind /\ req[r].at = "weigh"
  BY <1>1, SeenSame DEF Moved, Weighed
<1>3. /\ Fresh(req[r])
      /\ req[r].kind # "delete" \/ history.values => \A s \in DOMAIN SeenBy(req[r]) : Worth(SeenBy(req[r])[s])
      /\ req[r].equity = Total(SeenBy(req[r])) + Cash
  BY <1>2 DEF Lone
<1>4. /\ DOMAIN Listed(r) = DOMAIN SeenBy(q)
      /\ \A s \in DOMAIN Listed(r) : Listed(r)[s] = SeenBy(q)[s]
  BY <1>2, <1>3, FreshList
<1>5. /\ q.at = "flush" /\ DOMAIN q.view = DOMAIN SeenBy(q) /\ q.todo = DOMAIN q.view
      /\ q.equity = req[r].equity
      /\ \A s \in DOMAIN q.view :
           /\ q.view[s].weight = Weight(SeenBy(q)[s], q.equity)
           /\ q.view[s] = [SeenBy(q)[s] EXCEPT !.weight = Weight(SeenBy(q)[s], q.equity)]
  BY <1>1, <1>4 DEF Weighed
<1>6. \A s \in DOMAIN q.view : q.view[s] = [SeenBy(q)[s] EXCEPT !.weight = q.view[s].weight]
  BY <1>5
<1>7. q.equity = Total(SeenBy(q)) + Cash
  BY <1>2, <1>3, <1>5
<1>8. q.kind # "delete" \/ history.values => \A s \in DOMAIN SeenBy(q) : Worth(SeenBy(q)[s])
  BY <1>2, <1>3
<1>9. Lone(q)
  BY <1>5, <1>6, <1>7, <1>8 DEF Lone
<1>10. history' = history
  BY DEF Weigh
<1> QED BY <1>1, <1>9, <1>10, LoneTurn, RequestIs

\* Snapshot: it is of what there is.
LEMMA LoneSnapshot ==
  ASSUME EntryInv, NEW r \in Slots, Lone(req[r]), Snapshot(r)
  PROVE  Lone(req[r])'
<1>1. PICK q : /\ Turns(r, q) /\ Moved(q, req[r]) /\ q.own = req[r].own /\ q.view = Listed(r)
               /\ req[r].at = "snapshot" /\ q.at = "commit" /\ q.todo = req[r].todo
               /\ q.equity = req[r].equity
               /\ q.snap.at > latest.at /\ q.snap.equity = Total(Listed(r)) + Cash
               /\ q.snap.values = [s \in DOMAIN Listed(r) |-> Listed(r)[s].value]
  BY SnapshotIs
<1>2. SeenBy(q) = SeenBy(req[r]) /\ q.kind = req[r].kind
  BY <1>1, SeenSame DEF Moved
<1>3. /\ Fresh(req[r])
      /\ req[r].kind # "delete" \/ history.values => \A s \in DOMAIN SeenBy(req[r]) : Worth(SeenBy(req[r])[s])
      /\ req[r].equity = Total(SeenBy(req[r])) + Cash
      /\ \A s \in DOMAIN SeenBy(req[r]) : SeenBy(req[r])[s].weight = Weight(SeenBy(req[r])[s], req[r].equity)
  BY <1>1 DEF Lone
<1>4. /\ Listed(r) = SeenBy(q)
      /\ DOMAIN q.view = DOMAIN SeenBy(q)
      /\ \A s \in DOMAIN q.view : q.view[s] = SeenBy(q)[s]
  BY <1>1, <1>2, <1>3, FreshList
<1>5. Fresh(q)
  BY <1>4 DEF Fresh
<1>6. /\ q.equity = Total(SeenBy(q)) + Cash /\ q.snap.equity = q.equity
      /\ q.snap.values = [s \in DOMAIN SeenBy(q) |-> SeenBy(q)[s].value]
  BY <1>1, <1>2, <1>3, <1>4
<1>7. Lone(q)
  BY <1>1, <1>2, <1>3, <1>5, <1>6 DEF Lone
<1>8. history' = history
  BY DEF Snapshot
<1> QED BY <1>1, <1>7, <1>8, LoneTurn, RequestIs

\* Every step of a request but its commit leaves it alone.
LEMMA LoneStep ==
  ASSUME EntryInv, Agreed, NEW r \in Slots, Lone(req[r]), Step(r), ~ Commit(r)
  PROVE  Lone(req[r])'
<1>1. CASE Upsert(r) \/ Find(r) \/ Delete(r) \/ List(r) \/ Reprice(r)
  BY <1>1, LoneUpsert, LoneFind, LoneDelete, LoneList, LoneReprice
<1>2. CASE Write(r) \/ Repriced(r) \/ Totalled(r) \/ Weigh(r) \/ Flush(r)
  BY <1>2, LoneWrite, LoneDone, LoneTotalled, LoneWeigh, LoneFlush
<1>3. CASE Flushed(r) \/ Snapshot(r)
  BY <1>3, LoneDone, LoneSnapshot
<1>4. CASE Deadlock(r)
  BY <1>4, LoneIdle, RequestIs DEF Deadlock, Fail
<1> QED BY <1>1, <1>2, <1>3, <1>4 DEF Step

\* A step of a request is of one that was received, and changes no other.
LEMMA StepGoes ==
  ASSUME EntryInv, NEW r \in Slots, Step(r)
  PROVE  /\ req[r].at # "idle"
         /\ \A o \in Slots : o # r => req'[o] = req[o]
         /\ UNCHANGED market
         /\ ~ Commit(r) => UNCHANGED <<rows, latest, history>>
<1>1. req \in [Slots -> Requests]
  BY DEF EntryInv, Shaped
<1>2. ASSUME NEW new, Go(r, new) PROVE \A o \in Slots : o # r => req'[o] = req[o]
  BY <1>1, <1>2 DEF Go
<1>3. ASSUME NEW s, NEW next, NEW row, Update(r, s, next, row) PROVE \E new : Go(r, new)
  BY <1>3 DEF Update
<1>4. CASE Upsert(r) \/ Find(r) \/ Delete(r)
  <2>1. req[r].at # "idle" /\ UNCHANGED <<market, rows, latest, history>>
    BY <1>4 DEF Upsert, Find, Delete
  <2>2. \E new : Go(r, new)
    <3>1. CASE Upsert(r)
      BY <3>1 DEF Upsert
    <3>2. CASE Find(r)
      BY <3>2 DEF Find
    <3>3. CASE Delete(r)
      BY <3>3 DEF Delete
    <3> QED BY <1>4, <3>1, <3>2, <3>3
  <2> QED BY <1>2, <2>1, <2>2
<1>5. CASE List(r) \/ Reprice(r)
  <2>1. req[r].at # "idle" /\ UNCHANGED <<market, rows, latest, history>>
    BY <1>5 DEF List, Reprice
  <2>2. \E new : Go(r, new)
    <3>1. CASE List(r)
      BY <3>1 DEF List
    <3>2. CASE Reprice(r)
      BY <3>2 DEF Reprice
    <3> QED BY <1>5, <3>1, <3>2
  <2> QED BY <1>2, <2>1, <2>2
<1>6. CASE Write(r) \/ Flush(r)
  <2>1. req[r].at # "idle" /\ UNCHANGED <<market, rows, latest, history>>
    BY <1>6 DEF Write, Flush
  <2>2. \E s, next, row : Update(r, s, next, row)
    <3>1. CASE Write(r)
      BY <3>1 DEF Write
    <3>2. CASE Flush(r)
      BY <3>2 DEF Flush
    <3> QED BY <1>6, <3>1, <3>2
  <2> QED BY <1>2, <1>3, <2>1, <2>2
<1>7. CASE Repriced(r) \/ Totalled(r) \/ Weigh(r) \/ Flushed(r) \/ Snapshot(r)
  <2>1. req[r].at # "idle" /\ UNCHANGED <<market, rows, latest, history>>
    BY <1>7 DEF Repriced, Totalled, Weigh, Flushed, Snapshot
  <2>2. \E new : Go(r, new)
    <3>1. CASE Repriced(r) \/ Flushed(r)
      BY <3>1 DEF Repriced, Flushed
    <3>2. CASE Totalled(r)
      BY <3>2 DEF Totalled
    <3>3. CASE Weigh(r)
      BY <3>3 DEF Weigh
    <3>4. CASE Snapshot(r)
      BY <3>4 DEF Snapshot
    <3> QED BY <1>7, <3>1, <3>2, <3>3, <3>4
  <2> QED BY <1>2, <2>1, <2>2
<1>8. CASE Commit(r)
  BY <1>2, <1>8 DEF Commit
<1>9. CASE Deadlock(r)
  <2>1. Go(r, Idle) /\ UNCHANGED <<market, rows, latest, history>>
    BY <1>9 DEF Deadlock, Fail
  <2>2. PICK o : r \in WaitsFor(o)
    BY <1>9 DEF Deadlock
  <2>3. \E s : r \in Holder(s, o)
    BY <2>2 DEF WaitsFor
  <2>4. DOMAIN req[r].own # {}
    BY <2>3 DEF Holder
  <2>5. req[r].at # "idle"
    BY <2>4, RequestIs, IdleGood DEF Placed
  <2> QED BY <1>2, <2>1, <2>5
<1> QED BY <1>4, <1>5, <1>6, <1>7, <1>8, <1>9 DEF Step

\* What a commit leaves.
LEMMA CommitAgrees ==
  ASSUME FiguresInv, NEW r \in Slots, Commit(r)
  PROVE  Agreed' /\ history'.lone = history.lone
<1>1. rows' = SeenBy(req[r]) /\ req[r].at = "commit"
  BY CommitIs DEF FiguresInv, Commit
<1>2. DOMAIN history = {"lone", "weights", "values"}
  BY DEF FiguresInv, EntryInv, Shaped
<1>3. /\ history'.weights = (r \in history.lone) /\ history'.lone = history.lone
      /\ history'.values = (r \in history.lone /\ (history.values \/ req[r].kind # "delete"))
  BY <1>2 DEF Commit
<1>4. CASE r \notin history.lone
  BY <1>3, <1>4 DEF Agreed
<1>5. CASE r \in history.lone
  <2>1. Lone(req[r])
    BY <1>5 DEF FiguresInv, Alone
  <2>2. /\ req[r].kind # "delete" \/ history.values => \A s \in DOMAIN rows' : Worth(rows'[s])
        /\ \A s \in DOMAIN rows' : rows'[s].weight = Weight(rows'[s], req[r].equity)
        /\ req[r].snap.at > latest.at /\ req[r].snap.equity = req[r].equity
        /\ req[r].snap.values = [s \in DOMAIN rows' |-> rows'[s].value]
    BY <1>1, <2>1 DEF Lone
  <2>3. latest' = req[r].snap
    BY <2>2 DEF Commit
  <2>4. history'.values => \A s \in DOMAIN rows' : Worth(rows'[s])
    BY <1>3, <2>2
  <2>5. /\ latest'.values = [s \in DOMAIN rows' |-> rows'[s].value]
        /\ \A s \in DOMAIN rows' : rows'[s].weight = Weight(rows'[s], latest'.equity)
    BY <2>2, <2>3
  <2>6. Agreed'
    BY <2>4, <2>5 DEF Agreed
  <2> QED BY <1>3, <2>6
<1> QED BY <1>3, <1>4, <1>5

\* Every step keeps what the last request left, if it met no other.
LEMMA StepFiguresInv ==
  ASSUME FiguresInv, [NextPortfolio]_portfolioVars
  PROVE  FiguresInv'
<1>1. EntryInv' /\ EntryInv /\ Alone /\ Agreed
  BY StepEntryInv DEF FiguresInv
<1>2. DOMAIN history = {"lone", "weights", "values"}
  BY <1>1 DEF EntryInv, Shaped
<1>3. ASSUME UNCHANGED <<rows, latest, req, history>> PROVE Alone' /\ Agreed'
  <2>1. Agreed'
    BY <1>1, <1>3 DEF Agreed, Worth, Weight
  <2>2. \A r \in Slots : Lone(req[r]) => Lone(req[r])'
    BY <1>3, LoneSame
  <2> QED BY <1>1, <1>3, <2>1, <2>2 DEF Alone
<1>4. ASSUME NEW r \in Slots, NEW kind \in Kinds, NEW s, NEW n, Begin(r, kind, s, n)
      PROVE  Alone' /\ Agreed'
  <2>1. /\ UNCHANGED <<rows, latest>>
        /\ history' = [history EXCEPT !.lone = IF \A o \in Slots : req[o].at = "idle" THEN {r} ELSE {}]
        /\ Go(r, [Idle EXCEPT !.at = CASE kind = "upsert" -> "change" [] kind = "delete" -> "find"
                                       [] kind = "refresh" -> "list",
                              !.kind = kind, !.symbol = s, !.qty = n])
    BY <1>4 DEF Begin
  <2>2. /\ history'.weights = history.weights /\ history'.values = history.values
        /\ history'.lone = IF \A o \in Slots : req[o].at = "idle" THEN {r} ELSE {}
    BY <1>2, <2>1
  <2>3. Agreed'
    BY <1>1, <2>1, <2>2 DEF Agreed, Worth, Weight
  <2>4. req'[r].at \in {"change", "find", "list"} /\ req'[r].view = <<>>
    BY <1>1, <2>1, IdleGood DEF Go, EntryInv, Shaped, Kinds, Requests
  <2>5. Fresh(req[r])'
    BY <2>4, NothingIs DEF Fresh
  <2>6. Lone(req[r])'
    BY <2>4, <2>5 DEF Lone
  <2>7. \A o \in Slots \ {r} : req'[o] = req[o]
    BY <1>1, <2>1 DEF Go, EntryInv, Shaped
  <2> QED BY <2>2, <2>3, <2>6, <2>7 DEF Alone
<1>5. ASSUME NEW r \in Slots, Step(r) PROVE Alone' /\ Agreed'
  <2>1. /\ req[r].at # "idle"
        /\ \A o \in Slots : o # r => req'[o] = req[o]
    BY <1>1, <1>5, StepGoes
  <2>2. history.lone \subseteq {r}
    BY <1>1, <2>1 DEF Alone
  <2>3. CASE Commit(r)
    <3>1. Agreed' /\ history'.lone = history.lone
      BY <2>3, CommitAgrees
    <3>2. Lone(req[r])'
      BY <1>1, <2>3, LoneIdle DEF Commit, EntryInv
    <3> QED BY <1>1, <2>1, <2>2, <3>1, <3>2 DEF Alone
  <2>4. CASE ~ Commit(r)
    <3>1. UNCHANGED <<rows, latest, history>>
      BY <1>1, <1>5, <2>4, StepGoes
    <3>2. Agreed'
      BY <1>1, <3>1 DEF Agreed, Worth, Weight
    <3>3. r \in history.lone => Lone(req[r])'
      BY <1>1, <1>5, <2>4, LoneStep DEF Alone
    <3> QED BY <1>1, <2>1, <2>2, <3>1, <3>2, <3>3 DEF Alone
  <2> QED BY <2>3, <2>4
<1>6. Alone' /\ Agreed'
  <2>1. ASSUME NEW s \in Symbols, NEW p \in Prices, StorePrice(s, p) PROVE Alone' /\ Agreed'
    BY <1>3, <2>1 DEF StorePrice
  <2>2. CASE UNCHANGED portfolioVars
    BY <1>3, <2>2 DEF portfolioVars
  <2>3. {"upsert", "delete"} \subseteq Kinds /\ "refresh" \in Kinds
    BY DEF Kinds
  <2> QED BY <1>4, <1>5, <2>1, <2>2, <2>3 DEF NextPortfolio
<1> QED BY <1>1, <1>6 DEF FiguresInv

-----------------------------------------------------------------------------
(* The figures agree *)

\* What a research run is told adds up, with any prices stored since.
LEMMA ContextAdds ==
  ASSUME EntryInv
  PROVE  ContextAddsUp
<1> DEFINE f == ValuesOf(rows)
           g == [t \in DOMAIN rows |-> Live(t)]
           D == DOMAIN rows
<1>1. rows \in Sheets /\ RowsGood /\ market \in [Symbols -> Prices \cup {Null}]
  BY DEF EntryInv, Shaped
<1>2. IsFiniteSet(D) /\ Total(rows) = SumOver(f, D) /\ D \subseteq Symbols
  BY <1>1, TotalIs, SheetIs
<1>3. \A t \in D : f[t] \in Int /\ g[t] \in Int /\ f[t] <= g[t] /\ g[t] \in Nat /\ f[t] \in Nat
  <2> SUFFICES ASSUME NEW t \in D
               PROVE  f[t] \in Nat /\ g[t] \in Nat /\ f[t] <= g[t]
    OBVIOUS
  <2>1. f[t] = ValueOf(rows[t]) /\ g[t] = Live(t) /\ f[t] \in Nat
    BY <1>1, TotalIs
  <2>2. PICK a, m : a = rows[t] /\ m = market[t]
    OBVIOUS
  <2>3. a \in Positions /\ m \in Prices \cup {Null}
    BY <1>1, <1>2, <2>2, SheetIs
  <2>4. a.qty \in Nat /\ a.value \in Nat \cup {Null} /\ Prices \subseteq Nat /\ Null \notin Nat
    BY <2>3, PositionIs, ConstantsTyped
  <2>5. Live(t) = IF a.value # Null THEN a.value ELSE IF m # Null THEN a.qty * m ELSE 0
    BY <2>2 DEF Live
  <2>6. ValueOf(a) = IF a.value = Null THEN 0 ELSE a.value
    BY DEF ValueOf
  <2>7. m # Null => a.qty * m \in Nat
    BY <2>3, <2>4
  <2> HIDE DEF f, g, D
  <2> QED BY <2>1, <2>2, <2>4, <2>5, <2>6, <2>7
<1>4. SumFunction(g) = SumOver(g, D)
  BY DEF SumFunction, SumOver
<1>5. ASSUME NEW s \in DOMAIN rows PROVE Context(s).equity = Cash + SumFunction([t \in DOMAIN rows |-> Context(t).value])
  <2>1. Context(s).equity = IF SumFunction(g) + Cash > 0 /\ SumFunction(g) + Cash # Total(rows) + Cash
                            THEN SumFunction(g) + Cash ELSE Total(rows) + Cash
    BY DEF Context
  <2>2. [t \in DOMAIN rows |-> Context(t).value] = g
    BY DEF Context
  <2> HIDE DEF f, g, D
  <2>3. SumOver(f, D) <= SumOver(g, D)
    BY <1>2, <1>3, SumAtMost
  <2>4. SumOver(f, D) \in Int /\ SumOver(f, D) >= 0 /\ SumOver(g, D) \in Int
    <3>1. /\ \A t \in D : f[t] \in Int
          /\ \A t \in D : g[t] \in Int
          /\ \A t \in D : f[t] >= 0
      BY <1>3
    <3>2. SumOver(f, D) \in Int /\ SumOver(f, D) >= 0
      BY <1>2, <3>1, SumTyped
    <3>3. SumOver(g, D) \in Int
      BY <1>2, <3>1, SumTyped
    <3> QED BY <3>2, <3>3
  <2> QED BY <1>2, <1>4, <2>1, <2>2, <2>3, <2>4, ConstantsTyped
<1> QED BY <1>5 DEF ContextAddsUp

\* What the invariant says of weights, values, snapshot and context.
LEMMA FiguresFollow ==
  ASSUME FiguresInv
  PROVE  FiguresAgree
<1>1. EntryInv /\ Agreed /\ RowsGood
  BY DEF FiguresInv, EntryInv
<1>2. WeightsRecomputed
  BY <1>1 DEF WeightsRecomputed, Agreed, Weight
<1>3. WorthItsQuantity
  BY <1>1 DEF WorthItsQuantity, Agreed, Worth, RowsGood, Grounded
<1>4. ContextAddsUp
  BY <1>1, ContextAdds
<1> QED BY <1>2, <1>3, <1>4 DEF FiguresAgree

\* FiguresAgree: after a request that met no other, the weights are those of
\* the latest snapshot's total, a position is worth its quantity at its price,
\* and the context adds up in every state.
THEOREM FiguresAgreeHolds == PortfolioSpec => []FiguresAgree
<1>1. InitPortfolio => FiguresInv
  <2> SUFFICES ASSUME InitPortfolio PROVE FiguresInv
    OBVIOUS
  <2>1. /\ EntryInv
        /\ latest.equity = Cash /\ latest.values = [s \in Entered |-> Null]
        /\ DOMAIN rows = Entered
        /\ \A s \in Entered : rows[s].value = Null /\ rows[s].weight = Null /\ rows[s].price = Null
        /\ history.lone = {}
    BY InitEntryInv
  <2>2. [s \in Entered |-> Null] = [s \in DOMAIN rows |-> rows[s].value]
    BY <2>1
  <2>3. Agreed
    BY <2>1, <2>2 DEF Agreed, Worth, Weight
  <2>4. Alone
    BY <2>1 DEF Alone
  <2> QED BY <2>1, <2>3, <2>4 DEF FiguresInv
<1>2. FiguresInv /\ [NextPortfolio]_portfolioVars => FiguresInv'
  BY StepFiguresInv
<1>3. FiguresInv => FiguresAgree
  BY FiguresFollow
<1> QED BY <1>1, <1>2, <1>3, PTL DEF PortfolioSpec


-----------------------------------------------------------------------------
(* Keys and times *)

\* A row of symbol s has this key: one that is committed, or one being written.
Names(s, id) == \/ s \in DOMAIN rows /\ rows[s].id = id
                \/ \E r \in Slots : s \in DOMAIN req[r].own /\ req[r].own[s] # Null /\ req[r].own[s].id = id

\* A key is of one symbol.
OneSymbol == \A s, t \in Symbols, id \in Keys : Names(s, id) /\ Names(t, id) => s = t

\* requests that may take a snapshot yet
Open == {r \in Slots : req[r].at \notin {"idle", "commit"}}

\* Every request takes one snapshot at most, so that the clock is ahead of the
\* latest by those that may follow.
Clocked == /\ clock \in Nat /\ latest.at + Cardinality(Open) <= clock
           /\ \A r \in Slots : req[r].snap.at + Cardinality(Open) <= clock

TypesInv == EntryInv /\ OneSymbol /\ Clocked /\ priced \in 0..MaxPrices

\* Where a request is after a step that takes no snapshot and commits nothing.
LEMMA StepAt ==
  ASSUME EntryInv, NEW r \in Slots, Step(r), ~ Commit(r), ~ Snapshot(r)
  PROVE  /\ UNCHANGED <<clock, priced>>
         /\ \/ req'[r] = Idle
            \/ /\ req[r].at \notin {"idle", "commit"} /\ req'[r].at \notin {"idle", "commit"}
               /\ req'[r].snap = req[r].snap
<1>1. req \in [Slots -> Requests] /\ req[r] \in Requests
  BY DEF EntryInv, Shaped
<1>2. ASSUME NEW q, Go(r, q) PROVE req'[r] = q
  BY <1>1, <1>2 DEF Go
<1>3. CASE Upsert(r)
  <2>1. PICK x, y : Go(r, [req[r] EXCEPT !.at = "list", !.own = x, !.view = y])
    BY <1>3 DEF Upsert
  <2> QED BY <1>1, <1>2, <1>3, <2>1 DEF Upsert, Requests
<1>4. CASE Find(r)
  <2>1. Go(r, [req[r] EXCEPT !.at = "delete"]) \/ Go(r, Idle)
    BY <1>4 DEF Find
  <2> QED BY <1>1, <1>2, <1>4, <2>1 DEF Find, Requests
<1>5. CASE Delete(r)
  <2>1. PICK x : Go(r, [req[r] EXCEPT !.at = "total", !.own = x])
    BY <1>5 DEF Delete
  <2> QED BY <1>1, <1>2, <1>5, <2>1 DEF Delete, Requests
<1>6. CASE List(r)
  <2>1. PICK x, y : Go(r, [req[r] EXCEPT !.at = "price", !.view = x, !.todo = y])
    BY <1>6 DEF List
  <2> QED BY <1>1, <1>2, <1>6, <2>1 DEF List, Requests
<1>7. CASE Reprice(r)
  <2>1. PICK s : \/ Go(r, [req[r] EXCEPT !.todo = @ \ {s}])
                 \/ Go(r, [req[r] EXCEPT !.at = "write", !.view[s].price = market[s],
                                         !.view[s].value = req[r].view[s].qty * market[s]])
    BY <1>7 DEF Reprice
  <2> QED BY <1>1, <1>2, <1>7, <2>1 DEF Reprice, Requests
<1>8. CASE Write(r)
  <2>1. PICK s, row : Update(r, s, [req[r] EXCEPT !.at = "price", !.todo = @ \ {s}], row)
    BY <1>8 DEF Write
  <2>2. PICK p : p = [req[r] EXCEPT !.at = "price", !.todo = @ \ {s}]
    OBVIOUS
  <2>3. p.at = "price" /\ p.snap = req[r].snap /\ p \in [DOMAIN req[r] -> {p[x] : x \in DOMAIN req[r]}]
    BY <1>1, <2>2 DEF Requests
  <2>4. Go(r, [p EXCEPT !.own = Put(@, s, row)]) \/ Go(r, Idle) \/ Go(r, p)
    BY <2>1, <2>2 DEF Update
  <2>5. DOMAIN req[r] = {"at", "kind", "symbol", "qty", "view", "own", "todo", "equity", "snap"}
    BY <1>1 DEF Requests
  <2> QED BY <1>2, <1>8, <2>3, <2>4, <2>5 DEF Write
<1>9. CASE Flush(r)
  <2>1. PICK s, row : Update(r, s, [req[r] EXCEPT !.todo = @ \ {s}], row)
    BY <1>9 DEF Flush
  <2>2. PICK p : p = [req[r] EXCEPT !.todo = @ \ {s}]
    OBVIOUS
  <2>3. p.at = "flush" /\ p.snap = req[r].snap /\ p \in [DOMAIN req[r] -> {p[x] : x \in DOMAIN req[r]}]
    BY <1>1, <1>9, <2>2 DEF Requests, Flush
  <2>4. Go(r, [p EXCEPT !.own = Put(@, s, row)]) \/ Go(r, Idle) \/ Go(r, p)
    BY <2>1, <2>2 DEF Update
  <2>5. DOMAIN req[r] = {"at", "kind", "symbol", "qty", "view", "own", "todo", "equity", "snap"}
    BY <1>1 DEF Requests
  <2> QED BY <1>2, <1>9, <2>3, <2>4, <2>5 DEF Flush
<1>10. CASE Repriced(r) \/ Flushed(r)
  <2>1. PICK a \in {"total", "snapshot"} : Go(r, [req[r] EXCEPT !.at = a])
    BY <1>10 DEF Repriced, Flushed
  <2> QED BY <1>1, <1>2, <1>10, <2>1 DEF Repriced, Flushed, Requests
<1>11. CASE Totalled(r)
  <2>1. PICK a \in {"weigh", "snapshot"} :
          \E x, y : Go(r, [req[r] EXCEPT !.at = a, !.view = x, !.equity = y])
    <3> DEFINE e == Total(Listed(r)) + Cash
               b == IF e > 0 THEN "weigh" ELSE "snapshot"
    <3>1. Go(r, [req[r] EXCEPT !.at = b, !.view = Listed(r), !.equity = e])
      BY <1>11 DEF Totalled
    <3>2. b \in {"weigh", "snapshot"}
      OBVIOUS
    <3> HIDE DEF e, b
    <3> QED BY <3>1, <3>2
  <2> QED BY <1>1, <1>2, <1>11, <2>1 DEF Totalled, Requests
<1>12. CASE Weigh(r)
  <2>1. PICK x, y : Go(r, [req[r] EXCEPT !.at = "flush", !.todo = x, !.view = y])
    BY <1>12 DEF Weigh
  <2> QED BY <1>1, <1>2, <1>12, <2>1 DEF Weigh, Requests
<1>13. CASE Deadlock(r)
  BY <1>2, <1>13 DEF Deadlock, Fail
<1> QED BY <1>3, <1>4, <1>5, <1>6, <1>7, <1>8, <1>9, <1>10, <1>11, <1>12, <1>13 DEF Step

\* The keys of what it writes.
LEMMA StepOwn ==
  ASSUME EntryInv, NEW r \in Slots, Step(r), ~ Commit(r)
  PROVE  \A s \in DOMAIN req'[r].own : req'[r].own[s] # Null =>
            \/ Names(s, req'[r].own[s].id)
            \/ s = req[r].symbol /\ req'[r].own[s].id \notin used
<1>1. req \in [Slots -> Requests] /\ Shaped
  BY DEF EntryInv, Shaped
<1>2. ASSUME NEW q, Go(r, q) PROVE req'[r] = q
  BY <1>1, <1>2 DEF Go
<1>3. ASSUME NEW q, Turns(r, q), q.own = req[r].own
      PROVE  \A s \in DOMAIN req'[r].own : req'[r].own[s] # Null => Names(s, req'[r].own[s].id)
  BY <1>2, <1>3 DEF Turns, Names
<1>4. Go(r, Idle) => \A s \in DOMAIN req'[r].own : FALSE
  BY <1>2, IdleGood
<1>5. CASE Upsert(r)
  <2>1. PICK row, q : /\ IF req[r].symbol \in DOMAIN rows THEN row.id = rows[req[r].symbol].id ELSE row.id \notin used
                      /\ Turns(r, q)
                      /\ DOMAIN q.own = {req[r].symbol} /\ q.own[req[r].symbol] = row
    BY <1>5, UpsertIs
  <2>2. req'[r] = q
    BY <1>2, <2>1 DEF Turns
  <2> QED BY <2>1, <2>2 DEF Names
<1>6. CASE Find(r)
  BY <1>2, <1>4, <1>6, FindIs DEF Turns
<1>7. CASE Delete(r)
  BY <1>2, <1>7, DeleteIs DEF Turns
<1>8. CASE List(r) \/ Reprice(r)
  BY <1>3, <1>8, RelistIs, RepriceIs DEF Repricing
<1>9. CASE Repriced(r) \/ Flushed(r)
  BY <1>3, <1>9, DoneIs
<1>10. CASE Totalled(r) \/ Weigh(r)
  BY <1>3, <1>10, TotalledIs, WeighIs
<1>11. CASE Snapshot(r)
  BY <1>3, <1>11, SnapshotIs
<1>12. CASE Deadlock(r)
  BY <1>4, <1>12 DEF Deadlock, Fail
<1>13. CASE Write(r) \/ Flush(r)
  <2>1. PICK s, p, row : /\ s \in Symbols /\ Passed(r, s, p) /\ Update(r, s, p, row)
                         /\ UNCHANGED <<market, rows, latest, used, history>>
                         /\ Match(r, s) => Follows(r, s, row)
    BY <1>13, WriteUpdates, FlushUpdates
  <2>2. \/ Go(r, Idle)
        \/ ~ Match(r, s) /\ Turns(r, p)
        \/ Match(r, s) /\ \E q : Turns(r, q) /\ Rewritten(p, s, row, q)
    <3>1. Match(r, s) => row \in Positions
      BY <2>1 DEF Follows
    <3> QED BY <2>1, <3>1, UpdateIs
  <2>3. CASE Go(r, Idle)
    BY <1>4, <2>3
  <2>4. CASE Turns(r, p)
    BY <1>3, <2>1, <2>4 DEF Passed
  <2>5. ASSUME Match(r, s), NEW q, Turns(r, q), Rewritten(p, s, row, q)
        PROVE  \A x \in DOMAIN req'[r].own : req'[r].own[x] # Null => Names(x, req'[r].own[x].id)
    <3>1. req'[r] = q /\ p.own = req[r].own
      BY <1>2, <2>1, <2>5 DEF Turns, Passed
    <3>2. /\ DOMAIN q.own = DOMAIN req[r].own \cup {s} /\ q.own[s] = row
          /\ \A x \in DOMAIN req[r].own : x # s => q.own[x] = req[r].own[x]
      BY <2>5, <3>1 DEF Rewritten
    <3>3. s \in DOMAIN SeenBy(req[r]) /\ row.id = SeenBy(req[r])[s].id
      BY <2>1, <2>5 DEF Match, Follows
    <3>4. Names(s, row.id)
      <4>1. SeenBy(req[r])[s] = IF s \in DOMAIN req[r].own THEN req[r].own[s] ELSE rows[s]
        BY <3>3, SeenIs, RequestIs
      <4>2. s \in DOMAIN rows \cup DOMAIN req[r].own /\ (s \in DOMAIN req[r].own => req[r].own[s] # Null)
        BY <3>3, SeenGood
      <4> QED BY <3>3, <4>1, <4>2 DEF Names
    <3>5. \A x \in DOMAIN req[r].own : x # s /\ req[r].own[x] # Null => Names(x, req[r].own[x].id)
      BY DEF Names
    <3> QED BY <3>1, <3>2, <3>4, <3>5
  <2> QED BY <2>2, <2>3, <2>4, <2>5
<1> QED BY <1>5, <1>6, <1>7, <1>8, <1>9, <1>10, <1>11, <1>12, <1>13 DEF Step

\* A key that is a row's was given.
LEMMA NamesUsed ==
  ASSUME EntryInv, NEW s, NEW id, Names(s, id)
  PROVE  id \in used
<1>1. CASE s \in DOMAIN rows /\ rows[s].id = id
  BY <1>1 DEF EntryInv, RowsGood
<1>2. CASE \E r \in Slots : s \in DOMAIN req[r].own /\ req[r].own[s] # Null /\ req[r].own[s].id = id
  BY <1>2 DEF EntryInv, Keyed
<1> QED BY <1>1, <1>2 DEF Names

\* A step that names what was named, or a symbol by a new key.
LEMMA SymbolsStay ==
  ASSUME EntryInv, OneSymbol, NEW x,
         \A s, id : Names(s, id)' => Names(s, id) \/ (s = x /\ id \notin used)
  PROVE  OneSymbol'
<1> SUFFICES ASSUME NEW s \in Symbols, NEW t \in Symbols, NEW id \in Keys, Names(s, id)', Names(t, id)'
             PROVE  s = t
  BY DEF OneSymbol
<1>1. Names(s, id) \/ (s = x /\ id \notin used)
  OBVIOUS
<1>2. Names(t, id) \/ (t = x /\ id \notin used)
  OBVIOUS
<1> QED BY <1>1, <1>2, NamesUsed DEF OneSymbol

\* No step gives two symbols a key.
LEMMA StepOneSymbol ==
  ASSUME EntryInv, OneSymbol, [NextPortfolio]_portfolioVars
  PROVE  OneSymbol'
<1>1. ASSUME UNCHANGED <<rows, req>> PROVE OneSymbol'
  BY <1>1 DEF OneSymbol, Names
<1>2. ASSUME NEW r \in Slots, NEW kind, NEW s, NEW n, Begin(r, kind, s, n) PROVE OneSymbol'
  <2>1. rows' = rows /\ \A o \in Slots : o # r => req'[o] = req[o]
    BY <1>2 DEF Begin, Go, EntryInv, Shaped
  <2>2. req'[r].own = <<>>
    <3>1. PICK a, b, c, d : Go(r, [Idle EXCEPT !.at = a, !.kind = b, !.symbol = c, !.qty = d])
      BY <1>2 DEF Begin
    <3>2. req \in [Slots -> Requests]
      BY DEF EntryInv, Shaped
    <3> QED BY <3>1, <3>2 DEF Go, Idle
  <2>3. DOMAIN req'[r].own = {}
    BY <2>2
  <2>4. \A t, id : Names(t, id)' => Names(t, id)
    BY <2>1, <2>3 DEF Names
  <2> QED BY <2>4, SymbolsStay
<1>3. ASSUME NEW r \in Slots, Step(r), ~ Commit(r) PROVE OneSymbol'
  <2>1. rows' = rows /\ \A o \in Slots : o # r => req'[o] = req[o]
    BY <1>3, StepGoes
  <2>2. \A t \in DOMAIN req'[r].own : req'[r].own[t] # Null =>
            \/ Names(t, req'[r].own[t].id)
            \/ t = req[r].symbol /\ req'[r].own[t].id \notin used
    BY <1>3, StepOwn
  <2>3. \A t, id : Names(t, id)' => Names(t, id) \/ (t = req[r].symbol /\ id \notin used)
    BY <2>1, <2>2 DEF Names
  <2> QED BY <2>3, SymbolsStay
<1>4. ASSUME NEW r \in Slots, Commit(r) PROVE OneSymbol'
  <2>1. /\ req'[r] = Idle /\ \A o \in Slots : o # r => req'[o] = req[o]
        /\ \A s \in DOMAIN rows' : rows'[s] = IF s \in DOMAIN req[r].own THEN req[r].own[s] ELSE rows[s]
        /\ \A s : s \in DOMAIN rows' <=> /\ s \in DOMAIN rows \cup DOMAIN req[r].own
                                         /\ s \in DOMAIN req[r].own => req[r].own[s] # Null
    BY <1>4, CommitIs
  <2>2. DOMAIN req'[r].own = {}
    BY <2>1, IdleGood
  <2>3. \A t, id : Names(t, id)' => Names(t, id)
    BY <2>1, <2>2 DEF Names
  <2> QED BY <2>3, SymbolsStay
<1>5. CASE UNCHANGED portfolioVars
  BY <1>1, <1>5 DEF portfolioVars
<1>6. ASSUME NEW s, NEW p, StorePrice(s, p) PROVE OneSymbol'
  BY <1>1, <1>6 DEF StorePrice
<1> QED BY <1>2, <1>3, <1>4, <1>5, <1>6 DEF NextPortfolio

-----------------------------------------------------------------------------
(* The clock *)

\* How many may take a snapshot yet.
LEMMA OpenIs ==
  /\ IsFiniteSet(Open) /\ Cardinality(Open) \in Nat
  /\ \A r \in Open : Cardinality(Open \ {r}) = Cardinality(Open) - 1
  /\ \A r \in Slots \ Open : Cardinality(Open \cup {r}) = Cardinality(Open) + 1
<1>1. IsFiniteSet(Open)
  <2>1. Open \subseteq Slots
    BY DEF Open
  <2> QED BY <2>1, ConstantsTyped, FS_Subset
<1> QED BY <1>1, FS_CardinalityType, FS_RemoveElement, FS_AddElement

\* The snapshot to come is the one after the latest.
LEMMA NowFollows ==
  ASSUME Shaped, NEW c \in Nat, latest.at <= c, \A o \in Slots : req[o].snap.at <= c
  PROVE  Now <= c + 1
<1> DEFINE S == {latest.at} \cup {req[o].snap.at : o \in Slots}
<1>1. S \in SUBSET Nat /\ S # {}
  BY DEF Shaped, Requests, SnapshotRows
<1>2. \A x \in S : x <= c
  OBVIOUS
<1>3. Now = 1 + Max(S)
  BY DEF Now
<1> HIDE DEF S
<1>4. S \subseteq 0..c
  BY <1>1, <1>2
<1>5. PICK x \in S : \A y \in S : y <= x
  BY <1>1, <1>4, Highest
<1>6. Max(S) \in S
  BY <1>1, <1>5 DEF Max
<1>7. PICK m : m = Max(S)
  OBVIOUS
<1>8. m \in Nat /\ m <= c /\ Now = 1 + m
  BY <1>1, <1>2, <1>3, <1>6, <1>7
<1> QED BY <1>8

\* Only requests that were received may take one.
LEMMA StepClocked ==
  ASSUME EntryInv, Clocked, [NextPortfolio]_portfolioVars
  PROVE  Clocked'
<1>1. /\ req \in [Slots -> Requests] /\ latest.at \in Nat /\ clock \in Nat
      /\ \A o \in Slots : req[o].snap.at \in Nat
  BY DEF EntryInv, Shaped, Requests, SnapshotRows, Clocked
<1>2. PICK n : n = Cardinality(Open)
  OBVIOUS
<1>3. n \in Nat /\ latest.at + n <= clock /\ \A o \in Slots : req[o].snap.at + n <= clock
  BY <1>2, OpenIs DEF Clocked
<1>4. Idle.at = "idle" /\ Idle.snap.at = 0
  BY DEF Idle, NoSnapshot
<1>5. ASSUME UNCHANGED <<latest, clock, req>> PROVE Clocked'
  BY <1>5 DEF Clocked, Open
<1>6. ASSUME NEW r \in Slots, NEW kind \in Kinds, NEW s, NEW q, Begin(r, kind, s, q) PROVE Clocked'
  <2>1. /\ req[r].at = "idle" /\ clock' = clock + 1 /\ latest' = latest
        /\ \A o \in Slots : o # r => req'[o] = req[o]
    BY <1>1, <1>6 DEF Begin, Go
  <2>2. req'[r].at \notin {"idle", "commit"} /\ req'[r].snap.at = 0
    <3>1. PICK a \in {"change", "find", "list"} :
            Go(r, [Idle EXCEPT !.at = a, !.kind = kind, !.symbol = s, !.qty = q])
      BY <1>6 DEF Begin, Kinds
    <3> QED BY <1>1, <3>1 DEF Go, Idle, NoSnapshot
  <2>3. Open' = Open \cup {r} /\ r \in Slots \ Open
    BY <2>1, <2>2 DEF Open
  <2>4. Cardinality(Open') = n + 1
    BY <1>2, <2>3, OpenIs
  <2> QED BY <1>1, <1>3, <2>1, <2>2, <2>4 DEF Clocked
<1>7. ASSUME NEW r \in Slots, Step(r), ~ Commit(r), ~ Snapshot(r) PROVE Clocked'
  <2>1. latest' = latest /\ \A o \in Slots : o # r => req'[o] = req[o]
    BY <1>7, StepGoes
  <2>2. /\ clock' = clock
        /\ \/ req'[r] = Idle
           \/ /\ req[r].at \notin {"idle", "commit"} /\ req'[r].at \notin {"idle", "commit"}
              /\ req'[r].snap = req[r].snap
    BY <1>7, StepAt
  <2>3. Open' = Open \/ (r \in Open /\ Open' = Open \ {r})
    BY <1>4, <2>1, <2>2 DEF Open
  <2>4. PICK m \in Nat : m = Cardinality(Open') /\ m <= n
    <3>1. CASE Open' = Open
      BY <1>2, <1>3, <3>1
    <3>2. CASE r \in Open /\ Open' = Open \ {r}
      <4>1. Cardinality(Open') = n - 1 /\ n \in Nat
        BY <1>2, <1>3, <3>2, OpenIs
      <4>2. r \in Open => n # 0
        BY <1>2, OpenIs, FS_EmptySet
      <4> QED BY <3>2, <4>1, <4>2
    <3> QED BY <2>3, <3>1, <3>2
  <2>5. \A o \in Slots : req'[o].snap.at + m <= clock
    BY <1>1, <1>3, <1>4, <2>1, <2>2, <2>4
  <2> QED BY <1>1, <1>3, <2>1, <2>2, <2>4, <2>5 DEF Clocked
<1>8. ASSUME NEW r \in Slots, Snapshot(r) PROVE Clocked'
  <2>0. PICK q : /\ Turns(r, q) /\ req[r].at = "snapshot" /\ q.at = "commit"
                 /\ q.snap = [at |-> Now, equity |-> Total(Listed(r)) + Cash,
                              values |-> [s \in DOMAIN Listed(r) |-> Listed(r)[s].value]]
    BY <1>8, SnapshotIs
  <2>1. Turns(r, q) /\ req[r].at = "snapshot" /\ q.at = "commit" /\ q.snap.at = Now
    BY <2>0
  <2>2. latest' = latest /\ clock' = clock /\ req'[r] = q /\ \A o \in Slots : o # r => req'[o] = req[o]
    BY <1>1, <1>8, <2>1 DEF Turns, Go, Snapshot
  <2>3. Open' = Open \ {r} /\ r \in Open
    BY <2>1, <2>2 DEF Open
  <2>4. Cardinality(Open') = n - 1
    BY <1>2, <2>3, OpenIs
  <2>5. PICK c \in Nat : c = clock - n
    BY <1>1, <1>3
  <2>6. latest.at <= c /\ \A o \in Slots : req[o].snap.at <= c
    BY <1>1, <1>3, <2>5
  <2>7. Now <= c + 1 /\ Now \in Nat
    BY <2>6, NowFollows, NowIs DEF EntryInv
  <2>8. \A o \in Slots : req'[o].snap.at + (n - 1) <= clock
    BY <1>1, <1>3, <2>1, <2>2, <2>5, <2>7
  <2> QED BY <1>1, <1>3, <2>2, <2>4, <2>8 DEF Clocked
<1>9. ASSUME NEW r \in Slots, Commit(r) PROVE Clocked'
  <2>1. /\ clock' = clock /\ req[r].at = "commit" /\ req'[r] = Idle
        /\ latest' \in {latest, req[r].snap}
        /\ \A o \in Slots : o # r => req'[o] = req[o]
    BY <1>1, <1>9 DEF Commit, Go
  <2>2. Open' = Open
    BY <1>4, <2>1 DEF Open
  <2>3. Cardinality(Open') = n
    BY <1>2, <2>2
  <2>4. \A o \in Slots : req'[o].snap.at + n <= clock
    BY <1>1, <1>3, <1>4, <2>1
  <2> QED BY <1>1, <1>3, <2>1, <2>3, <2>4 DEF Clocked
<1>10. CASE UNCHANGED portfolioVars
  BY <1>5, <1>10 DEF portfolioVars
<1>11. ASSUME NEW s, NEW p, StorePrice(s, p) PROVE Clocked'
  BY <1>5, <1>11 DEF StorePrice
<1>12. \A r \in Slots : \A kind \in {"upsert", "delete", "refresh"} : kind \in Kinds
  BY DEF Kinds
<1> QED BY <1>6, <1>7, <1>8, <1>9, <1>10, <1>11, <1>12 DEF NextPortfolio

\* PortfolioTyped: rows and prices keep their types, keys are given once and to one
\* symbol, and no snapshot is dated ahead of the requests there were.
THEOREM PortfolioTypeCorrect == PortfolioSpec => []PortfolioTyped
<1>1. InitPortfolio => TypesInv
  <2> SUFFICES ASSUME InitPortfolio PROVE TypesInv
    OBVIOUS
  <2>1. EntryInv
    BY InitEntryInv
  <2>2. OneSymbol
    <3>1. PICK id \in [Entered -> 1..Cardinality(Entered)], q \in Quantities :
             /\ \A s, t \in Entered : id[s] = id[t] => s = t
             /\ rows = [s \in Entered |-> [id |-> id[s], qty |-> q, price |-> Null,
                                           value |-> Null, weight |-> Null]]
      BY DEF InitPortfolio
    <3>2. \A r \in Slots : DOMAIN req[r].own = {}
      BY IdleGood DEF InitPortfolio
    <3>3. \A s, k : Names(s, k) => s \in Entered /\ id[s] = k
      BY <3>1, <3>2 DEF Names
    <3> QED BY <3>1, <3>3 DEF OneSymbol
  <2>3. Clocked
    <3>1. Open = {}
      BY DEF InitPortfolio, Open, Idle
    <3>2. Cardinality(Open) = 0
      BY <3>1, FS_EmptySet
    <3>3. latest.at = 0 /\ clock = 0 /\ \A r \in Slots : req[r].snap.at = 0
      BY DEF InitPortfolio, Idle, NoSnapshot
    <3> QED BY <3>2, <3>3 DEF Clocked
  <2> QED BY <2>1, <2>2, <2>3, ConstantsTyped DEF TypesInv, InitPortfolio
<1>2. TypesInv /\ [NextPortfolio]_portfolioVars => TypesInv'
  <2> SUFFICES ASSUME TypesInv, [NextPortfolio]_portfolioVars PROVE TypesInv'
    OBVIOUS
  <2>1. EntryInv' /\ OneSymbol' /\ Clocked'
    BY StepEntryInv, StepOneSymbol, StepClocked DEF TypesInv
  <2>2. priced' \in 0..MaxPrices
    <3>1. ASSUME UNCHANGED priced PROVE priced' \in 0..MaxPrices
      BY <3>1 DEF TypesInv
    <3>2. ASSUME NEW s, NEW p, StorePrice(s, p) PROVE priced' \in 0..MaxPrices
      BY <3>2, ConstantsTyped DEF StorePrice, TypesInv
    <3>3. ASSUME NEW r \in Slots, NEW kind, NEW s, NEW q, Begin(r, kind, s, q) PROVE UNCHANGED priced
      BY <3>3 DEF Begin
    <3>4. ASSUME NEW r \in Slots, Step(r) PROVE UNCHANGED priced
      <4>1. CASE Commit(r)
        BY <4>1 DEF Commit
      <4>2. CASE Snapshot(r)
        BY <4>2 DEF Snapshot
      <4>3. CASE ~ Commit(r) /\ ~ Snapshot(r)
        BY <3>4, <4>3, StepAt DEF TypesInv
      <4> QED BY <4>1, <4>2, <4>3
    <3>5. CASE UNCHANGED portfolioVars
      BY <3>1, <3>5 DEF portfolioVars
    <3> QED BY <3>1, <3>2, <3>3, <3>4, <3>5 DEF NextPortfolio
  <2> QED BY <2>1, <2>2 DEF TypesInv
<1>3. TypesInv => PortfolioTyped
  <2> SUFFICES ASSUME TypesInv PROVE PortfolioTyped
    OBVIOUS
  <2>1. EntryInv /\ Shaped /\ RowsGood /\ priced \in 0..MaxPrices
    BY DEF TypesInv, EntryInv
  <2>2. /\ market \in [Symbols -> Prices \cup {Null}] /\ DOMAIN rows \subseteq Symbols
        /\ \A s \in DOMAIN rows : rows[s] \in Positions /\ rows[s].id \in used /\ rows[s].id \in Keys
    <3>1. DOMAIN rows \subseteq Symbols /\ \A s \in DOMAIN rows : rows[s] \in Positions
      BY <2>1, SheetIs DEF Shaped
    <3>2. \A s \in DOMAIN rows : rows[s].id \in used
      BY <2>1 DEF RowsGood
    <3> QED BY <2>1, <3>1, <3>2 DEF Shaped
  <2>3. latest.at \in 0..clock
    <3>1. latest.at \in Nat
      BY <2>1 DEF Shaped, SnapshotRows
    <3> QED BY <3>1, OpenIs DEF TypesInv, Clocked
  <2>4. \A r \in Slots : \A s \in DOMAIN req[r].own : req[r].own[s] # Null => req[r].own[s].id \in used
    BY <2>1 DEF EntryInv, Keyed
  <2>5. \A s, t \in DOMAIN rows : rows[s].id = rows[t].id => s = t
    BY <2>2 DEF TypesInv, OneSymbol, Names
  <2> QED BY <2>1, <2>2, <2>3, <2>4, <2>5 DEF PortfolioTyped
<1> QED BY <1>1, <1>2, <1>3, PTL DEF PortfolioSpec
=============================================================================
