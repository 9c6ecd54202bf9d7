--------------------------- MODULE Recommendation ---------------------------
(***************************************************************************)
(* One ticker through the research graph: the nodes that gather evidence,  *)
(* the deterministic scoring, the portfolio context and the personalized   *)
(* decision, each of which may fail and degrade, and what persist_results  *)
(* saves of it.                                                            *)
(*                                                                         *)
(* load_ticker_context and retrieve_memory put only texts into the state   *)
(* and are left out.  Scores are tenths of a point where the code adds     *)
(* floats; indicators, ratios and articles are abstracted to their scores. *)
(***************************************************************************)
EXTENDS Policy, FiniteSets

CONSTANTS SignalScores,    \* technical + risk score of computed signals
          Snapshots,       \* [score |-> fundamental + valuation, quality |-> completeness]
          NewsScores,      \* scores of news and of social posts
          SocialPenalties, \* confidence penalties an LLM may ask for
          LlmPenalties,
          Portfolios,      \* [weight, held, limit, concentration, cash, risk]
          None             \* absent value

ASSUME InputsTyped ==
  /\ SignalScores \subseteq 0..35
  /\ Snapshots \subseteq [score: 0..35, quality: 0..100]
  /\ NewsScores \subseteq 0..15
  /\ SocialPenalties \subseteq 0..15 /\ LlmPenalties \subseteq 0..25
  /\ Portfolios \subseteq [weight: 0..100, held: BOOLEAN, limit: 0..100,
                           concentration: 0..100, cash: 0..100,
                           risk: {"LOW", "MEDIUM", "HIGH"}]

VARIABLES node,      \* the graph node that runs next
          quality,   \* data_quality_score
          signals,   \* score of technical_signals, None when there are none
          snapshot,  \* fundamentals_snapshot
          news,      \* news_score_result
          social,    \* social_score_result
          llm,       \* llm_analysis
          penalties, \* sum of confidence_penalties
          neutral,   \* neutral_rec with the score breakdown that matters
          missing,   \* missing_components
          portfolio, \* portfolio_context
          personal,  \* personalized_rec
          saved      \* the rows persist_results flushed

evidence == <<quality, signals, snapshot, news, social, llm>>
vars == <<node, evidence, penalties, neutral, missing, portfolio, personal, saved>>

Init == /\ node = "fetch_market_data"
        /\ quality = 100
        /\ signals = None /\ snapshot = None /\ news = None /\ social = None
        /\ llm = None /\ penalties = 0
        /\ neutral = None /\ missing = {} /\ portfolio = None /\ personal = None
        /\ saved = [neutral |-> None, personal |-> None]

\* The graph is a chain: node n runs, m is next.
Run(n, m) == node = n /\ node' = m

Penalize(p) == penalties' = penalties + p

-----------------------------------------------------------------------------
(* Gathering evidence *)

\* compute_data_quality: by the length of the price history
Qualities == {50, 80, 95}

FetchMarketData ==
  /\ Run("fetch_market_data", "compute_signals")
  /\ \/ quality' \in Qualities /\ Penalize(0)
     \/ quality' = 0 /\ Penalize(40)
  /\ UNCHANGED <<signals, snapshot, news, social, llm>>
  /\ UNCHANGED <<neutral, missing, portfolio, personal, saved>>

\* without bars, or when the node fails, there are no signals
ComputeSignals ==
  /\ Run("compute_signals", "fetch_fundamentals")
  /\ \/ /\ quality > 0
        /\ signals' \in SignalScores
        /\ \E p \in {0, 5} : Penalize(p)
     \/ signals' = None /\ Penalize(20)
  /\ UNCHANGED <<quality, snapshot, news, social, llm>>
  /\ UNCHANGED <<neutral, missing, portfolio, personal, saved>>

FetchFundamentals ==
  /\ Run("fetch_fundamentals", "fetch_news")
  /\ \/ snapshot' \in Snapshots /\ Penalize(0)
     \/ snapshot' = None /\ Penalize(15)
  /\ UNCHANGED <<quality, signals, news, social, llm>>
  /\ UNCHANGED <<neutral, missing, portfolio, personal, saved>>

NoData == 5   \* _NO_DATA_SCORE of news and social scoring

Scored == [score: NewsScores, no_data: {FALSE}]
            \cup {[score |-> NoData, no_data |-> TRUE]}

FetchNews ==
  /\ Run("fetch_news", "fetch_social")
  /\ news' \in Scored
  /\ UNCHANGED <<quality, signals, snapshot, social, llm, penalties>>
  /\ UNCHANGED <<neutral, missing, portfolio, personal, saved>>

FetchSocial ==
  /\ Run("fetch_social", "social_llm_analysis")
  /\ social' \in Scored
  /\ UNCHANGED <<quality, signals, snapshot, news, llm, penalties>>
  /\ UNCHANGED <<neutral, missing, portfolio, personal, saved>>

SocialLlmAnalysis ==
  /\ Run("social_llm_analysis", "llm_analysis")
  /\ \E p \in SocialPenalties \cup {0} : Penalize(p)
  /\ UNCHANGED <<evidence, neutral, missing, portfolio, personal, saved>>

Analyses == [outcome: {"ok"}, penalty: LlmPenalties, cap_strong_buy: BOOLEAN]
              \cup [outcome: {"disabled", "failed"}, penalty: {0}, cap_strong_buy: {FALSE}]

\* disabled, or a failed call: the empty analysis, llm_enabled = False
LlmAnalysis ==
  /\ Run("llm_analysis", "neutral_recommendation")
  /\ llm' \in Analyses
  /\ UNCHANGED <<quality, signals, snapshot, news, social, penalties>>
  /\ UNCHANGED <<neutral, missing, portfolio, personal, saved>>

-----------------------------------------------------------------------------
(* Scoring *)

Clip(x, low, high) == IF x < low THEN low ELSE IF x > high THEN high ELSE x

\* Python's round() of a number of tenths: half to even
RoundTenths(x) == LET q == x \div 10 r == x % 10
                  IN  IF r > 5 \/ (r = 5 /\ q % 2 = 1) THEN q + 1 ELSE q

FitStub == 70   \* tenths; the neutral prior for the portfolio fit

\* news, blended with social when both have data (weights 0.7 and 0.3)
NewsTenths == IF ~news.no_data /\ ~social.no_data
              THEN 7 * news.score + 3 * social.score
              ELSE 10 * news.score

\* _risk_score without signals is 2.5
SignalTenths == IF signals = None THEN 25 ELSE 10 * signals

SnapshotTenths == IF snapshot = None THEN 0 ELSE 10 * snapshot.score

FundamentalsQuality == IF snapshot = None THEN 0 ELSE snapshot.quality

NeutralScore ==
  RoundTenths(Clip(SignalTenths + SnapshotTenths + NewsTenths + FitStub, 0, 1000))

Confidence(score) ==
  LET c == Clip(score + 10, 20, IF FundamentalsQuality < 30 THEN 70 ELSE 100)
      d == Clip(c - penalties, 0, 100)
  IN  Clip(d - llm.penalty, 0, 100)

MissingAtScoring ==
  {"portfolio_context"}
    \cup (IF news.no_data THEN {"news"} ELSE {})
    \cup (IF signals = None THEN {"market_data"} ELSE {})
    \cup (IF snapshot = None THEN {"fundamentals", "valuation"}
          ELSE IF snapshot.quality < 30 THEN {"fundamentals_complete"} ELSE {})

\* data_quality_score `or 1.0`: a quality of zero reads as full quality
QualityRead == IF quality = 0 THEN 100 ELSE quality

NeutralRecommendation ==
  /\ Run("neutral_recommendation", "load_portfolio_context")
  /\ LET action == ScoreToAction(NeutralScore, FALSE)
         capped == llm.cap_strong_buy /\ action = "STRONG_BUY"
     IN  neutral' = [score |-> NeutralScore,
                     action |-> IF capped THEN "BUY_CANDIDATE" ELSE action,
                     confidence |-> Confidence(NeutralScore),
                     fit |-> FitStub, capped |-> capped]
  /\ missing' = MissingAtScoring
  /\ UNCHANGED <<evidence, penalties, portfolio, personal, saved>>

NeutralFails ==
  /\ Run("neutral_recommendation", "load_portfolio_context")
  /\ Penalize(30)
  /\ UNCHANGED <<evidence, neutral, missing, portfolio, personal, saved>>

-----------------------------------------------------------------------------
(* The portfolio context *)

\* A limit of 0 in the context falls back to the strategy's.
Limit(p) == IF p.limit = 0 THEN Strategy.max_weight ELSE p.limit

\* the parts of the fit for room under the limit and for agreement with what is held
Room(p) == IF Limit(p) = 0 THEN 0
           ELSE (50 * Clip(Limit(p) - p.weight, 0, 100)) \div Limit(p)

Alignment(p, action) ==
  IF p.held THEN IF action \in Reduces THEN 20
                 ELSE IF action \notin Buys THEN 15
                 ELSE IF p.weight < Limit(p) THEN 10 ELSE 0
  ELSE IF action \in Buys THEN 20 ELSE 0

\* portfolio_fit_score, in tenths
PortfolioFit(p, action) ==
  Clip((60 * (100 - p.concentration)) \div 100 + Room(p) + (20 * p.cash) \div 100
         + Alignment(p, action), 0, 150)

\* mutation: the score is replaced and the old action kept
RescoredKeeping(n, p) ==
  LET fit == PortfolioFit(p, n.action)
  IN  [n EXCEPT !.score = Clip(n.score + RoundTenths(fit - n.fit), 0, 100), !.fit = fit]

\* The real fit replaces the stub; the action is looked up again.
Rescored(n, p) ==
  LET fit   == PortfolioFit(p, n.action)
      score == Clip(n.score + RoundTenths(fit - n.fit), 0, 100)
  IN  [n EXCEPT !.score = score, !.action = ScoreToAction(score, FALSE), !.fit = fit]

LoadPortfolioContext ==
  /\ Run("load_portfolio_context", "personalized_recommendation")
  /\ portfolio' \in Portfolios
  /\ neutral' = IF neutral = None THEN None ELSE Rescored(neutral, portfolio')
  /\ missing' = missing \ {"portfolio_context"}
  /\ UNCHANGED <<evidence, penalties, personal, saved>>

\* What the state holds when no context was loaded is the default.
Holding == IF portfolio # None THEN portfolio
           ELSE [weight |-> 0, held |-> FALSE, limit |-> Strategy.max_weight,
                 concentration |-> 0, cash |-> 0, risk |-> "MEDIUM"]

\* No account, or the node failed: the state's defaults, and no penalty.
NoPortfolioContext ==
  /\ Run("load_portfolio_context", "personalized_recommendation")
  /\ UNCHANGED <<evidence, penalties, neutral, missing, portfolio, personal, saved>>

-----------------------------------------------------------------------------
(* The personalized decision *)

GateInput == [data_quality |-> QualityRead,
              fundamentals |-> FundamentalsQuality,
              confidence |-> neutral.confidence,
              news_missing |-> "news" \in missing,
              portfolio_missing |-> "portfolio_context" \in missing,
              weight |-> Holding.weight]

PersonalizedRecommendation ==
  /\ Run("personalized_recommendation", "persist_results")
  /\ IF neutral = None THEN UNCHANGED personal
     ELSE LET action == WithoutPosition(ApplyPolicy(neutral.action, GateInput), Holding.held)
              target == PositionSize(Holding.risk, neutral.score, neutral.confidence,
                                     Limit(Holding))
          IN  personal' = [action |-> action, target |-> target,
                           trade |-> Trade(action, Holding.weight, target, Limit(Holding))]
  /\ UNCHANGED <<evidence, penalties, neutral, missing, portfolio, saved>>

PersonalizedFails ==
  /\ Run("personalized_recommendation", "persist_results")
  /\ neutral # None
  /\ Penalize(10)
  /\ UNCHANGED <<evidence, neutral, missing, portfolio, personal, saved>>

\* The personalized row hangs on the neutral one.
PersistResults ==
  /\ Run("persist_results", "end")
  /\ saved' = [neutral |-> neutral, personal |-> personal]
  /\ UNCHANGED <<evidence, penalties, neutral, missing, portfolio, personal>>

-----------------------------------------------------------------------------
Next == \/ FetchMarketData \/ ComputeSignals \/ FetchFundamentals
        \/ FetchNews \/ FetchSocial \/ SocialLlmAnalysis \/ LlmAnalysis
        \/ NeutralRecommendation \/ NeutralFails
        \/ LoadPortfolioContext \/ NoPortfolioContext
        \/ PersonalizedRecommendation \/ PersonalizedFails
        \/ PersistResults

Spec == Init /\ [][Next]_vars
-----------------------------------------------------------------------------
(* Properties *)

NeutralRecs == [score: 0..100, action: Actions, confidence: 0..100,
                fit: 0..150, capped: BOOLEAN]

PersonalRecs == [action: Actions, target: Nat, trade: {"BUY", "TRIM", "NONE"}]

Missing == {"portfolio_context", "news", "market_data", "fundamentals", "valuation",
            "fundamentals_complete"}

\* Type invariant: the values the research state ranges over.
TypeOK ==
  /\ quality \in Qualities \cup {0, 100}
  /\ signals \in SignalScores \cup {None}
  /\ snapshot \in Snapshots \cup {None}
  /\ news \in Scored \cup {None} /\ social \in Scored \cup {None}
  /\ llm \in Analyses \cup {None}
  /\ penalties \in Nat
  /\ neutral \in NeutralRecs \cup {None}
  /\ missing \subseteq Missing
  /\ portfolio \in Portfolios \cup {None}
  /\ personal \in PersonalRecs \cup {None}
  /\ saved \in [neutral: NeutralRecs \cup {None}, personal: PersonalRecs \cup {None}]

\* Risk policy and position overrides only ever weaken the neutral action,
\* whatever the configured caps say ("hard gates and soft caps", policy.py).
PersonalNeverStronger ==
  personal # None => Rank[personal.action] <= Rank[neutral.action]

\* A personalized buy rests on evidence: price history that was really fetched,
\* fundamentals, confidence after every penalty of the nodes, and room in the
\* portfolio.  The gate on market data reads a quality of 0 as 1.0
\* (personalized_recommendation.py:30), so a buy without prices is prevented
\* only by what the missing signals cost in score and confidence.
BuyHasEvidence ==
  personal # None /\ personal.action \in Buys =>
    /\ quality >= Strategy.min_quality
    /\ FundamentalsQuality >= Strategy.min_fundamentals
    /\ neutral.confidence >= Strategy.min_confidence
    /\ neutral.confidence <= 100 - penalties
    /\ Holding.weight <= Strategy.max_weight

\* The row saved explains itself: its action is the one its score stands for,
\* except where the critic capped it, although portfolio context rewrites the
\* score after the action was chosen (load_portfolio_context.py:97).
ActionMatchesScore ==
  saved.neutral # None =>
    \/ saved.neutral.action = ScoreToAction(saved.neutral.score, FALSE)
    \/ saved.neutral.capped /\ saved.neutral.action = "BUY_CANDIDATE"

\* A suggested trade respects the investor's own limit, which the policy gates
\* do not read: BUY only up to it, TRIM only from above it (risk.py).
TradeWithinLimit ==
  personal # None =>
    /\ personal.trade = "BUY" => /\ personal.target <= 100 * Limit(Holding)
                                 /\ Holding.weight < Limit(Holding)
    /\ personal.trade = "TRIM" => Holding.weight > Limit(Holding)

\* "STRONG_BUY cap - only downgrade, never upgrade": where the critic capped,
\* no STRONG_BUY is saved (neutral_recommendation.py:500).
CriticCapStands ==
  saved.neutral # None /\ saved.neutral.capped => saved.neutral.action # "STRONG_BUY"

\* "LLM failure -> apply confidence penalty, mark data quality, continue"
\* (Principles.md:63).
LlmFailurePenalized ==
  llm # None /\ llm.outcome = "failed" => llm.penalty > 0

\* "Every confidence penalty is recorded in the recommendation"
\* (Principles.md:73): the confidence saved has paid for all of them.
EveryPenaltyRecorded ==
  saved.neutral # None => saved.neutral.confidence <= Clip(100 - penalties, 0, 100)

\* "< 35 + position: SELL" (README.md:110).
SellBelowThreshold ==
  saved.personal # None /\ Holding.held /\ saved.neutral.score < Strategy.reduce =>
    saved.personal.action = "SELL"
-----------------------------------------------------------------------------
(* Why these properties are inductive together. *)

BeforeNews   == {"fetch_market_data", "compute_signals", "fetch_fundamentals", "fetch_news"}
BeforeSocial == BeforeNews \cup {"fetch_social"}
BeforeLlm    == BeforeSocial \cup {"social_llm_analysis", "llm_analysis"}

\* Scoring finds what the nodes before it produce, and the neutral row is not
\* touched any more once there is a personalized one.
ChainInv ==
  /\ node \in BeforeNews \/ news \in Scored
  /\ node \in BeforeSocial \/ social \in Scored
  /\ node \in BeforeLlm \/ llm \in Analyses
  /\ personal # None => neutral # None /\ node \in {"persist_results", "end"}

\* ActionMatchesScore already holds of the row that is still in the state.
NeutralMatches ==
  neutral # None =>
    \/ neutral.action = ScoreToAction(neutral.score, FALSE)
    \/ neutral.capped /\ neutral.action = "BUY_CANDIDATE"

\* What a buy without prices would have to get past, and never does: without
\* prices there are no signals, the two nodes have taken 60 points of confidence
\* by the time of scoring, and what is left is at most 10.  A confidence above
\* zero was not clipped, so it has paid for every penalty.
EvidenceInv ==
  /\ quality = 0 => penalties >= 40
  /\ quality = 0 /\ node \notin {"fetch_market_data", "compute_signals"} =>
       signals = None /\ penalties >= 60
  /\ neutral # None => /\ node \notin BeforeLlm \cup {"neutral_recommendation"}
                       /\ quality = 0 => neutral.confidence <= 10
  /\ neutral # None /\ neutral.confidence > 0 =>
       \/ neutral.confidence <= 100 - penalties
       \/ personal = None /\ node \in {"persist_results", "end"}

\* A strategy whose confidence gate is above what a ticker without prices can
\* reach, and whose cap for poor fundamentals is no buy.
EvidenceGated == Strategy.min_confidence > 10 /\ Strategy.low_fundamentals \notin Buys

\* The inductive invariant of Recommendation_proofs.
IInv == /\ TypeOK /\ ChainInv /\ NeutralMatches
        /\ PersonalNeverStronger /\ ActionMatchesScore /\ TradeWithinLimit
=============================================================================
