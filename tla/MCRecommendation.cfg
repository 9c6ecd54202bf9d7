SPECIFICATION Spec
CONSTANTS
  Strategy <- Seeded
  SignalScores <- FewSignals
  Snapshots <- FewSnapshots
  NewsScores <- EdgeScores
  SocialPenalties <- WorstSocial
  LlmPenalties <- EdgeLlm
  Portfolios <- FewPortfolios
  None = None
INVARIANTS PersonalNeverStronger BuyHasEvidence ActionMatchesScore TradeWithinLimit
CHECK_DEADLOCK FALSE
