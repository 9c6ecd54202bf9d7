SPECIFICATION AdvisorSpec
CONSTANTS
  Symbols = {"A", "B"}
  Days <- SmallDays
  Start = 1
  End = 3
  Tolerance = 2
  Back = 3
  Tables <- Histories
  InitialCash = 1000
  Holdings <- FewHoldings
  MinPurchase = 10
  MaxRecs = 3
  NoDay = NoDay
  MaxRequests = 3
  MaxRestarts = 2
  Generations = {"g", "h"}
  Analysed <- NoPrices
INVARIANTS Accounted FillsInOrder CurveMirrorsPass AnswersAgree
PROPERTY BuysWithinTarget
CHECK_DEADLOCK FALSE
