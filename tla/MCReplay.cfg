SPECIFICATION ReplaySpec
CONSTANTS
  N = 3
  Symbols = {"A"}
  Redeliveries = 1
  Ambiguous = TRUE
  Crashes = TRUE
  Tickers = {1, 2}
  MonthLengths <- Lengths
  Week = 2
  Starts = {3}
  Breakdowns <- Three
  BuyAt = 3
  Meaningful = 2
  MaxRuns = 3
  NoDelta = NoDelta
INVARIANTS EvaluationConsistent MonthlyIsMonthly ReportAgrees
PROPERTIES RunsKeepLifecycle BatchSettles
CHECK_DEADLOCK FALSE
