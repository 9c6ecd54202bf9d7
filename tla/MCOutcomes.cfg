SPECIFICATION Spec
CONSTANTS
  Horizon = 6
  None = None
  Requests = {q1, q2}
  Symbols = {"S"}
  Benchmark = "B"
  Actions = {"BUY_CANDIDATE", "HOLD", "SELL"}
  Reviews = {"DISMISSED"}
  Days <- Week
  Stale = 2
  Buffer = 2
  Markets <- OneStock
  MaxRuns = 1
  MaxCalls = 1
INVARIANTS MeasuredComplete RowFromOneMeasurement EventsBacked
PROPERTY SettledStays
