SPECIFICATION HistorySpec
CONSTANTS
  Symbols = {"A", "B"}
  Places <- FourPlaces
  Time <- ThreeTimes
  Quantities = {1, 2}
  Prices = {1, 2}
  MaxExecutions = 4
  Horizon = 0
INVARIANTS SalesMatched GainsAreMoney
PROPERTY NewExecutionsAppend
CHECK_DEADLOCK FALSE
