SPECIFICATION MemorySpec
CONSTANTS
  a1 = a1
  a2 = a2
  b1 = b1
  A = A
  B = B
  Runs = {A, B}
  Executions = {a1, a2, b1}
  RunOf <- TwoRuns
  Limit = 2
  MaxFaults = 2
  MaxCommands = 2
  NoReport = NoReport
SYMMETRY Symmetry
INVARIANTS NothingForgotten ReportsExplained HistoryTold
CHECK_DEADLOCK FALSE
