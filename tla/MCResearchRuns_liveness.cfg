SPECIFICATION FairSpec
CONSTANTS
  Runs = {r1, r2}
  Symbols = {s1}
  Workers = {w1, w2}
  NoRun = NoRun
  NoSymbol = NoSymbol
  SharedWrites = FALSE
  Budget <- Recoverable
INVARIANTS NoStrandedRun
PROPERTIES EventuallySettled
CHECK_DEADLOCK FALSE
