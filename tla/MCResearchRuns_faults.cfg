SPECIFICATION Spec
CONSTANTS
  Runs = {r1}
  Symbols = {s1, s2}
  Workers = {w1, w2}
  NoRun = NoRun
  NoSymbol = NoSymbol
  SharedWrites = FALSE
  Budget <- EveryFault
SYMMETRY Symmetry
INVARIANTS TypeOK WholeOutcome NothingBeforeStart DuplicatesNeedRedelivery
PROPERTY RecsWithVerdict
CHECK_DEADLOCK FALSE
