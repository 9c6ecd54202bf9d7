SPECIFICATION Spec
CONSTANTS
  Runs = {r1, r2}
  Symbols = {s1, s2}
  Workers = {w1, w2}
  NoRun = NoRun
  NoSymbol = NoSymbol
  SharedWrites = TRUE
  Budget <- ExactlyOnce
SYMMETRY Symmetry
INVARIANTS CompletedWithoutError
PROPERTIES LifecycleSpec
CHECK_DEADLOCK FALSE
