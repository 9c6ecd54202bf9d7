SPECIFICATION PortfolioSpec
CONSTANTS
  Slots = {r1, r2}
  Symbols = {1, 2}
  Quantities = {1, 2}
  Prices = {2}
  Null = null
  Cash = 1
  Entered = {1}
  MaxRequests = 3
  MaxPrices = 2
SYMMETRY Symmetry
INVARIANTS FiguresAgree
PROPERTIES OnlyAsEntered
CHECK_DEADLOCK FALSE
