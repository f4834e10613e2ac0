\* Two symbols, two positions allowed, nothing fails.
\* When every symbol has sent its orders nothing is left: no deadlock check.
SPECIFICATION Spec
CONSTANTS
  avgo = avgo
  lly = lly
  tsm = tsm
  Symbols = {avgo, lly}
  MaxPositions = 2
  Limit = 2
  Power = 4
  Prices = {1, 3}
  MaxOrders = 3
  MaxFailures = 0
  MaxDays = 0
SYMMETRY SymbolPerms
INVARIANTS
  LimitMeansRealizedLoss
CHECK_DEADLOCK FALSE
