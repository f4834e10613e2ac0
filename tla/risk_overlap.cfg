\* Two symbols with three orders between them, one position allowed, a limit and a buying
\* power that two purchases reach, one failure or restart, one day that begins.
\* When every symbol has sent its orders nothing is left: no deadlock check.
SPECIFICATION Spec
CONSTANTS
  avgo = avgo
  lly = lly
  tsm = tsm
  Symbols = {avgo, lly}
  MaxPositions = 1
  Limit = 2
  Power = 4
  Prices = {1, 3}
  MaxOrders = 3
  MaxFailures = 1
  MaxDays = 1
SYMMETRY SymbolPerms
INVARIANTS
  TypeOK
  PositionsWithinMax
  OverdraftWithinUnseen
  OutlayWithinLimit
  LossStopsEntries
CHECK_DEADLOCK FALSE
