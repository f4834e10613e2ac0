\* Two contracts, one start, nothing fails: whose close and bands judge an entry.
SPECIFICATION FuturesSpec
CONSTANTS
  Contracts = {mes, mnq}
  WarmUp = 2
  AtrBars = 2
  Days = 2
  MaxLives = 1
INVARIANTS
  JudgedByOwnContract
CHECK_DEADLOCK FALSE
