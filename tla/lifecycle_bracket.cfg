\* A strategy_006 entry with partial fills and the two legs of its OCO group; a
\* crash and a stream failure; replays carry the IsSnapshot flag.
\* When the bounds are used up and the orders are done nothing is left to do:
\* no deadlock check.
SPECIFICATION FairSpec
CONSTANTS
  stk = stk
  ent = ent
  stp = stp
  tgt = tgt
  man = man
  eq = eq
  fut = fut
  opt = opt
  Orders = {ent, stp, tgt}
  Routed = {ent}
  Entries = {ent}
  Legs = {stp, tgt}
  ParentOf <- MCParent
  Accounts = {fut}
  AcctOf <- MCAcctOf
  Seeded = {fut}
  Known = {ent, stp, tgt}
  Keys = {fut}
  KeyOf <- MCKeyOf
  Side <- MCSide
  QtyOf <- MCQtyOf
  SnapshotFlag = TRUE
  MaxCrashes = 1
  MaxDrops = 1
INVARIANTS
  BracketWithinEntry
  PositionsMatchLiveFills
PROPERTIES
  ImplementsLedger
  FillEventuallyRecorded
CHECK_DEADLOCK FALSE
