\* One equity order, partial fills, no crash and no stream failure.
\* When the bounds are used up and the orders are done nothing is left to do:
\* no deadlock check.
SPECIFICATION Spec
CONSTANTS
  stk = stk
  ent = ent
  stp = stp
  tgt = tgt
  man = man
  eq = eq
  fut = fut
  opt = opt
  Orders = {stk}
  Routed = {stk}
  Entries = {}
  Legs = {}
  ParentOf <- MCParent
  Accounts = {eq}
  AcctOf <- MCAcctOf
  Seeded = {eq}
  Known = {stk}
  Keys = {eq}
  KeyOf <- MCKeyOf
  Side <- MCSide
  QtyOf <- MCQtyOf
  SnapshotFlag = TRUE
  MaxCrashes = 0
  MaxDrops = 0
INVARIANTS
  MirrorsOpenQuantity
CHECK_DEADLOCK FALSE
