\* Two accounts, each with its stream task, on one event loop: an equity order the
\* platform routes, with partial fills, and one entered by hand in an account that has
\* no row; a crash and a stream failure; replays carry no IsSnapshot flag.
\* When the bounds are used up and the orders are done nothing is left to do:
\* no deadlock check.
SPECIFICATION Spec
CONSTANTS
  stk = stk
  ent = ent
  stp = stp
  tgt = tgt
  man = man
  eq = eq
  fut = fut
  opt = opt
  Orders = {stk, man}
  Routed = {stk}
  Entries = {}
  Legs = {}
  ParentOf <- MCParent
  Accounts = {eq, opt}
  AcctOf <- MCAcctOf
  Seeded = {eq}
  Known = {stk, man}
  Keys = {eq, opt}
  KeyOf <- MCKeyOf
  Side <- MCSide
  QtyOf <- MCQtyOf
  SnapshotFlag = FALSE
  MaxCrashes = 1
  MaxDrops = 1
INVARIANTS
  LedgerWithinBroker
  TrackerWithinLedger
  RowFollowsBroker
  AuditTrail
  LossesBounded
PROPERTIES
  FilledIsFinal
CHECK_DEADLOCK FALSE
