\* The refresh that a death would undo.
SPECIFICATION Spec
CONSTANTS
  c1 = c1
  c2 = c2
  Callers = {c1, c2}
  Main = Main
  Loop = Loop
  None = None
  Skew = 1
  Life = 2
  MaxAttempts = 2
  MaxClock = 3
  MaxCrashes = 0
  MaxFailures = 2
INVARIANTS
  RefreshPersisted
CHECK_DEADLOCK FALSE
