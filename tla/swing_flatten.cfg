\* One symbol that strategy_002 lists too, two days, nothing fails.
\* After the last day nothing is left to do: no deadlock check.
SPECIFICATION Spec
CONSTANTS
  tsm = tsm
  nvda = nvda
  Symbols = {tsm}
  Flattened = {tsm}
  Sizes = {1}
  MaxPositions = 1
  ExitBars = 1
  EntryBars = 1
  MaxDays = 2
  MaxCrashes = 0
  MaxFailures = 0
INVARIANTS
  SwingExcludedFromFlatten
CHECK_DEADLOCK FALSE
