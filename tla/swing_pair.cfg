\* The tasks of two symbols and the flatten on one account with room for one
\* position, a death and a failure; a restart takes the day's bars again.
\* After the last day nothing is left to do: no deadlock check.
SPECIFICATION Spec
CONSTANTS
  tsm = tsm
  nvda = nvda
  Symbols = {tsm, nvda}
  Flattened = {tsm, nvda}
  Sizes = {1}
  MaxPositions = 1
  ExitBars = 1
  EntryBars = 1
  MaxDays = 1
  MaxCrashes = 1
  MaxFailures = 1
INVARIANTS
  LegsWithinMax
  OrphanStopsBounded
CHECK_DEADLOCK FALSE
