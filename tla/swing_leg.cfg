\* One symbol over three days, entries of one or two shares, the flatten, one
\* failure: long enough to enter, exit and enter again.
\* After the last day nothing is left to do: no deadlock check.
SPECIFICATION FairSpec
CONSTANTS
  tsm = tsm
  nvda = nvda
  Symbols = {tsm}
  Flattened = {tsm}
  Sizes = {1, 2}
  MaxPositions = 1
  ExitBars = 1
  EntryBars = 1
  MaxDays = 3
  MaxCrashes = 0
  MaxFailures = 1
INVARIANTS
  OneExitPerLeg
  OneStopPerLeg
  StopCoversLeg
  BeliefMatchesBroker
PROPERTIES
  FlatStopReleased
CHECK_DEADLOCK FALSE
