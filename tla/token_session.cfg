\* Two tasks, the loop and the start over three units of ten minutes, with two
\* attempts that may get no answer and a death.
\* Once the clock and the requests are at rest nothing is left: no deadlock check.
SPECIFICATION FairSpec
CONSTANTS
  c1 = c1
  c2 = c2
  Callers = {c1, c2}
  Main = Main
  Loop = Loop
  None = None
  Skew = 1
  Life = 2
  MaxAttempts = 2
  MaxClock = 3
  MaxCrashes = 1
  MaxFailures = 2
INVARIANTS
  TypeOK
  BearerUsable
  OneCallerRefreshes
  SessionKept
  RefusedOnlyByOverlap
  NewestAccess
PROPERTIES
  WaitersServed
CHECK_DEADLOCK FALSE
