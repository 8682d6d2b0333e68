SPECIFICATION JobsFairSpec
CONSTANTS
  Predictions = {"p1", "p2", "p3"}
  Dead = {"p3"}
  Limit = 2
  DayCount = 3
  Weekend = {2}
  MaxCrashes = 1
  None = None
INVARIANT JobsTypeOK
INVARIANT OncePerDay
PROPERTY ScoredInTheEnd
