SPECIFICATION Spec
CONSTANTS
  p1 = p1
  Positions = {p1}
  Threads = {"main", "stream"}
  Faults = {"ambiguous", "outage", "partial", "latecancel"}
  Qty = 2
  EntrySteps = 0
  CloseLimit = 1
  MaxAttempt = 1
  MaxCrashes = 0
  None = None
INVARIANT BookIsBacked
