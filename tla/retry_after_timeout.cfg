SPECIFICATION Spec
CONSTANTS
  p1 = p1
  Positions = {p1}
  Threads = {"main"}
  Faults = {"ambiguous"}
  Qty = 1
  EntrySteps = 0
  CloseLimit = 1
  MaxAttempt = 2
  MaxCrashes = 0
  None = None
INVARIANT ExposureBounded
