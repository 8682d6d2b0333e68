SPECIFICATION FairSpec
CONSTANTS
  p1 = p1
  Positions = {p1}
  Threads = {"main"}
  Faults = {"crash", "ambiguous"}
  Qty = 1
  EntrySteps = 1
  CloseLimit = 3
  MaxAttempt = 3
  MaxCrashes = 1
  None = None
INVARIANT FedOnce
INVARIANT OneInFlight
PROPERTY LimboEnds
PROPERTY StrayFillHalts
