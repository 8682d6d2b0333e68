SPECIFICATION Spec
CONSTANTS
  p1 = p1
  p2 = p2
  Positions = {p1, p2}
  Threads = {"main"}
  Faults = {"crash"}
  Qty = 1
  EntrySteps = 2
  CloseLimit = 1
  MaxAttempt = 1
  MaxCrashes = 1
  None = None
SYMMETRY Symmetry
PROPERTY NoEntryUnderHalt
 
