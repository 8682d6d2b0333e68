SPECIFICATION Spec
CONSTANTS
  Threads = {"main", "stream"}
  Expiries = {4, 11, 40}
  Monthlies = {11}
  Legs = {"leg"}
  Subjects <- MCSubjects
  Readings <- MCReadings
  Price = 100
  Due = {"dividend", "split"}
  QuoteTtl = 2
  BarTtl = 3
  ClockTtl = 2
  Window = 2
  Patience = 1
  None = None
INVARIANT ServedWithin
INVARIANT SpotIsPlausible
INVARIANT LiquidWasReal
INVARIANT ExpirySpansHorizon
