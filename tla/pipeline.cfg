SPECIFICATION Spec
CONSTANTS
  Equity = 10000
  HeatPct = 2
  MaxPerMinute = 1
  MaxPerDay = 10
  MaxPerName = 2
  MaxCorrelated = 1
  Correlations = {}
  None = None
  Names = {"A"}
  Stories = {"shock", "mild"}
  News <- MCNews
  Phases <- MCPhases
  Quotes <- MCQuotes
  Days <- MCDays
  Risks = {60}
  Worlds <- MCWorlds
  MaxDeferred = 1
INVARIANT TypeOK
INVARIANT OneEntryPerSignal
INVARIANT HeatBounded
INVARIANT LegsDisjoint
INVARIANT EntriesAreFresh
PROPERTY FloorIsTheException
CHECK_DEADLOCK FALSE
