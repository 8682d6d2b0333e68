SPECIFICATION FairSpec
CONSTANTS
  Positions = {"p1"}
  Gains = {0, 4, 5, 7, 12, 20}
  Losses = {4, 8, 12}
  Premium = 20
  Wing = 12
  GapCap = 3
  Releases = {65, 77}
  Horizons = {12, 58}
  Deadlines = {None, 73}
  Faults = {"noquote", "raise"}
  None = None
INVARIANT TypeOK
INVARIANT NothingOverstays
INVARIANT WinnersKept
INVARIANT LossBounded
PROPERTY ObligationsMet
PROPERTY EveryPositionExits
CHECK_DEADLOCK FALSE
