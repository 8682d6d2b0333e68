SPECIFICATION FairSpec
CONSTANTS
  Breaches = {"heartbeat"}
  Assignments = {"a1"}
  FlattenTries = 2
  CutPoints = {"residue", "flatten", "close", "verify"}
PROPERTY OncePerBreach
PROPERTY BookEmpties
PROPERTY KillHolds
PROPERTY OwnHaltLifts
