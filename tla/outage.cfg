SPECIFICATION FairSpec
CONSTANTS
  Threads = {"main", "stream"}
  Main = "main"
  Threshold = 5
  Cooldown = 4
  Poll = 4
  MaxSpent = 2
  MaxFailures = 3
  Timeout = 6
INVARIANT NoStorm
INVARIANT StaleMeansSilenced
PROPERTY FailureEscalates
