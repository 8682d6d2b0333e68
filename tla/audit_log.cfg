SPECIFICATION Spec
CONSTANTS
  Roles = {"trader", "scheduler"}
  Threads = {t1, t2}
  None = None
  MaxDay = 1
  MaxHash = 8
  MaxTears = 1
INVARIANT ChainsVerify
INVARIANT DamageIsConfined
CHECK_DEADLOCK FALSE
