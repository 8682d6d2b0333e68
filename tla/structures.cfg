SPECIFICATION Spec
CONSTANTS
  Chains <- MCChains
  Spot = 10000
  Moves = {2, 10, 20, 30}
  SpreadPcts = {0, 4, 8}
INVARIANT TypeOK
INVARIANT BookedLossIsWorst
INVARIANT CloseCostIsBounded
PROPERTY LiquidityKeepsTheShape
PROPERTY EscalationConcedes
CHECK_DEADLOCK FALSE
