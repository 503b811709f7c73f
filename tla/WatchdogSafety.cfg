SPECIFICATION FairWatchSpec
CONSTANTS
  Limit = 3
  Rate = 2
  MaxMisses = 3
  MaxUsage = 12
INVARIANTS
  OvershootBounded
  BreachesOnce
CHECK_DEADLOCK FALSE
PROPERTY
  OverBudgetIsNoticed
