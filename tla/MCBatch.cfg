SPECIFICATION FairSpec
CONSTANTS
  Batched = {"a", "b", "c"}
  Grouped = {"b", "c"}
  Fallback = {"f"}
  Reserve <- Mixed
  Key <- Shared
  NoKey = "none"
  NoOne = "nobody"
  MaxActive = 2
  MaxPending = 2
  MaxTotal = 3
  Chunks = 1
  Tokens = 2
  Burst = 1
  Failures = 1
INVARIANTS
  BudgetExact
  SessionExclusive
  HeldOnce
PROPERTIES
  EveryRequestEnds
CHECK_DEADLOCK FALSE
