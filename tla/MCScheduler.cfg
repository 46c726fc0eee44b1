SPECIFICATION FairSpec
CONSTANTS
  Requests = {1, 2, 3}
  Key <- Sessions
  NoKey = "none"
  Chunks <- Prompts
  Rounds <- Brief
  MaxActive = 2
  Budget = 1
  Modes <- SomeModes
  Failures = 1
INVARIANTS
  Residents
  PrefillServed
PROPERTIES
  EveryQueuedEnds
CHECK_DEADLOCK FALSE
