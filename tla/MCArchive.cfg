SPECIFICATION FairSpec
CONSTANTS
  N = 3
  Environments <- Surroundings
  Cadences = {1, 2, 3}
  MaxKills = 3
INVARIANTS
  ResumeIntact
  SealedIntact
PROPERTIES
  ProgressKept
  EventuallySealed
CHECK_DEADLOCK FALSE
