SPECIFICATION FairHandover
CONSTANTS
  Controllers = {c1, c2, c3}
INVARIANTS
  OneRuns
  EventLive
PROPERTIES
  SchedulerReturns
CHECK_DEADLOCK FALSE
