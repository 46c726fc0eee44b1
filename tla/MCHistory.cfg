SPECIFICATION Spec
CONSTANTS
  store_view = store_view
  window = window
  io_view = io_view
  Capacity = 2
  Store = store_view
  Batches = {io_view}
  Leases = {window}
  Working = window
  MaxGen = 2
  MaxWork <- WorkBound
  MaxSteps = 2
  MaxEvents = 1
  MaxLive = 1
  Recent = 1
  Grace = 1
  HalfLife = 1
  CandidateSteps = 0
  ScanBlocks = 2
  BatchBlocks = 1
  Scores <- LowHigh
  Shadow = {FALSE, TRUE}
INVARIANTS
  ReclaimedIsHidden
  LiveCountExact
  TombstoneJustified
PROPERTIES
  ExactRelease
