SPECIFICATION FairOverlay
CONSTANTS
  Segments = {"main", "mtp"}
  Writers = {"w1", "w2", "w3"}
  Wants <- Ranges
  Readers = {"r1", "r2"}
INVARIANTS
  WritesSurvive
  ReadsCoherent
PROPERTIES
  EveryCallEnds
CHECK_DEADLOCK FALSE
