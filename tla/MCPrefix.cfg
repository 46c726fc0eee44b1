SPECIFICATION Spec
CONSTANTS
  Requests = {1, 2, 3, 4}
  Prompt <- Prompts
  Pages = {p1, p2, p3, p4, p5}
  Buffers = {b1, b2, b3, b4, b5, b6, b7, b8, b9}
  Rows = 2
  PageBudget = 3
  EntryBudget = 2
  GpuEntries = 1
  Guard = 0
  None = None
INVARIANTS
  PrefixIntact
  PagesConserved
  SnapshotsIntact
PROPERTIES
  ExhaustionHonest
CHECK_DEADLOCK FALSE
