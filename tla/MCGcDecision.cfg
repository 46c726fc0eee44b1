SPECIFICATION Spec
CONSTANTS
    Capacity = 1
    Readers = {r1}
    RewindTo = {0}
    MaxBlocks = 2
    MaxVersion = 6
    MaxScores = 1
    MaxSteps = 1
    Recent = 0
    ReadyLow = 1
    ReadyHigh = 1
    ScanBlocks = 1
    BatchBlocks = 1
    CandidateSteps = 1
    IngestBlocks = 1
    Modes = {"Shadow", "Delete"}
    r1 = r1
INVARIANTS
    SnapshotAtomic
    DecisionCurrent
    LeasedStaysLive
    PendingExact
