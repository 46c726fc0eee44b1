SPECIFICATION Spec
CONSTANTS
    Capacity = 2
    Readers = {}
    RewindTo = {0}
    MaxBlocks = 2
    MaxVersion = 4
    MaxScores = 0
    MaxSteps = 0
    Recent = 1
    ReadyLow = 1
    ReadyHigh = 1
    ScanBlocks = 2
    BatchBlocks = 1
    CandidateSteps = 0
    IngestBlocks = 0
    Modes = {"Delete"}
INVARIANTS
    DiscardedStayDead
