SPECIFICATION FairSpec
CONSTANTS
    Capacity = 2
    Readers = {}
    RewindTo = {}
    MaxBlocks = 2
    MaxVersion = 4
    MaxScores = 0
    MaxSteps = 0
    Recent = 0
    ReadyLow = 1
    ReadyHigh = 1
    ScanBlocks = 1
    BatchBlocks = 1
    CandidateSteps = 0
    IngestBlocks = 0
    Modes = {"Delete"}
PROPERTIES
    NoOvershoot
    Replenished
