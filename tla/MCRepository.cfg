SPECIFICATION FairSpec
CONSTANTS
    Capacity = 1
    Leases = {l1, l2, l3}
    Reclaimers = {r1}
    MaxSequence = 3
    RefMask = 2
    l1 = l1
    l2 = l2
    l3 = l3
    r1 = r1
INVARIANTS
    RefsCountLeases
    ReleaseExclusive
    LeaseFence
    ReadyRing
PROPERTIES
    ImplementsLifecycle
    EventuallyReclaimed
CHECK_DEADLOCK FALSE
