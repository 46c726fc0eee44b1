SPECIFICATION FairSpec
CONSTANTS
  Capacity = 2
  TierSlots = 1
  MaxAllocations = 2
  MaxGeneration = 2
  Enabled <- BothTiers
INVARIANTS
  SlotPartition
  StorageExact
PROPERTIES
  EventuallyReusable
CHECK_DEADLOCK FALSE
