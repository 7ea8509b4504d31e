SPECIFICATION FairSpec
CONSTANTS
  Event = {e1, e2, e3}
  EventId <- DistinctIds
  Stamp <- SameStamp
  Cutoffs = {1}
  kMaxQueuedWrites = 2
  CurrentVersion = 2
  DiskFaults = FALSE
  MaxPrunes = 0
  None = None
PROPERTY AcceptedIsPersisted
CHECK_DEADLOCK FALSE
