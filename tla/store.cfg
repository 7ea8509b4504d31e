SPECIFICATION FairSpec
CONSTANTS
  Event = {e1, e2, e3, e4}
  EventId <- DistinctIds
  Stamp <- SameStamp
  Cutoffs = {1}
  kMaxQueuedWrites = 2
  CurrentVersion = 2
  DiskFaults = TRUE
  MaxPrunes = 2
  None = None
INVARIANTS QueueBounded NothingVanishes CloseDrains
PROPERTIES CloseTerminates ImplementsEventLog
CHECK_DEADLOCK FALSE

