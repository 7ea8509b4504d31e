SPECIFICATION FairSpec
CONSTANTS
  Configs <- AllConfigs
  Candidates = 2
  MaxEvents = 2
INVARIANTS StoreOutlivesCapture BackendOutlivesThread EventsAccounted
 
CHECK_DEADLOCK FALSE
