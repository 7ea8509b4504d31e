CONSTANTS
  Others <- MCOthers
  MaxStored = 2
  MaxRequests = 4
  MaxOthers = 1
  MaxEvents = 3
  MaxOutages = 1
  MaxClears = 1
SPECIFICATION FairSpec
INVARIANTS
  NeverStranded
  
  
  

  
CHECK_DEADLOCK FALSE
