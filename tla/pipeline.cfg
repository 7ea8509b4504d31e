CONSTANTS
  MaxName = 5
  MaxLabels = 4
  NavigationWindow = 1
  MaxNavigations = 2
  Clients = {c1}
  PolicyDocs <- MCDocs
  Frames <- MCFrames
  KernelEvents <- MCKernelEvents
  Sites <- MCSites
  Browsers <- MCBrowsers
  Ages = {0, 3}
  MaxTime = 5
  MaxUpdates = 1
  MaxVisits = 2
  MaxEvents = 1
SPECIFICATION Spec
INVARIANTS
  TypeOK
  
  UrlsStripped
  
  BestNavigation
  NameWholeOrAbsent
CONSTRAINT MoreToCome
CHECK_DEADLOCK FALSE
