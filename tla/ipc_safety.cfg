\* Two peers, one client at a time, two broadcasts; threads may fail to start.
SPECIFICATION Spec
CONSTANTS
  Conn = {c1, c2}
  Authorized = {c1, c2}
  Fd = {4, 5}
  RequestId = {r1}
  kMaxClients = 1
  kMaxSubscriptionsPerClient = 1
  kMaxOutgoingQueue = 2
  SocketBuffer = 1
  MaxRequests = 1
  MaxEvents = 2
  ThreadFaults = TRUE
  Capture = Capture
  None = None
SYMMETRY Symmetry
INVARIANTS EntryIsLive ClientsBounded OutQueueShort LossesCounted StopDisconnectsAll
CHECK_DEADLOCK FALSE
