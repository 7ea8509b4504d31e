\* Peers that may never read, one of another uid, a queue of one frame; the
\* subscription limit is out of reach.
SPECIFICATION FairSpec
CONSTANTS
  Conn = {c1, c2}
  Authorized = {c1}
  Fd = {4}
  RequestId = {r1}
  kMaxClients = 1
  kMaxSubscriptionsPerClient = 2
  kMaxOutgoingQueue = 1
  SocketBuffer = 1
  MaxRequests = 2
  MaxEvents = 1
  ThreadFaults = TRUE
  Capture = Capture
  None = None
PROPERTIES  RequestAnswered
CHECK_DEADLOCK FALSE
