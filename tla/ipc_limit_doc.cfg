\* As ipc_live, with the subscription limit within reach.
SPECIFICATION FairSpec
CONSTANTS
  Conn = {c1}
  Authorized = {c1}
  Fd = {4}
  RequestId = {r1}
  kMaxClients = 1
  kMaxSubscriptionsPerClient = 1
  kMaxOutgoingQueue = 2
  SocketBuffer = 1
  MaxRequests = 2
  MaxEvents = 1
  ThreadFaults = FALSE
  Capture = Capture
  None = None
PROPERTY RequestAnswered
CHECK_DEADLOCK FALSE
