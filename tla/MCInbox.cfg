CONSTANTS
  p1 = p1
  p2 = p2
  Peer <- MCPeer
  Idle = Idle
  Key = {1}
  MaxEpoch = 0
  MaxView = 1
  MaxQueuesLimit = 2
  QueueSize = 2
  HistorySize = 1
  Offered <- MCOffered
  MaxReceive = 3
SPECIFICATION FairSpec
INVARIANTS
  Accounted
  AcceptedOnce
PROPERTIES
  ChannelsDrain
