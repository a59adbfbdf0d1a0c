SPECIFICATION Spec
CONSTANTS
  ReservedPages = 2
  PhysPages = 7
  Peer = {peer1, peer2}
  FirstDynamic = 1
  PortSpace = 3
  PageBytes = 2
  BufSize = 2
  QueueMax = 1
  Types = {"TCP", "RAW"}
  Port = {0}
  Lens = {1, 2}
  OptSizes = {1, 3}
  MaxFd = 2
  MaxResizes = 1
INVARIANTS  ConnectionsAgree 
SYMMETRY PeerSymmetry
CHECK_DEADLOCK FALSE
