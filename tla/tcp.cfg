SPECIFICATION Spec
CONSTANTS
  Peer = {peer1}
  Port = {1}
  FirstPort = 1
  PortSpace = 3
  SeqSpace = 8
  ISN = {5}
  ListenISN = 5
  PeerISN = 6
  BufSize = 2
  Mss = 1
  Window = {1}
  FirstWindow = 2
  QueueMax = 2
  Lens = {1, 2}
  SendLens = {2}
  MaxIn = 3
  MaxOut = 2
  MaxSocks = 4
  MaxOwn = 1
  MaxConnects = 1
INVARIANTS  AcceptedInOrder ReceivedInOrder SentAccounted
CHECK_DEADLOCK FALSE
