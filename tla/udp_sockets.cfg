SPECIFICATION UdpSpec
CONSTANTS
  ReservedPages = 1
  PhysPages = 7
  UdpPort = {0, 1}
  DataLens = {1, 3}
  BufferLens = {2}
  SendPages = {1, 2}
  MaxSockets = 2
  MaxCount = 4
INVARIANTS UdpMemoryExact OneSocketPerPort CountCoversQueue 
CHECK_DEADLOCK FALSE
