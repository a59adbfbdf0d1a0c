SPECIFICATION MCSpec
CONSTANTS
  Host = {v1, v2, v3}
  ArpSlots = 2
  HeapPages = 3
  AllOnes = 1
  MaxFrames = 2
  MaxCalls = 2
  MaxTicks = 1
  Proc = {p1, p2}
  Name = {v1, v2, v3}
  Server = {s1, s2}
  Google <- MCGoogle
  Setting <- MCSetting
  s1 = s1
  s2 = s2
  IdSpace = 3
  CacheSlots = 2
  MaxTime = 1
  MaxQueries = 3
  NameLen = 5
  MaxLabel = 3
  MaxHost = 5
  Char = {97, 45, 95}
  Byte = {0, 1, 2, 3, 192}
  MaxChars = 5
  MaxPacket = 5
INVARIANTS  CacheTrue  NamesParsed
SYMMETRY Symmetry
CHECK_DEADLOCK FALSE
