SPECIFICATION Spec
CONSTANTS
  ReservedPages = 1
  PhysPages = 9
  PageBytes = 2
  VPages = 4
  HeapStart = 2
  HeapLimit = 6
  Addresses = {2, 3, 4}
  MmapLengths = {1, 4}
  Lengths = {2, 3}
INVARIANTS FramesExclusive MunmapUndoesMmap
CHECK_DEADLOCK FALSE
