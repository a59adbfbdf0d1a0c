SPECIFICATION Spec
CONSTANTS
  Written = {0, 1, 4, 6}
  MAX_OPEN_FILES = 2
  ReservedPages = 2
  PhysPages = 6
INVARIANTS TableExact KernelPagesStayUsed FailedCallUndone
