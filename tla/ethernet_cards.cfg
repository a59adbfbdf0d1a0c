SPECIFICATION CardSpec
CONSTANTS
  N = 3
  MaxFrames = 7
INVARIANTS FramesInOrder RingsKeepGoing
PROPERTIES  QueuedIsSent
CHECK_DEADLOCK FALSE
