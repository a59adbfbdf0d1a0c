SPECIFICATION MCSpec
CONSTANTS
  Files = {1, 2}
  Limit = 3
  Wrap = 16
  MaxPieces = 2
  Counts = {0, 1, 3, 14}
  Seeks = {0, 1, 5, 15}
  FileSystem = {f1}
  NoFs = NoFs
  MAX_MOUNTS = 2
  MAX_PATH = 4
  PageBytes = 1
  Letter = {"a", "."}
  PathLen = 4
  MaxNodes = 3
  MaxBytes = 2
INVARIANTS InsideUnlessPastEnd CreatedIsFound
PROPERTIES OffsetMatchesReturn
CHECK_DEADLOCK FALSE
