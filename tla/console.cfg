SPECIFICATION FairSpec
CONSTANTS
  Char = {"e", "x", "space", "enter", "backspace", "tab"}
  KEYBOARD_BUFFER_SIZE = 2
  INPUT_BUFFER_SIZE = 4
  MaxKeys = 5
INVARIANTS NoPhantomKey NoKeyTwice LineTerminated
PROPERTIES ImplementsFifo  EchoPrintsItsArgument
