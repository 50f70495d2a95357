SPECIFICATION MCSpec
CONSTANTS
  mouse_max_x = 2
  mouse_max_y = 1
  Packets <- MCPackets
  KEYS = 1
  INT_MAX = 127
  HEX_DIGITS = 2
  OUT_SIZE = 8
  TextWidths = {0, 1, 2, 3}
  TextWords <- MCWords
  Code <- MCCode
  TextNumerals <- MCNumerals
  TextFormats <- MCFormats
  TextInt <- MCInt
  TextUnsigned = 29
  TextString <- MCString
  TextChar = "a"
  TextMemory <- MCMemory
  ARGC_MAX = 3
  TextLines <- MCLines
INVARIANTS
  TypeOK
  ShiftFollowsKeys
  NumbersCorrect
  SearchesCorrect
  MoveKeepsSource
  FormatsAgree
  ArgumentsAreWords
PROPERTIES
  FollowsMouse
CHECK_DEADLOCK FALSE
