SPECIFICATION Spec
CONSTANTS
  KeyLimit = 2
  Letters = {"a"}
  RAW_SIZE = 3
  INPUT_SIZE = 4
  OUTPUT_SIZE = 3
  EDIT_MAX = 1
  MAXLEN = 2
  ECHO = TRUE
INVARIANTS
  ReaderAwake
CHECK_DEADLOCK FALSE
