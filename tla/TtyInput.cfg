SPECIFICATION Spec
CONSTANTS
  KeyLimit = 4
  Letters = {"a", "b"}
  RAW_SIZE = 4
  INPUT_SIZE = 4
  OUTPUT_SIZE = 2
  EDIT_MAX = 2
  MAXLEN = 3
  ECHO = FALSE
INVARIANTS
  TypeOK
  ReadReturnsLine
  LineAtomic
PROPERTIES
  ImplementsLineDiscipline
CHECK_DEADLOCK FALSE
