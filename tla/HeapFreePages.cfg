SPECIFICATION Spec
CONSTANTS
  PAGE_SIZE = 8
  HEADER = 2
  HEAP_PAGES = 3
  Sizes = {1, 4, 7}
  FreesPages = TRUE
INVARIANTS
  ListSorted
CHECK_DEADLOCK FALSE
