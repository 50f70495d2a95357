SPECIFICATION Spec
CONSTANTS
  PAGE_SIZE = 8
  HEADER = 2
  HEAP_PAGES = 3
  Sizes = {1, 4, 7}
  FreesPages = FALSE
INVARIANTS
  TypeOK
  Tiling
PROPERTIES
  ImplementsAllocator
CHECK_DEADLOCK FALSE
