SPECIFICATION Spec
CONSTANTS
  PAGE_SIZE = 2
  PER_UNIT = 4
  ENTRIES = 8
  TABLES = 2
  LOW = 4
  WORD = 64
  MIN_LEN = 2
  MAX_MEM_ENTRIES = 2
  MODULE_PAGES = 3
  HEAP_START = 10
  HEAP_END = 24
  page_directory = 6
  first_page_table = 8
  __kernel_end = 15
  Machines <- MCMachines
INVARIANTS
  TypeOK
  FramesOwned
  FailsWhenFull
PROPERTIES
  MappingStable
