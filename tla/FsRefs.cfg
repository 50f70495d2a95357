SPECIFICATION Spec
CONSTANTS
  MAX_FD = 2
  RAMFS_MAX_ENTRIES = 8
  MKDIR_MAX_ENTRIES = 16
  RAMFS_FILE_CAPACITY = 3
  Images <- MCImages
  Name <- MCName
  Paths <- MCPaths
  Sizes = {2}
  MaxInodes = 4
  CountRefs = TRUE
INVARIANTS
  HeldInodesCounted
CHECK_DEADLOCK FALSE
