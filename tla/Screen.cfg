SPECIFICATION Spec
CONSTANTS
  GRID_WIDTH = 5
  GRID_HEIGHT = 5
  Letters = {"a"}
  TextLimit = 4
  Places <- MCPlaces
  UsageSizes = {2}
INVARIANTS
  TypeOK
  DisplayCurrent
  EdgesIntact
  TextAsPrinted
CHECK_DEADLOCK FALSE
