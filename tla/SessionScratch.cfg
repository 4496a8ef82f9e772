CONSTANTS
  Cell <- MCOthers
  Value <- MCValue
  FlashWords = 2
  ReadsMayFail = TRUE
SPECIFICATION Spec
PROPERTIES OtherCellsKept ImplementsUserProgram
