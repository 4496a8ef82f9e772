CONSTANTS
  Cell <- MCScratch
  Value <- MCValue
  FlashWords = 2
  ReadsMayFail = TRUE
SPECIFICATION Spec
INVARIANTS TypeOK
PROPERTIES ImplementsUserProgram
