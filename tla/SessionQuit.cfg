CONSTANTS
  Cell <- MCLow
  Value <- MCValue
  FlashWords = 2
  ReadsMayFail = FALSE
SPECIFICATION Spec
PROPERTIES QuitKeepsWrites
