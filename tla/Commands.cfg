\* A target's memory is looked at by two commands.
SPECIFICATION CommandsSpec
\* Two cells below r28, two between r31 and DWDR, and more than two chunks
\* beyond; EEPROM of more than five bytes.
CONSTANTS
  Parts = {"numbers", "addresses", "memory", "loader", "codes", "flow"}
  First = 26
  DWDRaddr = 34
  DataLimit = 42
  Chunk = 3
  StackShown = 5
  EepromSize = 8
  MaxLength = 7
  MaxCommands = 2
  SPs = {26, 29, 33, 36, 40, 41, 50}
\* A flash of three pages, shorter than the buffer for it.
  LoadFlash = 6
  LoadPage = 2
  LoadBuffer = 7
  LoadFiles <- SomeFiles
  LoadHandles = {3, 4}
INVARIANTS DumpsAsked MemoryTransfers Loaded Agrees
PROPERTIES Onward
CHECK_DEADLOCK FALSE
