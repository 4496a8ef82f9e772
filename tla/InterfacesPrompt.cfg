\* Lines typed at a terminal, among them gdbserver commands whose program gdb stops.
SPECIFICATION InterfacesSpec
CONSTANTS
  Parts = {"typed"}
  Addresses = {2, 4}
  ReadLengths = {0, 3, 4}
  Failing = {"", "bad"}
  IndexRange = 4
  MaxSessions = 2
  MaxRequests = 5
  NoChip = NoChip
  Unsupported = Unsupported
PROPERTIES PromptShown
CHECK_DEADLOCK FALSE
