\* A search ends, dwdebug quits, and bytes, requests and faults are bounded.
SPECIFICATION InterfacesSpec
\* gdb: two breakpoints, an index with four values, requests of every kind
\* among them failing ones, interrupts at any time, and gdb leaving.
CONSTANTS
  Parts = {"faulty", "lossless", "working", "search", "steady", "shaky", "script", "typed",
           "short", "gdb", "served"}
  Addresses = {2, 4}
  ReadLengths = {0, 3, 4}
  Failing = {"", "bad"}
  IndexRange = 4
  MaxSessions = 2
  MaxRequests = 5
  NoChip = NoChip
  Unsupported = Unsupported
INVARIANTS SerialTrue RateFound PortsOpen EveryCommand GdbAgrees
PROPERTIES ImplementsLink RightTarget InputKept NoStray AllEnd
CHECK_DEADLOCK FALSE
