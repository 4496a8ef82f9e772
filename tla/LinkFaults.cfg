CONSTANTS
  Capacity = 2
  MaxSend = 3
  MaxBytes = 5
  Tries = 2
  MeasureTries = 2
  BreakTries = 2
  Speeds <- MCSpeeds
  Faults <- AllFaults
  MaxFaults = 2
  MayBeMute = TRUE
SPECIFICATION FairSpec
INVARIANTS TypeOK FreshAnswer RightSpeed BreakpointTrue
PROPERTIES OperationsEnd BreakpointSeen
