CONSTANTS
  Capacity = 2
  MaxSend = 3
  MaxBytes = 6
  Tries = 2
  MeasureTries = 2
  BreakTries = 2
  Speeds <- MCSpeeds
  Faults <- EarlyFaults
  MaxFaults = 2
  MayBeMute = TRUE
SPECIFICATION Spec
PROPERTIES ImplementsLink
