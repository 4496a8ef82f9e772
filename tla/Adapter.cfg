\* The loops of the host and of the programs may stop.
SPECIFICATION AdapterSpec
\* A short cycle and few reversals, in narrow registers.
CONSTANTS
  CYCLETIME = 7
  HAMMERS = 6
  Byte = 16
\* Two transfers given up or resets; three losses or transfers given up.
  Buffers <- SomeBuffers
  DwLens = {16}
  UsbRequests <- AllRequests
  LossyRequests <- FewRequests
  UsbFaults = 2
  LossyFaults = 3
\* Bytes of two bits, an address and a direction.
  Bits = 2
  Messages <- SomeMessages
  ReadLengths = {1, 2}
  MaxJobs = 7
\* The carries of the address bytes, poll bytes among the data, with and without polling.
  Starts = {0, 511, 32767}
  Contents <- SomeContents
  SckPeriods = {10, 250}
  Timeouts = {0, 640, 9000}
  MaxTransfers = 2
INVARIANTS Doorbell UsbTransfers I2cTransfers
PROPERTIES SpiTransfers Reverses AllEnd
CHECK_DEADLOCK FALSE
