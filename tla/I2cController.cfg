CONSTANTS
  N = 3
  Len <- const_Len
  I2C_TIMEOUT_MAX = 1
  BITS = 3
  CLOCKS = 4
  MaxFaults = 1
SPECIFICATION FairControllerSpec
INVARIANTS ControllerTypeOK NoCrossTalk HoldIsBounded BytesInPlace
PROPERTIES NoOvertaking EveryReadEnds StuckBusIsFreed
