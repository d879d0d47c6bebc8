CONSTANTS
  SPI_TIMEOUT_MAX = 1
  PROPULSOR_BUF_LEN = 2
  Commands = {"READ", "SET_THRUST"}
  I2cSensors = {"gnss", "imu", "pressure", "temperature"}
  Measured <- const_Measured
  MaxOrders = 1
SPECIFICATION FairSpec
INVARIANTS TelemetryIsOneFrame CommandIsWhole TelemetryIsTrue
PROPERTIES EverySensorIsPolled
