CONSTANTS
  Pages = 1
  TTC_CMD_LEN = 2
  OTA_FULL_PACKET = 4
  RX_CIRC_BUF_SIZE = 8
  USART_TIMEOUT_MAX = 2
  MaxCommands = 1
  MaxFaults = 1
SPECIFICATION Spec
INVARIANTS AckMeansWhole
