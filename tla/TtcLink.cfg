CONSTANTS
  Pages = 1
  TTC_CMD_LEN = 2
  OTA_FULL_PACKET = 4
  RX_CIRC_BUF_SIZE = 5
  USART_TIMEOUT_MAX = 2
  MaxCommands = 2
  MaxFaults = 1
SPECIFICATION FairSpec
INVARIANTS TypeOK FramesAreWhole InBuffer
PROPERTIES TransferGoesThrough
