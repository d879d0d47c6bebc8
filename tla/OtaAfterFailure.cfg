CONSTANTS
  a = a
  b = b
  Image = {a}
  ImagePages = 2
  MaxSeq = 1
  PagesPerSector = 1
  WAIT_TIMEOUT = 2
  FlashMayFail = TRUE
  MaxRestarts = 0
  MaxCommands = 2
  MaxNoise = 0
  Blank = blank
  Torn = torn
  Junk = junk
  NoReq = none_req
  None = none
  Unset = unset
  LooksBlank = {blank, torn}
SPECIFICATION FairSpec
PROPERTY StartIsServed
