CONSTANTS
  a = a
  b = b
  Image = {a}
  ImagePages = 3
  MaxSeq = 2
  PagesPerSector = 2
  WAIT_TIMEOUT = 2
  FlashMayFail = FALSE
  MaxRestarts = 1
  MaxCommands = 2
  MaxNoise = 0
  Blank = blank
  Torn = torn
  Junk = junk
  NoReq = none_req
  None = none
  Unset = unset
  LooksBlank = {blank, torn}
SPECIFICATION FairSpec
INVARIANTS TypeOK AcknowledgedPagesAreKept
PROPERTIES SilenceEndsSession StartIsServed
