CONSTANTS
  a = a
  b = b
  Image = {a, b}
  ImagePages = 2
  MaxSeq = 1
  PagesPerSector = 1
  WAIT_TIMEOUT = 1
  FlashMayFail = TRUE
  MaxRestarts = 1
  MaxCommands = 2
  MaxNoise = 1
  Blank = blank
  Torn = torn
  Junk = junk
  NoReq = none_req
  None = none
  Unset = unset
  LooksBlank = {blank, torn}
SPECIFICATION Spec
SYMMETRY Symmetry
INVARIANT PendingImageIsWhole
PROPERTY BufferStable
