CONSTANTS
  small = small
  full = full
  wide = wide
  huge = huge
  Image = {small, full}
  Size <- const_Size
  Room = 4
  APP_MAX_SIZE = 5
  PagesPerSector = 2
  MaxCuts = 0
  MaxDecays = 0
  Blank = blank
  Torn = torn
  NoMeta = none
SPECIFICATION Spec
INVARIANT RetryRemains
CHECK_DEADLOCK FALSE
