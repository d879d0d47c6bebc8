CONSTANTS
  small = small
  full = full
  wide = wide
  huge = huge
  Image = {small, full, wide, huge}
  Size <- const_Size
  Room = 4
  APP_MAX_SIZE = 5
  PagesPerSector = 2
  MaxCuts = 2
  MaxDecays = 1
  Blank = blank
  Torn = torn
  NoMeta = none
SPECIFICATION FairSpec
INVARIANTS TypeOK RunsOnlyWholeImages Recoverable
PROPERTIES SourceIsWhole UpdateIsApplied
\* The bootloader loops for ever when it finds no application to start.
CHECK_DEADLOCK FALSE
