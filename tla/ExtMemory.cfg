CONSTANTS
  Page <- const_Page
  PagesPerSector = 2
  Data = {d1, d2}
  Blank = blank
  Torn = torn
  NoReq = none
  QSPI_RETRY_MAX = 2
  QSPI_TIMEOUT_MAX = 2
  LogsStart = 2
SPECIFICATION FairSpec
INVARIANT TypeOK
PROPERTIES DoneIsDone RequestAnswered ImplementsFlashService
