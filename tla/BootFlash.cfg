CONSTANTS
  Images <- const_Images
  Damages <- const_Damages
  VERIFY_CHUNK_SIZE = 2
  QSPI_BOOT_TIMEOUT = 2
  Retries = 3
  Attempts = 3
  MaxFaults = 2
SPECIFICATION FairSpec
INVARIANTS TypeOK VerdictIsRight ClearedMeansBlank
PROPERTIES FlashNeverBlocks
\* It ends when verification and erase are done.
CHECK_DEADLOCK FALSE
