CONSTANTS
  Region <- ControlRegion
  Value <- ControlValue
  Initial <- PowerOn
  Struck <- const_Struck
  MAX_INIT_RETRIES = 1
  STABILIZE_TIMEOUT = 1
  READ_TICKS = 1
  BATTERY_STATUS = 77
  MaxUpsets = 1
SPECIFICATION FairSpec
INVARIANTS TypeOK MissionTested
PROPERTIES ImplementsSafeStore ReachesMission ResetObeyed DangerEndsInSafeMode
