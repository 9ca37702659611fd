SPECIFICATION FairSpec
CONSTANTS
  MaxRetry = 1
  LoginWait = 2
  NoteTries = 3
  Hazards = {"report_in_retry"}
  MaxOrder = 2
  MaxDrop = 2
  MaxBoot = 2
PROPERTIES UpgradeEnds
