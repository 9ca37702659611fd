SPECIFICATION FairSpec
CONSTANTS
  MaxRetry = 1
  LoginWait = 2
  NoteTries = 3
  Hazards = {}
  MaxOrder = 2
  MaxDrop = 2
  MaxBoot = 2
INVARIANTS TypeOK ResultTrue OutcomeKept NoPowerDownInUpgrade
PROPERTIES UpgradeEnds OutcomeSent
