SPECIFICATION FairSpec
CONSTANTS
  SleepTimes = {2, 4}
  TrackSpaces = {2}
  TrackCounts = {2}
  Cycle = 4
  Overtime = 1
  Lead = 1
  HeadStart = 1
  StayUp = 2
  LoginMin = 5
  LoginAwake = 1
  Hazards = {}
  MaxCmd = 1
  MaxDrop = 1
  MaxBoot = 1
INVARIANTS NoReportDropped WakesBeforeReport
PROPERTIES ReportsGoOn LowPowerAgain
