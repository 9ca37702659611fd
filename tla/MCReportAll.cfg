SPECIFICATION Spec
CONSTANTS
  SleepTimes = {4}
  TrackSpaces = {2}
  TrackCounts = {2}
  Cycle = 4
  Overtime = 1
  Lead = 1
  HeadStart = 1
  StayUp = 2
  LoginMin = 4
  LoginAwake = 1
  Hazards = {"quick_report", "stop_track", "rtc_change", "key_wake"}
  MaxCmd = 2
  MaxDrop = 1
  MaxBoot = 1
INVARIANTS TypeOK
PROPERTIES TrackingSurvives
