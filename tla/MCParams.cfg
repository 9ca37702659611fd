SPECIFICATION FairSpec
CONSTANTS
  Param = {heartbeat, interval}
  Once = {heartbeat}
  Reported = {interval}
  Value = {v1, v2}
  Default = v1
  Short = short
  Long = long
  Unknown = unknown
  Blank = blank
  Bad = bad
  Hazards = {}
  MaxLength = 2
  MaxCmd = 3
  MaxLogin = 2
  MaxBoot = 1
INVARIANTS TypeOK Readable RamAgrees 
PROPERTIES CommandsEnd
CHECK_DEADLOCK FALSE
