SPECIFICATION FairSpec
CONSTANTS
  Cap = 2
  PackNum = 2
  ShamLimit = 0
  Savers = {"main", "sysCtrl"}
  Hazards = {"second_save", "late_reply"}
  MaxRec = 3
  MaxLogin = 2
  MaxBoot = 1
  Transit = 1
INVARIANTS TypeOK TokenHeld NoPhantom
PROPERTIES DrainsWhenOnline DeadLinkNoticed
CHECK_DEADLOCK FALSE
