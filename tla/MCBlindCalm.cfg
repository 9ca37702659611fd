SPECIFICATION Spec
CONSTANTS
  Cap = 3
  PackNum = 2
  ShamLimit = 1
  Savers = {"main"}
  Hazards = {}
  MaxRec = 5
  MaxLogin = 2
  MaxBoot = 0
  Transit = 1
INVARIANTS OnePackOut NoSilentLoss QueueShape
PROPERTIES ImplementsStore
CHECK_DEADLOCK FALSE
