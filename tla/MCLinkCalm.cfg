SPECIFICATION FairSpec
CONSTANTS
  MaxSockets = 6
  FailLimit = 3
  Hazards = {}
  MaxDns = 1
INVARIANTS MachineRuns NotStranded NoSocketForgotten
PROPERTIES Reconnects
