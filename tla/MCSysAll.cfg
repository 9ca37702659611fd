SPECIFICATION FairSpec
CONSTANTS
  Second = 1
  BoxSize = 9
  Hazards = {"backlog"}
INVARIANTS TypeOK IoNeverStops NoCommandStranded
PROPERTIES EveryCommandRuns
