SPECIFICATION FairSpec
CONSTANTS
  MAX_PROCESSES = 3
  Timeslice = 2
  ReservedPages = 1
  PhysPages = 6
PROPERTIES ReadyProcessRuns
