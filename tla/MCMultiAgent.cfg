SPECIFICATION FairSpec
CONSTANTS
  MaxItems = 2
  Proposals = {p1}
  MaxActions = 2
  MaxAttempts = 2
  MaxTurns = 3
INVARIANTS
  WorkIsAccounted
PROPERTIES
  PauseStopsWorkers
  OrchestrationEnds
CHECK_DEADLOCK FALSE
