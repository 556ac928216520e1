\* Two ids let a plan have two independent or dependent steps and a replan use
\* an id again; two revisions and three attempts let every budget run out.
SPECIFICATION FairSpec
CONSTANTS
  StepIds = {s1, s2}
  VerifyStep = verify
  MaxPlanRevisions = 2
  MaxStepAttempts = 2
  MaxTotalSteps = 3
  MaxNoProgress = 2
INVARIANTS
  ActiveTaskHasRunner
  WithinBudget
PROPERTIES
  CompletedTaskIsDone
  PauseStartsNothing
  RunnerStops
CHECK_DEADLOCK FALSE
