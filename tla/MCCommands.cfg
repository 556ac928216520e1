\* Two commands: one to be trusted, cancelled or left running, and one to meet
\* its rule, the limit of one process and the list of one; two script bodies
\* besides none, so that a trusted script can change.
SPECIFICATION FairSpec
CONSTANTS
  MaxCommands = 2
  Bodies = {b1, b2}
  NoBody = none
  MaxConcurrent = 1
  ListLimit = 1
INVARIANTS
  StartsAreAuthorized
  ProcessesAreAccounted
  AnswerIsFinal
PROPERTIES
  AutomaticStartIsTrusted
  AgentIsAnswered
CHECK_DEADLOCK FALSE
