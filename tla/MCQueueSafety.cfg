\* Two conversations share nothing but the run and id counters; two requests
\* are enough for one to be live, waiting or left to a task while the other
\* is queued, interrupted or sent into a deleted conversation.
SPECIFICATION Spec
CONSTANTS
  Conversations = {c1, c2}
  Items = {i1, i2}
  NoConversation = none
  MaxRetries = 1
SYMMETRY Interchangeable
INVARIANTS
  ExecutionIsExclusive
  NoUnaskedRerun
  OneAnswerPerAttempt
PROPERTIES
  NoLostWakeup
  PauseHolds
CHECK_DEADLOCK FALSE
