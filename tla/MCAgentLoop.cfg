\* Runs of two tool steps and one recovery, that stall at the second repetition.
SPECIFICATION Spec
CONSTANTS
  Protocols = {"openai", "anthropic"}
  CallNames = {"run_command"}
  CallIds = {"a"}
  MaxCalls = 1
  Texts = {"prose", "fence_read", "final", "blocked", "two_finals"}
  MAX_TOOL_STEPS_PER_REQUEST = 2
  MAX_PROTOCOL_RECOVERY_TURNS = 1
  STALL_THRESHOLD = 1
  MAX_TOTAL_AGENT_READ_BYTES = 1
  MAX_SINGLE_FILE_READ_BYTES = 2
  MAX_COMMANDS_PER_AGENT_RUN = 1
  MaxReturns = 1
INVARIANTS
  WorkIsBounded
PROPERTIES
  ImplementsContract
CHECK_DEADLOCK FALSE
