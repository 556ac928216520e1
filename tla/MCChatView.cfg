SPECIFICATION Spec
CONSTANTS
  c1 = c1
  c2 = c2
  None = None
  Conversations <- MCConversations
  Existing <- MCExisting
  MaxSends = 2
  MaxVisits = 2
  MaxChunks = 1
  MaxRequests = 1
  MaxPushes = 2
INVARIANTS
  StreamsMatchRuns
  TextIsWhole
  ViewIsStored
PROPERTY ShownStays
CHECK_DEADLOCK FALSE
