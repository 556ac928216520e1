SPECIFICATION Spec
CONSTANTS
  persistent = persistent
  private = private
  None = None
  Requests = {r1}
  Conversations = {r1}
  ConversationOf <- MCConversationOf
  Profiles <- MCProfiles
  Private <- MCPrivate
  PoliciesSet <- MCPolicies
  Sessions = {s1, s2}
  Tabs = {t1, t2}
  Ops <- MCOps
  MaxActions = 1
  MaxNavigations = 1
  MaxScreenshots = 1
  MaxTabsPerSession = 2
  MaxStarts = 1
SYMMETRY MCSymmetry
INVARIANTS
  ConsentPrecedesControl
  ReferencesExist
PROPERTY PrivateIsForgotten
CHECK_DEADLOCK FALSE
