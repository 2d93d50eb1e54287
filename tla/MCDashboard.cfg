SPECIFICATION FairSpec
CONSTANTS
  Openers = {1, 2, 3}
  None = None
  MaxAsks = 2
  Stores = {{}, {1, 3}, {1, 2, 3}}
  MaxActs = 3
  MaxMixed = 1
CHECK_DEADLOCK FALSE
INVARIANTS DashboardSafety PromptSafety
PROPERTIES AimKept ListSettles PromptReturns
