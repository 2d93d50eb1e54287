SPECIFICATION FairSpec
CONSTANTS
  Launches = {l1, l2, l3}
  Commands = {l3}
  Cdp = {l3}
  Overlap = TRUE
  NumOverrides = 1
  None = None
CHECK_DEADLOCK FALSE
INVARIANT LaunchSafety
PROPERTIES LaunchSteps CancelEnds
