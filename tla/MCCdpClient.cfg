SPECIFICATION FairSpec
CONSTANTS
  Sends = {s1, s2, s3}
  None = None
CHECK_DEADLOCK FALSE
INVARIANT ReplySafety
PROPERTY SendReturns
