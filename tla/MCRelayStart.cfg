SPECIFICATION FairRelaySpec
CONSTANTS
  Starters = {s1, s2}
  Ports = {p1, p2}
  Nobody = Nobody
  Other = Other
  MaxGrabs = 3
CHECK_DEADLOCK FALSE
INVARIANT RelaySafety
PROPERTY StartReturns
