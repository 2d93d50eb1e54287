SPECIFICATION CacheSpec
CONSTANTS
  Procs = {p1, p2}
  Versions = {v1, v2}
  Absent = Absent
  MaxOps = 4
  MaxKills = 2
SYMMETRY InstallSymmetry
CHECK_DEADLOCK FALSE
PROPERTY CacheSteps
