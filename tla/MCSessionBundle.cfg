SPECIFICATION Spec
CONSTANTS
  Actors = {a, b}
  Dashboards = {a}
  Tokens = {t1, t2, t3}
  None = None
  Overlap = FALSE
  Faults = TRUE
  MaxCrashes = 2
SYMMETRY TokenSymmetry
INVARIANT BundleSafety
PROPERTIES CellsSpec OpenKeepsLocal
