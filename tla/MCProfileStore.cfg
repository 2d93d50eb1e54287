SPECIFICATION Spec
CONSTANTS
  c1 = c1
  c2 = c2
  p1 = p1
  p2 = p2
  Clients = {c1, c2}
  Procs = {p1}
  ProcOf <- OneProcess
  Names = {a, b}
  Fields = {f}
  Absent = Absent
  Free = Free
  MaxCrashes = 1
SYMMETRY StoreSymmetry
INVARIANT TypeOK
PROPERTIES MapSpec SaveKeepsOthers RemoveSparesReAdded
